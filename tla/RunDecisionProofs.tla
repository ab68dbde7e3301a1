-------------------------- MODULE RunDecisionProofs --------------------------
(***************************************************************************)
(* A run is resumed past an unknown outcome only by an informed decision,  *)
(* for every number of steps and every bound.  The argument: a decision    *)
(* carries the revision and step of the page it was taken on, all the way  *)
(* from the dialog to the transaction; a plain request that was admitted   *)
(* is about a revision at which no decision was due, and every step of the *)
(* run that could make one due gives it a new revision.                    *)
(***************************************************************************)
EXTENDS RunDecision, TLAPS

(* The records that the argument takes apart. *)
RunRecord == [rev : Nat, state : {"running", "failed", "ended"}, step : Nat, cause : Causes,
              book : BOOLEAN]
RequestRecord == [st : {"none", "sent", "admitted", "answered"}, choice : Decisions,
                  basis : [rev : Nat, step : Nat], observed : Nat,
                  code : {"none", "ok", "changed", "gone", "undecided", "conflict"}]
Records ==
  /\ runNow \in RunRecord /\ runShown \in RunRecord /\ opened \in RunRecord
  /\ runFetch \in [st : {"none", "sent", "answered"}, run : RunRecord]
  /\ resumeReq \in RequestRecord
  /\ choice \in Decisions /\ basis \in [rev : Nat, step : Nat]

(* What the operator had on the page when the dialogs opened. *)
OpenedBasis == [rev |-> opened.rev, step |-> opened.step]
OnOpened(b) == b = OpenedBasis /\ opened.rev > 0

(* A decision on the page is about the run that was on it. *)
DialogBasis ==
  /\ dialog = "decision" => OnOpened(basis)
  /\ choice # "none" => OnOpened(basis)

(* So is a decision under way; a plain request is about nothing. *)
RequestBasis ==
  resumeReq.st \in {"sent", "admitted"}
    => /\ resumeReq.code = "none"
       /\ resumeReq.choice = "none" => resumeReq.basis = NoBasis
       /\ resumeReq.choice # "none" => OnOpened(resumeReq.basis)

(* A plain request was admitted on a revision that asked for no decision. *)
PlainAdmission ==
  resumeReq.st = "admitted" /\ resumeReq.choice = "none"
    => /\ resumeReq.observed <= runNow.rev
       /\ resumeReq.observed = runNow.rev => runNow.cause # "unknownAction"

DecisionInv == Records /\ DialogBasis /\ RequestBasis /\ PlainAdmission

-----------------------------------------------------------------------------

(* The initial states satisfy the invariant. *)
LEMMA DecisionInitInv == DecisionInit => DecisionInv
<1> SUFFICES ASSUME DecisionInit PROVE DecisionInv
  OBVIOUS
<1> USE DEF DecisionInit
<1>1. NoRun \in RunRecord /\ NoResume \in RequestRecord /\ NoBasis \in [rev : Nat, step : Nat]
  BY DEF NoRun, NoResume, NoBasis, RunRecord, RequestRecord, Causes, Decisions
<1>2. runNow \in RunRecord
  BY DEF RunRecord, Causes
<1>3. runFetch \in [st : {"none", "sent", "answered"}, run : RunRecord]
  BY <1>1 DEF NoFetch
<1>4. Records
  BY <1>1, <1>2, <1>3 DEF Records, Decisions
<1>5. resumeReq.st = "none"
  BY DEF NoResume
<1> QED BY <1>4, <1>5 DEF DecisionInv, DialogBasis, RequestBasis, PlainAdmission

(* Whatever happens to the run, its revision tells: it grows, or nothing that *)
(* the decision depends on changes.                                          *)
LEMMA RunMoves ==
  ASSUME DecisionInv, runNow' \in RunRecord, UNCHANGED <<pageState, dialogState, answerState>>,
         \/ runNow'.rev > runNow.rev
         \/ runNow'.rev = runNow.rev /\ runNow'.cause = runNow.cause
  PROVE  DecisionInv'
<1>1. runNow \in RunRecord /\ runNow.rev \in Nat /\ runNow'.rev \in Nat /\ resumeReq.observed \in Nat
  BY DEF DecisionInv, Records, RunRecord, RequestRecord
<1>2. UNCHANGED <<runShown, runFetch, dialog, choice, basis, opened, resumeReq>>
  BY DEF pageState, dialogState, answerState
<1>3. Records'
  BY <1>2 DEF DecisionInv, Records
<1>4. DialogBasis' /\ RequestBasis'
  BY <1>2 DEF DecisionInv, DialogBasis, RequestBasis, OnOpened, OpenedBasis
<1>5. PlainAdmission'
  BY <1>1, <1>2 DEF DecisionInv, PlainAdmission
<1> QED BY <1>3, <1>4, <1>5 DEF DecisionInv

(* The updates of a run keep its fields. *)
LEMMA RunUpdates ==
  ASSUME NEW r \in RunRecord, NEW rev \in Nat, NEW k \in Nat, NEW c \in Causes,
         NEW st \in {"running", "failed", "ended"}
  PROVE  /\ [r EXCEPT !.rev = rev, !.step = k] \in RunRecord
         /\ [r EXCEPT !.rev = rev, !.state = st, !.cause = c] \in RunRecord
         /\ [r EXCEPT !.rev = rev, !.state = st, !.cause = c, !.step = k] \in RunRecord
  BY DEF RunRecord

(* A resumed run, as a record of its type with the next revision. *)
LEMMA ResumedRunType ==
  ASSUME runNow \in RunRecord, NEW d \in Decisions
  PROVE  ResumedRun(d) \in RunRecord /\ ResumedRun(d).rev = runNow.rev + 1
<1> DEFINE k == IF d = "mark_done" /\ runNow.cause = "unknownAction" THEN runNow.step + 1
                                                                    ELSE runNow.step
<1>1. runNow.rev + 1 \in Nat /\ k \in Nat /\ "none" \in Causes
  BY DEF RunRecord, Causes
<1>2. ResumedRun(d) = [runNow EXCEPT !.rev = runNow.rev + 1, !.state = "running",
                                     !.cause = "none", !.step = k]
  BY Zenon DEF ResumedRun, RunRecord
<1> HIDE DEF k
<1>3. ResumedRun(d) \in RunRecord
  <2>1. [runNow EXCEPT !.rev = runNow.rev + 1, !.state = "running", !.cause = "none", !.step = k]
          \in RunRecord
    BY <1>1, RunUpdates
  <2> QED BY <1>2, <2>1
<1>4. ResumedRun(d).rev = runNow.rev + 1
  BY <1>2 DEF RunRecord
<1> QED BY <1>3, <1>4

(* The steps of the run, and what others do to it. *)
LEMMA RunStepInv ==
  ASSUME DecisionInv,
         \/ StepSucceeds \/ RunEnds \/ RunbookDeleted
         \/ \E c \in Causes \ {"none"} : StepFails(c)
         \/ \E d \in Decisions : OtherResumes(d)
  PROVE  DecisionInv'
<1>1. runNow \in RunRecord
  BY DEF DecisionInv, Records
<1>2. runNow.rev \in Nat /\ runNow.rev + 1 \in Nat /\ runNow.step + 1 \in Nat /\ "none" \in Causes
  BY <1>1 DEF RunRecord, Causes
<1>3. CASE StepSucceeds
  <2>1. runNow' \in RunRecord
    <3>1. runNow' = [runNow EXCEPT !.rev = runNow.rev + 1, !.step = runNow.step + 1]
      BY <1>1, <1>3, Zenon DEF StepSucceeds, RunRecord
    <3> QED BY <1>1, <1>2, <3>1, RunUpdates
  <2>2. runNow'.rev > runNow.rev
    BY <1>1, <1>3 DEF StepSucceeds, RunRecord
  <2> QED BY <1>3, <2>1, <2>2, RunMoves DEF StepSucceeds, NewRev
<1>4. CASE RunEnds
  <2>1. runNow' \in RunRecord
    <3>1. runNow' = [runNow EXCEPT !.rev = runNow.rev + 1, !.state = "ended", !.cause = "none"]
      BY <1>1, <1>4, Zenon DEF RunEnds, RunRecord
    <3> QED BY <1>1, <1>2, <3>1, RunUpdates
  <2>2. runNow'.rev > runNow.rev
    BY <1>1, <1>4 DEF RunEnds, RunRecord
  <2> QED BY <1>4, <2>1, <2>2, RunMoves DEF RunEnds, NewRev
<1>5. CASE RunbookDeleted
  <2>1. runNow' \in RunRecord /\ runNow'.rev = runNow.rev /\ runNow'.cause = runNow.cause
    BY <1>1, <1>5 DEF RunbookDeleted, RunRecord
  <2> QED BY <1>5, <2>1, RunMoves DEF RunbookDeleted
<1>6. ASSUME NEW c \in Causes \ {"none"}, StepFails(c) PROVE DecisionInv'
  <2>1. runNow' \in RunRecord
    <3>1. runNow' = [runNow EXCEPT !.rev = runNow.rev + 1, !.state = "failed", !.cause = c]
      BY <1>1, <1>6, Zenon DEF StepFails, RunRecord
    <3> QED BY <1>1, <1>2, <3>1, RunUpdates
  <2>2. runNow'.rev > runNow.rev
    <3>1. runNow'.rev = runNow.rev + 1
      BY <1>1, <1>6, Zenon DEF StepFails, RunRecord
    <3> QED BY <1>2, <3>1
  <2> QED BY <1>6, <2>1, <2>2, RunMoves DEF StepFails, NewRev
<1>7. ASSUME NEW d \in Decisions, OtherResumes(d) PROVE DecisionInv'
  <2>1. runNow' \in RunRecord /\ runNow'.rev > runNow.rev
    BY <1>1, <1>2, <1>7, ResumedRunType DEF OtherResumes
  <2> QED BY <1>7, <2>1, RunMoves DEF OtherResumes, NewRev
<1> QED BY <1>3, <1>4, <1>5, <1>6, <1>7

(* Reading the run changes only what the page shows. *)
LEMMA PageInv ==
  ASSUME DecisionInv, FetchRun \/ RunServed \/ RunArrives
  PROVE  DecisionInv'
<1>1. UNCHANGED <<runNow, dialog, choice, basis, opened, resumeReq>>
  BY DEF FetchRun, RunServed, RunArrives, dialogState, answerState
<1>2. /\ runFetch' \in [st : {"none", "sent", "answered"}, run : RunRecord]
      /\ runShown' \in RunRecord
  <2>1. NoRun \in RunRecord
    BY DEF NoRun, RunRecord, Causes
  <2>2. NoFetch \in [st : {"none", "sent", "answered"}, run : RunRecord]
    BY <2>1 DEF NoFetch
  <2> QED BY <2>2 DEF FetchRun, RunServed, RunArrives, DecisionInv, Records
<1>3. Records'
  BY <1>1, <1>2 DEF DecisionInv, Records
<1> QED BY <1>1, <1>3 DEF DecisionInv, DialogBasis, RequestBasis, OnOpened, OpenedBasis,
                          PlainAdmission

(* The dialogs: nothing is under way when they open, and a choice is about   *)
(* what was on the page then.                                                *)
LEMMA DialogInv ==
  ASSUME DecisionInv,
         \/ OpenResume \/ ContinueResume \/ CloseDialog
         \/ \E d \in Decisions \ {"none"} : ChooseDecision(d)
  PROVE  DecisionInv'
<1>1. UNCHANGED <<runNow, runShown, runFetch, resumeReq>>
  BY DEF OpenResume, ContinueResume, CloseDialog, ChooseDecision, pageState, answerState
<1>2. CASE OpenResume
  <2>1. runShown \in RunRecord /\ runShown.rev > 0 /\ resumeReq.st = "none"
    BY <1>2 DEF DecisionInv, Records, OpenResume, mayResume
  <2>2. basis' \in [rev : Nat, step : Nat]
    BY <1>2, <2>1 DEF OpenResume, RunRecord, NoBasis
  <2>3. Records'
    BY <1>1, <1>2, <2>1, <2>2 DEF OpenResume, DecisionInv, Records, Decisions
  <2>4. DialogBasis'
    BY <1>2, <2>1 DEF OpenResume, DialogBasis, OnOpened, OpenedBasis
  <2>5. RequestBasis' /\ PlainAdmission'
    BY <1>1, <2>1 DEF RequestBasis, PlainAdmission
  <2> QED BY <2>3, <2>4, <2>5 DEF DecisionInv
<1>3. CASE \/ ContinueResume \/ CloseDialog
           \/ \E d \in Decisions \ {"none"} : ChooseDecision(d)
  <2>1. UNCHANGED <<basis, opened>> /\ choice' \in Decisions
    BY <1>3 DEF ContinueResume, CloseDialog, ChooseDecision, DecisionInv, Records
  <2>2. Records'
    BY <1>1, <2>1 DEF DecisionInv, Records
  <2>3. DialogBasis'
    BY <1>3, <2>1 DEF ContinueResume, CloseDialog, ChooseDecision, DecisionInv, DialogBasis,
                      OnOpened, OpenedBasis
  <2>4. RequestBasis' /\ PlainAdmission'
    BY <1>1, <2>1 DEF DecisionInv, RequestBasis, PlainAdmission, OnOpened, OpenedBasis
  <2> QED BY <2>2, <2>3, <2>4 DEF DecisionInv
<1> QED BY <1>2, <1>3

(* The request takes the basis of the dialogs along. *)
LEMMA ConfirmInv ==
  ASSUME DecisionInv, ConfirmResume
  PROVE  DecisionInv'
<1> DEFINE b == IF choice = "none" THEN NoBasis ELSE basis
           r == [NoResume EXCEPT !.st = "sent", !.choice = choice, !.basis = b]
<1>1. /\ UNCHANGED <<runNow, runShown, runFetch, dialog, choice, basis, opened>>
      /\ resumeReq' = r
  BY DEF ConfirmResume, pageState, dialogState
<1>2. NoResume \in RequestRecord
  BY DEF NoResume, NoBasis, RequestRecord, Decisions
<1>3. choice \in Decisions /\ b \in [rev : Nat, step : Nat]
  BY DEF DecisionInv, Records, NoBasis
<1> HIDE DEF b
<1>4. /\ r \in RequestRecord /\ r.st = "sent" /\ r.choice = choice /\ r.basis = b
      /\ r.code = NoResume.code
  BY <1>2, <1>3 DEF RequestRecord
<1>5. Records'
  BY <1>1, <1>4 DEF DecisionInv, Records
<1>6. DialogBasis'
  BY <1>1 DEF DecisionInv, DialogBasis, OnOpened, OpenedBasis
<1>7. RequestBasis'
  <2>1. NoResume.code = "none"
    BY DEF NoResume
  <2>2. /\ choice = "none" => b = NoBasis
        /\ choice # "none" => b = basis
    BY DEF b
  <2> HIDE DEF r
  <2> QED BY <1>1, <1>4, <2>1, <2>2 DEF DecisionInv, RequestBasis, DialogBasis, OnOpened, OpenedBasis
<1>8. PlainAdmission'
  BY <1>1, <1>4 DEF PlainAdmission
<1> QED BY <1>5, <1>6, <1>7, <1>8 DEF DecisionInv

(* The server admits a plain request only if no decision is due. *)
LEMMA ReadInv ==
  ASSUME DecisionInv, ResumeRead
  PROVE  DecisionInv'
<1>1. /\ UNCHANGED <<runNow, runShown, runFetch, dialog, choice, basis, opened>>
      /\ resumeReq \in RequestRecord /\ resumeReq.st = "sent" /\ runNow.rev \in Nat
  BY DEF ResumeRead, pageState, dialogState, DecisionInv, Records, RunRecord
<1>2. \/ \E code \in {"changed", "conflict", "gone", "undecided"} :
           resumeReq' = [resumeReq EXCEPT !.st = "answered", !.code = code]
      \/ /\ resumeReq' = [resumeReq EXCEPT !.st = "admitted", !.observed = runNow.rev]
         /\ ~(runNow.cause = "unknownAction" /\ resumeReq.choice = "none")
  BY DEF ResumeRead, changedOrConflict
<1>3. CASE \E code \in {"changed", "conflict", "gone", "undecided"} :
             resumeReq' = [resumeReq EXCEPT !.st = "answered", !.code = code]
  <2>1. resumeReq' \in RequestRecord /\ resumeReq'.st = "answered"
    BY <1>1, <1>3 DEF RequestRecord
  <2> QED BY <1>1, <2>1 DEF DecisionInv, Records, DialogBasis, RequestBasis, PlainAdmission,
                            OnOpened, OpenedBasis
<1>4. CASE /\ resumeReq' = [resumeReq EXCEPT !.st = "admitted", !.observed = runNow.rev]
           /\ ~(runNow.cause = "unknownAction" /\ resumeReq.choice = "none")
  <2>1. /\ resumeReq' \in RequestRecord /\ resumeReq'.st = "admitted"
        /\ resumeReq'.choice = resumeReq.choice /\ resumeReq'.basis = resumeReq.basis
        /\ resumeReq'.observed = runNow.rev /\ resumeReq'.code = resumeReq.code
    BY <1>1, <1>4 DEF RequestRecord
  <2>2. Records' /\ DialogBasis'
    BY <1>1, <2>1 DEF DecisionInv, Records, DialogBasis, OnOpened, OpenedBasis
  <2>3. RequestBasis'
    BY <1>1, <2>1 DEF DecisionInv, RequestBasis, OnOpened, OpenedBasis
  <2>4. PlainAdmission'
    BY <1>1, <1>4, <2>1 DEF PlainAdmission
  <2> QED BY <2>2, <2>3, <2>4 DEF DecisionInv
<1> QED BY <1>2, <1>3, <1>4

(* The transaction answers the request. *)
LEMMA CommitInv ==
  ASSUME DecisionInv, ResumeCommit
  PROVE  DecisionInv'
<1>1. /\ UNCHANGED <<runShown, runFetch, dialog, choice, basis, opened>>
      /\ resumeReq \in RequestRecord /\ runNow \in RunRecord
      /\ \E code \in {"ok", "changed", "conflict"} :
           resumeReq' = [resumeReq EXCEPT !.st = "answered", !.code = code]
      /\ runNow' = runNow \/ runNow' = ResumedRun(resumeReq.choice)
  BY DEF ResumeCommit, pageState, dialogState, DecisionInv, Records, changedOrConflict
<1>2. resumeReq' \in RequestRecord /\ resumeReq'.st = "answered"
  BY <1>1 DEF RequestRecord
<1>3. runNow' \in RunRecord
  <2>1. resumeReq.choice \in Decisions
    BY <1>1 DEF RequestRecord
  <2> QED BY <1>1, <2>1, ResumedRunType
<1> QED BY <1>1, <1>2, <1>3 DEF DecisionInv, Records, DialogBasis, RequestBasis, PlainAdmission,
                                OnOpened, OpenedBasis

(* An answer, or its loss, ends the request. *)
LEMMA AnswerInv ==
  ASSUME DecisionInv, ResumeAnswered \/ ResumeLost
  PROVE  DecisionInv'
<1>1. NoResume \in RequestRecord /\ NoResume.st = "none"
  BY DEF NoResume, NoBasis, RequestRecord, Decisions
<1>2. NoFetch \in [st : {"none", "sent", "answered"}, run : RunRecord]
  BY DEF NoFetch, NoRun, RunRecord, Causes
<1>3. /\ UNCHANGED <<runNow, runShown, opened>>
      /\ resumeReq' = NoResume /\ dialog' = "none"
      /\ \/ UNCHANGED <<choice, basis>>
         \/ choice' = "none" /\ basis' = NoBasis
      /\ runFetch' \in {runFetch, [NoFetch EXCEPT !.st = "sent"]}
  BY DEF ResumeAnswered, ResumeLost, pageState
<1>4. [NoFetch EXCEPT !.st = "sent"] \in [st : {"none", "sent", "answered"}, run : RunRecord]
  BY <1>2
<1>5. Records'
  BY <1>1, <1>3, <1>4 DEF DecisionInv, Records, NoBasis, Decisions
<1>6. DialogBasis'
  BY <1>3 DEF DecisionInv, DialogBasis, OnOpened, OpenedBasis
<1>7. RequestBasis' /\ PlainAdmission'
  BY <1>1, <1>3 DEF RequestBasis, PlainAdmission
<1> QED BY <1>5, <1>6, <1>7 DEF DecisionInv

(* Every step preserves the invariant. *)
LEMMA DecisionStepInv == DecisionInv /\ [DecisionNext]_decisionVars => DecisionInv'
<1> SUFFICES ASSUME DecisionInv, [DecisionNext]_decisionVars PROVE DecisionInv'
  OBVIOUS
<1>1. CASE UNCHANGED decisionVars
  BY <1>1 DEF decisionVars, DecisionInv, Records, DialogBasis, RequestBasis, PlainAdmission,
              OnOpened, OpenedBasis
<1>2. CASE DecisionNext
  BY <1>2, RunStepInv, PageInv, DialogInv, ConfirmInv, ReadInv, CommitInv, AnswerInv
     DEF DecisionNext
<1> QED BY <1>1, <1>2

(* The chain from the page to the transaction, in every reachable state.     *)
THEOREM DecisionInvariant == DecisionSpec => []DecisionInv
<1> QED BY DecisionInitInv, DecisionStepInv, PTL DEF DecisionSpec

-----------------------------------------------------------------------------

(* The transaction of a step whose outcome is unknown, decided or refused. *)
LEMMA InformedCommit ==
  ASSUME DecisionInv, ResumeCommit, resumeReq'.code = "ok", runNow.cause = "unknownAction"
  PROVE  resumeReq.choice # "none" /\ opened.rev = runNow.rev /\ opened.step = runNow.step
<1>1. resumeReq \in RequestRecord /\ resumeReq.st = "admitted"
  BY DEF DecisionInv, Records, ResumeCommit
<1>2. asExpected /\ (expected \/ runNow.rev = resumeReq.observed)
  <2>1. ASSUME ~(runNow.state = "failed" /\ asExpected
                   /\ (expected \/ runNow.rev = resumeReq.observed))
        PROVE  FALSE
    <3>1. resumeReq' = [resumeReq EXCEPT !.st = "answered", !.code = changedOrConflict]
      BY <2>1 DEF ResumeCommit
    <3>2. changedOrConflict \in {"changed", "conflict"}
      BY DEF changedOrConflict
    <3>3. resumeReq'.code = changedOrConflict
      BY <1>1, <3>1 DEF RequestRecord
    <3> QED BY <3>2, <3>3
  <2> QED BY <2>1
<1>3. resumeReq.choice # "none"
  BY <1>1, <1>2 DEF DecisionInv, RequestBasis, PlainAdmission, expected
<1>4. resumeReq.basis = [rev |-> opened.rev, step |-> opened.step] /\ opened.rev > 0
  BY <1>1, <1>3 DEF DecisionInv, RequestBasis, OnOpened, OpenedBasis
<1>5. expected
  BY <1>4 DEF expected, NoBasis
<1>6. [rev |-> opened.rev, step |-> opened.step] = [rev |-> runNow.rev, step |-> runNow.step]
  BY <1>2, <1>4, <1>5 DEF asExpected
<1> QED BY <1>3, <1>6

(* A step of unknown outcome is passed only by a decision about its very     *)
(* revision on the page (RunDetail.tsx:53-56, runbook_run_resume.go:8-87).   *)
THEOREM DecisionInformed == DecisionSpec => ResumeIsInformed
<1> DEFINE Informed == resumeReq.st = "admitted" /\ resumeReq'.code = "ok"
                         /\ runNow.cause = "unknownAction"
                       => /\ resumeReq.choice # "none"
                          /\ opened.rev = runNow.rev /\ opened.step = runNow.step
<1>1. DecisionInv /\ [DecisionNext]_decisionVars => [Informed]_decisionVars
  <2>1. ASSUME DecisionInv, DecisionNext, resumeReq.st = "admitted", resumeReq'.code = "ok"
        PROVE  ResumeCommit
    <3>1. resumeReq.code = "none"
      BY <2>1 DEF DecisionInv, RequestBasis
    <3>2. CASE resumeReq' = resumeReq
      BY <2>1, <3>1, <3>2
    <3>3. CASE ConfirmResume \/ ResumeRead \/ ResumeAnswered
      BY <2>1, <3>3 DEF ConfirmResume, ResumeRead, ResumeAnswered
    <3>4. CASE ResumeLost
      BY <2>1, <3>4 DEF ResumeLost, NoResume
    <3> QED BY <2>1, <3>2, <3>3, <3>4 DEF DecisionNext, StepSucceeds, RunEnds, RunbookDeleted,
            StepFails, OtherResumes, NewRev, FetchRun, RunServed, RunArrives, OpenResume,
            ContinueResume, CloseDialog, ChooseDecision, answerState
  <2>2. ASSUME DecisionInv, DecisionNext PROVE Informed
    BY <2>1, <2>2, InformedCommit
  <2> QED BY <2>2
<1> QED BY <1>1, DecisionInvariant, PTL DEF DecisionSpec, ResumeIsInformed

-----------------------------------------------------------------------------
(* The types, within the bounds: a run that waits for a decision has the step *)
(* that it is about still before it, so marking it done leaves a step number  *)
(* that the run has.                                                          *)

Fetches == [st : {"none", "sent", "answered"}, run : Runs]
Bases == [rev : 0..MaxRev, step : 1..(StepCount + 1)]
ResumeRequests == [st : {"none", "sent", "admitted", "answered"}, choice : Decisions, basis : Bases,
              observed : 0..MaxRev,
              code : {"none", "ok", "changed", "gone", "undecided", "conflict"}]

StepAhead == runNow.cause # "none" => runNow.state = "failed" /\ runNow.step <= StepCount
DecisionTypes == DecisionTypeOK /\ StepAhead

LEMMA RestingTypes == NoRun \in Runs /\ NoFetch \in Fetches /\ NoBasis \in Bases /\ NoResume \in ResumeRequests
<1>1. 0 \in 0..MaxRev /\ 1 \in 1..(StepCount + 1)
  BY DecisionAssumption
<1>2. NoRun \in Runs
  BY <1>1 DEF NoRun, Runs, Causes
<1>3. NoBasis \in Bases
  BY <1>1 DEF NoBasis, Bases
<1>4. NoFetch \in Fetches
  BY <1>2 DEF NoFetch, Fetches
<1>5. NoResume \in ResumeRequests
  BY <1>1, <1>3 DEF NoResume, ResumeRequests, Decisions
<1> QED BY <1>2, <1>3, <1>4, <1>5

LEMMA DecisionInitTypes == DecisionInit => DecisionTypes
<1> SUFFICES ASSUME DecisionInit PROVE DecisionTypes
  OBVIOUS
<1>1. PICK c \in Causes \ {"none"} :
        runNow = [rev |-> 1, state |-> "failed", step |-> 1, cause |-> c, book |-> TRUE]
  BY DEF DecisionInit
<1>2. 1 \in 0..MaxRev /\ 1 \in 1..(StepCount + 1) /\ 1 <= StepCount
  BY DecisionAssumption
<1>3. runNow \in Runs /\ StepAhead
  BY <1>1, <1>2 DEF Runs, StepAhead
<1>4. runFetch \in Fetches
  BY RestingTypes DEF DecisionInit, Fetches
<1>5. runShown \in Runs /\ opened \in Runs /\ basis \in Bases /\ resumeReq \in ResumeRequests
  BY RestingTypes DEF DecisionInit
<1>6. /\ dialog = "none" /\ choice = "none" /\ knowsGone = FALSE
  BY <1>2 DEF DecisionInit
<1>7. DecisionTypeOK
  BY <1>3, <1>4, <1>5, <1>6 DEF DecisionTypeOK, Fetches, Bases, ResumeRequests, Decisions
<1> QED BY <1>3, <1>7 DEF DecisionTypes

(* Every step of the run gives it a revision and a step that it may have. *)
LEMMA RunTypes ==
  ASSUME DecisionTypes, runNow.rev < MaxRev,
         \/ StepSucceeds \/ RunEnds
         \/ \E c \in Causes \ {"none"} : StepFails(c)
         \/ \E d \in Decisions : runNow' = ResumedRun(d)
  PROVE  runNow' \in Runs /\ StepAhead'
<1>1. runNow \in Runs /\ StepAhead
  BY DEF DecisionTypes, DecisionTypeOK
<1> DEFINE rev == runNow.rev + 1
<1>2. /\ rev \in 0..MaxRev /\ "none" \in Causes
      /\ runNow.step \in 1..(StepCount + 1) /\ StepCount \in Nat
      /\ runNow.step <= StepCount => runNow.step + 1 \in 1..(StepCount + 1)
  BY <1>1, DecisionAssumption DEF Runs, Causes
<1> HIDE DEF rev
<1>3. CASE StepSucceeds
  <2>1. runNow' = [runNow EXCEPT !.rev = rev, !.step = runNow.step + 1] /\ runNow.step <= StepCount
        /\ runNow.state = "running"
    BY <1>1, <1>3, Zenon DEF StepSucceeds, rev
  <2>2. runNow.cause = "none"
    BY <1>1, <2>1 DEF StepAhead
  <2> QED BY <1>1, <1>2, <2>1, <2>2 DEF Runs, StepAhead
<1>4. CASE RunEnds
  <2>1. runNow' = [runNow EXCEPT !.rev = rev, !.state = "ended", !.cause = "none"]
    BY <1>1, <1>4, Zenon DEF RunEnds, rev
  <2> QED BY <1>1, <1>2, <2>1 DEF Runs, StepAhead
<1>5. ASSUME NEW c \in Causes \ {"none"}, StepFails(c)
      PROVE  runNow' \in Runs /\ StepAhead'
  <2>1. runNow' = [runNow EXCEPT !.rev = rev, !.state = "failed", !.cause = c]
        /\ runNow.step <= StepCount
    BY <1>1, <1>5, Zenon DEF StepFails, rev
  <2> QED BY <1>1, <1>2, <2>1 DEF Runs, StepAhead
<1>6. ASSUME NEW d \in Decisions, runNow' = ResumedRun(d)
      PROVE  runNow' \in Runs /\ StepAhead'
  <2> DEFINE k == IF d = "mark_done" /\ runNow.cause = "unknownAction" THEN runNow.step + 1
                                                                      ELSE runNow.step
  <2>1. runNow' = [runNow EXCEPT !.rev = rev, !.state = "running", !.cause = "none", !.step = k]
    BY <1>6, Zenon DEF ResumedRun, rev
  <2>2. k \in 1..(StepCount + 1)
    BY <1>1, <1>2 DEF StepAhead
  <2> HIDE DEF k
  <2> QED BY <1>1, <1>2, <2>1, <2>2 DEF Runs, StepAhead
<1> QED BY <1>3, <1>4, <1>5, <1>6

(* A step that changes the run alone, or leaves it alone. *)
LEMMA OnlyRunTypes ==
  ASSUME DecisionTypes, runNow' \in Runs, StepAhead',
         UNCHANGED <<pageState, dialogState, answerState>>
  PROVE  DecisionTypes'
  BY DEF DecisionTypes, DecisionTypeOK, pageState, dialogState, answerState

LEMMA KeepsStep ==
  ASSUME DecisionTypes, UNCHANGED runNow
  PROVE  runNow' \in Runs /\ StepAhead'
  BY DEF DecisionTypes, DecisionTypeOK, StepAhead

(* What the operator's page and request add to the run's own types. *)
LEMMA PageTypes ==
  ASSUME DecisionTypes,
         \/ FetchRun \/ RunServed \/ RunArrives
         \/ OpenResume \/ ContinueResume \/ CloseDialog \/ ConfirmResume
         \/ \E d \in Decisions \ {"none"} : ChooseDecision(d)
  PROVE  DecisionTypes'
<1> USE DEF pageState, dialogState, answerState
<1>1. UNCHANGED runNow /\ UNCHANGED knowsGone
  BY DEF FetchRun, RunServed, RunArrives, OpenResume, ContinueResume, CloseDialog, ConfirmResume,
         ChooseDecision
<1>2. /\ runNow \in Runs /\ runShown \in Runs /\ opened \in Runs /\ runFetch \in Fetches
      /\ choice \in Decisions /\ basis \in Bases /\ resumeReq \in ResumeRequests
      /\ dialog \in {"none", "decision", "warning", "elevation"}
  BY DEF DecisionTypes, DecisionTypeOK, Fetches, Bases, ResumeRequests
<1>3. /\ runShown' \in Runs /\ opened' \in Runs /\ runFetch' \in Fetches
      /\ dialog' \in {"none", "decision", "warning", "elevation"}
      /\ choice' \in Decisions /\ basis' \in Bases /\ resumeReq' \in ResumeRequests
  <2>1. CASE FetchRun
    <3>1. runFetch' = [NoFetch EXCEPT !.st = "sent"]
      BY <2>1 DEF FetchRun
    <3>2. runFetch' \in Fetches
      BY <3>1, RestingTypes DEF Fetches
    <3> QED BY <1>2, <2>1, <3>2 DEF FetchRun
  <2>2. CASE RunServed
    <3>1. runFetch' = [st |-> "answered", run |-> runNow]
      BY <2>2 DEF RunServed
    <3>2. runFetch' \in Fetches
      BY <1>2, <3>1 DEF Fetches
    <3> QED BY <1>2, <2>2, <3>2 DEF RunServed
  <2>3. CASE RunArrives
    <3>1. runFetch' \in Fetches /\ runShown' \in Runs
      BY <1>2, <2>3, RestingTypes DEF RunArrives, Fetches
    <3> QED BY <1>2, <2>3, <3>1 DEF RunArrives
  <2>4. CASE OpenResume
    <3>1. /\ choice' = "none" /\ opened' = runShown
          /\ basis' = IF decisionRequired
                      THEN [rev |-> runShown.rev, step |-> runShown.step] ELSE NoBasis
          /\ UNCHANGED <<runShown, runFetch, resumeReq>>
      BY <2>4 DEF OpenResume
    <3>2. basis' \in Bases
      BY <1>2, <3>1, RestingTypes DEF Bases, Runs
    <3>3. dialog' \in {"none", "decision", "warning", "elevation"}
      BY <2>4 DEF OpenResume
    <3> QED BY <1>2, <3>1, <3>2, <3>3 DEF Decisions
  <2>5. CASE ContinueResume \/ CloseDialog
    BY <1>2, <2>5 DEF ContinueResume, CloseDialog
  <2>6. CASE ConfirmResume
    <3>1. PICK b : b = IF choice = "none" THEN NoBasis ELSE basis
      OBVIOUS
    <3>2. b \in Bases
      BY <1>2, <3>1, RestingTypes
    <3>3. resumeReq' = [NoResume EXCEPT !.st = "sent", !.choice = choice, !.basis = b]
      BY <2>6, <3>1 DEF ConfirmResume
    <3>4. resumeReq' \in ResumeRequests
      BY <1>2, <3>2, <3>3, RestingTypes DEF ResumeRequests
    <3> QED BY <1>2, <2>6, <3>4 DEF ConfirmResume
  <2>7. ASSUME NEW d \in Decisions \ {"none"}, ChooseDecision(d)
        PROVE  /\ runShown' \in Runs /\ opened' \in Runs /\ runFetch' \in Fetches
               /\ dialog' \in {"none", "decision", "warning", "elevation"}
               /\ choice' \in Decisions /\ basis' \in Bases /\ resumeReq' \in ResumeRequests
    BY <1>2, <2>7 DEF ChooseDecision
  <2> QED BY <2>1, <2>2, <2>3, <2>4, <2>5, <2>6, <2>7
<1>4. runNow' \in Runs /\ StepAhead'
  BY <1>1, KeepsStep
<1>5. knowsGone' \in BOOLEAN
  BY <1>1 DEF DecisionTypes, DecisionTypeOK
<1> QED BY <1>3, <1>4, <1>5 DEF DecisionTypes, DecisionTypeOK, Fetches, Bases, ResumeRequests

(* The server's two steps of a request, and its answer. *)
LEMMA RequestTypes ==
  ASSUME DecisionTypes, ResumeRead \/ ResumeCommit \/ ResumeAnswered \/ ResumeLost
  PROVE  DecisionTypes'
<1> USE DEF pageState, dialogState
<1>1. /\ runNow \in Runs /\ runShown \in Runs /\ opened \in Runs /\ runFetch \in Fetches
      /\ choice \in Decisions /\ basis \in Bases /\ resumeReq \in ResumeRequests
      /\ dialog \in {"none", "decision", "warning", "elevation"}
      /\ knowsGone \in BOOLEAN
  BY DEF DecisionTypes, DecisionTypeOK, Fetches, Bases, ResumeRequests
<1>2. \A code \in {"none", "ok", "changed", "gone", "undecided", "conflict"} :
        [resumeReq EXCEPT !.st = "answered", !.code = code] \in ResumeRequests
  BY <1>1 DEF ResumeRequests
<1>3. changedOrConflict \in {"changed", "conflict"}
  BY DEF changedOrConflict
<1>4. CASE ResumeRead
  <2>1. \/ \E code \in {"gone", "changed", "undecided", "conflict"} :
             resumeReq' = [resumeReq EXCEPT !.st = "answered", !.code = code]
        \/ resumeReq' = [resumeReq EXCEPT !.st = "admitted", !.observed = runNow.rev]
    BY <1>3, <1>4 DEF ResumeRead
  <2>2. [resumeReq EXCEPT !.st = "admitted", !.observed = runNow.rev] \in ResumeRequests
    BY <1>1 DEF ResumeRequests, Runs
  <2>3. resumeReq' \in ResumeRequests
    BY <1>2, <2>1, <2>2
  <2>4. UNCHANGED <<runNow, runShown, runFetch, dialog, choice, basis, opened, knowsGone>>
    BY <1>4 DEF ResumeRead
  <2>5. runNow' \in Runs /\ StepAhead'
    BY <2>4, KeepsStep
  <2> QED BY <1>1, <2>3, <2>4, <2>5 DEF DecisionTypes, DecisionTypeOK, Fetches, Bases, ResumeRequests
<1>5. CASE ResumeCommit
  <2>1. UNCHANGED <<runShown, runFetch, dialog, choice, basis, opened, knowsGone>>
    BY <1>5 DEF ResumeCommit
  <2>2. \E code \in {"ok", "changed", "conflict"} :
          resumeReq' = [resumeReq EXCEPT !.st = "answered", !.code = code]
    BY <1>3, <1>5 DEF ResumeCommit
  <2>3. resumeReq' \in ResumeRequests
    BY <1>2, <2>2
  <2>4. runNow' \in Runs /\ StepAhead'
    <3>1. CASE runNow' = runNow
      BY <3>1, KeepsStep
    <3>2. CASE runNow' = ResumedRun(resumeReq.choice) /\ runNow.rev < MaxRev
      <4>1. resumeReq.choice \in Decisions
        BY <1>1 DEF ResumeRequests
      <4> QED BY <3>2, <4>1, RunTypes
    <3> QED BY <1>5, <3>1, <3>2 DEF ResumeCommit
  <2> QED BY <1>1, <2>1, <2>3, <2>4 DEF DecisionTypes, DecisionTypeOK, Fetches, Bases, ResumeRequests
<1>6. CASE ResumeAnswered
  <2>1. /\ UNCHANGED <<runNow, runShown, opened>> /\ dialog' = "none"
        /\ resumeReq' = NoResume
        /\ choice' \in {"none", choice} /\ basis' \in {NoBasis, basis}
        /\ runFetch' \in {runFetch, [NoFetch EXCEPT !.st = "sent"]}
    BY <1>6 DEF ResumeAnswered
  <2>2. [NoFetch EXCEPT !.st = "sent"] \in Fetches
    BY RestingTypes DEF Fetches
  <2>3. runFetch' \in Fetches /\ choice' \in Decisions /\ basis' \in Bases /\ resumeReq' \in ResumeRequests
    BY <1>1, <2>1, <2>2, RestingTypes DEF Decisions
  <2>4. knowsGone' \in BOOLEAN
    BY <1>1, <1>6 DEF ResumeAnswered
  <2>5. runNow' \in Runs /\ StepAhead'
    BY <2>1, KeepsStep
  <2> QED BY <1>1, <2>1, <2>3, <2>4, <2>5
          DEF DecisionTypes, DecisionTypeOK, Fetches, Bases, ResumeRequests
<1>7. CASE ResumeLost
  <2>1. /\ UNCHANGED <<runNow, runShown, runFetch, choice, basis, opened, knowsGone>>
        /\ dialog' = "none" /\ resumeReq' = NoResume
    BY <1>7 DEF ResumeLost
  <2>2. resumeReq' \in ResumeRequests
    BY <2>1, RestingTypes
  <2>3. runNow' \in Runs /\ StepAhead'
    BY <2>1, KeepsStep
  <2> QED BY <1>1, <2>1, <2>2, <2>3
          DEF DecisionTypes, DecisionTypeOK, Fetches, Bases, ResumeRequests
<1> QED BY <1>4, <1>5, <1>6, <1>7

LEMMA DecisionStepTypes == DecisionTypes /\ [DecisionNext]_decisionVars => DecisionTypes'
<1> SUFFICES ASSUME DecisionTypes, [DecisionNext]_decisionVars PROVE DecisionTypes'
  OBVIOUS
<1>1. CASE UNCHANGED decisionVars
  BY <1>1 DEF decisionVars, DecisionTypes, DecisionTypeOK, StepAhead
<1>2. CASE StepSucceeds
  <2>1. runNow.rev < MaxRev /\ UNCHANGED <<pageState, dialogState, answerState>>
    BY <1>2 DEF StepSucceeds, NewRev
  <2> QED BY <1>2, <2>1, RunTypes, OnlyRunTypes
<1>3. CASE RunEnds
  <2>1. runNow.rev < MaxRev /\ UNCHANGED <<pageState, dialogState, answerState>>
    BY <1>3 DEF RunEnds, NewRev
  <2> QED BY <1>3, <2>1, RunTypes, OnlyRunTypes
<1>4. CASE RunbookDeleted
  <2>1. UNCHANGED <<pageState, dialogState, answerState>>
        /\ runNow' = [runNow EXCEPT !.book = FALSE]
    BY <1>4 DEF RunbookDeleted
  <2>2. runNow' \in Runs /\ StepAhead'
    BY <2>1 DEF DecisionTypes, DecisionTypeOK, StepAhead, Runs
  <2> QED BY <2>1, <2>2, OnlyRunTypes
<1>5. ASSUME NEW c \in Causes \ {"none"}, StepFails(c) PROVE DecisionTypes'
  <2>1. runNow.rev < MaxRev /\ UNCHANGED <<pageState, dialogState, answerState>>
    BY <1>5 DEF StepFails, NewRev
  <2> QED BY <1>5, <2>1, RunTypes, OnlyRunTypes
<1>6. ASSUME NEW d \in Decisions, OtherResumes(d) PROVE DecisionTypes'
  <2>1. /\ runNow.rev < MaxRev /\ UNCHANGED <<pageState, dialogState, answerState>>
        /\ runNow' = ResumedRun(d)
    BY <1>6 DEF OtherResumes, NewRev
  <2> QED BY <2>1, RunTypes, OnlyRunTypes
<1>7. CASE \/ FetchRun \/ RunServed \/ RunArrives
           \/ OpenResume \/ ContinueResume \/ CloseDialog \/ ConfirmResume
           \/ \E d \in Decisions \ {"none"} : ChooseDecision(d)
  BY <1>7, PageTypes
<1>8. CASE ResumeRead \/ ResumeCommit \/ ResumeAnswered \/ ResumeLost
  BY <1>8, RequestTypes
<1> QED BY <1>1, <1>2, <1>3, <1>4, <1>5, <1>6, <1>7, <1>8 DEF DecisionNext

(* The types of the run, the page, the dialogs and the request, for any bound. *)
THEOREM DecisionTypeCorrect == DecisionSpec => []DecisionTypeOK
<1>1. DecisionTypes => DecisionTypeOK
  BY DEF DecisionTypes
<1> QED BY <1>1, DecisionInitTypes, DecisionStepTypes, PTL DEF DecisionSpec

=============================================================================
