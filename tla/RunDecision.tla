------------------------------ MODULE RunDecision ------------------------------
(***************************************************************************)
(* Resuming a failed runbook run from its page.  A step whose outcome is   *)
(* unknown is only passed by a decision, to send it again or to mark it    *)
(* done, which an operator takes in a chain of dialogs while others resume *)
(* and cancel the run, its steps go on and fail again, and the page is     *)
(* read again behind the dialogs.  The request carries the step and the    *)
(* revision that the decision is about; the server reads the run, decides, *)
(* and compares both again in the transaction that resumes it.             *)
(***************************************************************************)
EXTENDS Naturals

CONSTANTS StepCount,     \* steps of the run
          MaxRev         \* bound: revisions of the run (its updatedAt)

ASSUME DecisionAssumption ==
  /\ StepCount \in Nat \ {0} /\ MaxRev \in Nat \ {0}

VARIABLES
  runNow,      \* server: the run
  runShown,    \* query cache: the run on the page, revision 0 before it is read
  runFetch,    \* the read of the run under way and what it answers
  dialog,      \* the dialog that is open
  choice,      \* the decision chosen in it
  basis,       \* step and revision that the decision is about
  resumeReq,   \* the request to resume and its answer
  knowsGone,   \* an answer said that the runbook was deleted
  opened       \* history: the run on the page when the operator began to resume

decisionVars == <<runNow, runShown, runFetch, dialog, choice, basis, resumeReq, knowsGone,
                  opened>>

(* Why a run failed: the state of its first unfinished step.  Only an unknown *)
(* connector action or config push asks for a decision.                       *)
Causes == {"none", "failed", "unknownAction", "unknownOther"}
Decisions == {"none", "resend", "mark_done"}
Runs == [rev : 0..MaxRev, state : {"running", "failed", "ended"}, step : 1..(StepCount + 1),
         cause : Causes, book : BOOLEAN]
NoRun == [rev |-> 0, state |-> "running", step |-> 1, cause |-> "none", book |-> FALSE]
NoFetch == [st |-> "none", run |-> NoRun]
NoBasis == [rev |-> 0, step |-> 1]
NoResume == [st |-> "none", choice |-> "none", basis |-> NoBasis, observed |-> 0, code |-> "none"]

(* The state has its types. *)
DecisionTypeOK ==
  /\ runNow \in Runs /\ runShown \in Runs /\ opened \in Runs
  /\ runFetch \in [st : {"none", "sent", "answered"}, run : Runs]
  /\ dialog \in {"none", "decision", "warning", "elevation"}
  /\ choice \in Decisions
  /\ basis \in [rev : 0..MaxRev, step : 1..(StepCount + 1)]
  /\ resumeReq \in [st : {"none", "sent", "admitted", "answered"}, choice : Decisions,
                    basis : [rev : 0..MaxRev, step : 1..(StepCount + 1)], observed : 0..MaxRev,
                    code : {"none", "ok", "changed", "gone", "undecided", "conflict"}]
  /\ knowsGone \in BOOLEAN

DecisionInit ==
  /\ \E c \in Causes \ {"none"} :
       runNow = [rev |-> 1, state |-> "failed", step |-> 1, cause |-> c, book |-> TRUE]
  /\ runShown = NoRun /\ runFetch = [NoFetch EXCEPT !.st = "sent"]
  /\ dialog = "none" /\ choice = "none" /\ basis = NoBasis
  /\ resumeReq = NoResume /\ knowsGone = FALSE /\ opened = NoRun

pageState == <<runShown, runFetch>>
dialogState == <<dialog, choice, basis, opened>>
answerState == <<resumeReq, knowsGone>>

-----------------------------------------------------------------------------
(* The run on the server. *)

NewRev == /\ runNow.rev < MaxRev
          /\ UNCHANGED <<pageState, dialogState, answerState>>

StepSucceeds ==
  /\ runNow.state = "running" /\ runNow.step <= StepCount
  /\ runNow' = [runNow EXCEPT !.rev = @ + 1, !.step = @ + 1]
  /\ NewRev

StepFails(c) ==
  /\ runNow.state = "running" /\ runNow.step <= StepCount
  /\ runNow' = [runNow EXCEPT !.rev = @ + 1, !.state = "failed", !.cause = c]
  /\ NewRev

(* The run as it is resumed past, or on, its first unfinished step. *)
ResumedRun(d) ==
  [runNow EXCEPT !.rev = @ + 1, !.state = "running", !.cause = "none",
                 !.step = IF d = "mark_done" /\ runNow.cause = "unknownAction" THEN @ + 1 ELSE @]

(* Another operator resumes the run, with a decision where one is due. *)
OtherResumes(d) ==
  /\ runNow.state = "failed" /\ runNow.book
  /\ (runNow.cause = "unknownAction") = (d # "none")
  /\ runNow' = ResumedRun(d)
  /\ NewRev

(* The run succeeds, or somebody cancels it. *)
RunEnds ==
  /\ runNow.state = "failed" \/ runNow.state = "running"
  /\ runNow' = [runNow EXCEPT !.rev = @ + 1, !.state = "ended", !.cause = "none"]
  /\ NewRev

(* The run survives its runbook, but cannot be resumed without it. *)
RunbookDeleted ==
  /\ runNow.book /\ runNow' = [runNow EXCEPT !.book = FALSE]
  /\ UNCHANGED <<pageState, dialogState, answerState>>

-----------------------------------------------------------------------------
(* The page reads the run: an event, a refetch, the end of a request. *)

FetchRun ==
  /\ runFetch.st = "none" /\ runFetch' = [NoFetch EXCEPT !.st = "sent"]
  /\ UNCHANGED <<runNow, runShown, dialogState, answerState>>

RunServed ==
  /\ runFetch.st = "sent" /\ runFetch' = [st |-> "answered", run |-> runNow]
  /\ UNCHANGED <<runNow, runShown, dialogState, answerState>>

RunArrives ==
  /\ runFetch.st = "answered" /\ runFetch' = NoFetch
  /\ runShown' = runFetch.run
  /\ UNCHANGED <<runNow, dialogState, answerState>>

-----------------------------------------------------------------------------
(* The operator. *)

decisionRequired == runShown.cause = "unknownAction"
mayResume == runShown.rev > 0 /\ runShown.book /\ ~knowsGone

(* Resume keeps what is on the page as the basis of a decision, if one is due. *)
OpenResume ==
  /\ runShown.state = "failed" /\ mayResume
  /\ dialog = "none" /\ resumeReq.st = "none"
  /\ choice' = "none"
  /\ basis' = IF decisionRequired
              THEN [rev |-> runShown.rev, step |-> runShown.step] ELSE NoBasis
  /\ dialog' = CASE decisionRequired -> "decision"
                 [] runShown.cause = "unknownOther" -> "warning"
                 [] OTHER -> "elevation"
  /\ opened' = runShown
  /\ UNCHANGED <<runNow, pageState, answerState>>

ChooseDecision(d) ==
  /\ dialog = "decision" /\ choice' = d
  /\ UNCHANGED <<runNow, pageState, dialog, basis, opened, answerState>>

ContinueResume ==
  /\ dialog = "warning" \/ (dialog = "decision" /\ choice # "none")
  /\ dialog' = "elevation"
  /\ UNCHANGED <<runNow, pageState, choice, basis, opened, answerState>>

CloseDialog ==
  /\ dialog # "none" /\ dialog' = "none"
  /\ UNCHANGED <<runNow, pageState, choice, basis, opened, answerState>>

ConfirmResume_RevisionShown ==
  /\ dialog = "elevation" /\ mayResume /\ resumeReq.st = "none"
  /\ resumeReq' = [NoResume EXCEPT !.st = "sent", !.choice = choice,
                     !.basis = IF choice = "none" THEN NoBasis
                               ELSE [rev |-> runShown.rev, step |-> runShown.step]]
  /\ UNCHANGED <<runNow, pageState, dialogState, knowsGone>>

(* The last dialog sends the request; a plain resume carries no basis. *)
ConfirmResume ==
  /\ dialog = "elevation" /\ mayResume /\ resumeReq.st = "none"
  /\ resumeReq' = [NoResume EXCEPT !.st = "sent", !.choice = choice,
                     !.basis = IF choice = "none" THEN NoBasis ELSE basis]
  /\ UNCHANGED <<runNow, pageState, dialogState, knowsGone>>

-----------------------------------------------------------------------------
(* The request on the server. *)

expected == resumeReq.basis # NoBasis
asExpected == ~expected \/ resumeReq.basis = [rev |-> runNow.rev, step |-> runNow.step]
changedOrConflict == IF expected THEN "changed" ELSE "conflict"

(* The server reads the run and refuses, or goes on with the revision it read. *)
ResumeRead ==
  /\ resumeReq.st = "sent"
  /\ LET refusal == CASE runNow.state # "failed" -> changedOrConflict
                      [] runNow.state = "failed" /\ ~runNow.book -> "gone"
                      [] runNow.state = "failed" /\ runNow.book /\ ~asExpected -> "changed"
                      [] runNow.state = "failed" /\ runNow.book /\ asExpected
                           /\ runNow.cause = "unknownAction"
                           /\ resumeReq.choice = "none" -> "undecided"
                      [] OTHER -> "none"
     IN resumeReq' = IF refusal # "none"
                     THEN [resumeReq EXCEPT !.st = "answered", !.code = refusal]
                     ELSE [resumeReq EXCEPT !.st = "admitted", !.observed = runNow.rev]
  /\ UNCHANGED <<runNow, pageState, dialogState, knowsGone>>

(* The transaction compares the revision, the expected one if there is one, *)
(* and the step, and resumes the run.                                       *)
ResumeCommit ==
  /\ resumeReq.st = "admitted"
  /\ IF runNow.state = "failed" /\ asExpected /\ (expected \/ runNow.rev = resumeReq.observed)
     THEN /\ runNow.rev < MaxRev
          /\ runNow' = ResumedRun(resumeReq.choice)
          /\ resumeReq' = [resumeReq EXCEPT !.st = "answered", !.code = "ok"]
     ELSE /\ resumeReq' = [resumeReq EXCEPT !.st = "answered", !.code = changedOrConflict]
          /\ UNCHANGED runNow
  /\ UNCHANGED <<pageState, dialogState, knowsGone>>

(* Every answer closes the dialogs.  The page is read again, except when    *)
(* the server asks for a decision that the page did not ask for.            *)
ResumeAnswered ==
  /\ resumeReq.st = "answered" /\ resumeReq' = NoResume
  /\ dialog' = "none"
  /\ IF resumeReq.code = "changed"
     THEN choice' = "none" /\ basis' = NoBasis
     ELSE UNCHANGED <<choice, basis>>
  /\ knowsGone' = (knowsGone \/ resumeReq.code = "gone")
  /\ runFetch' = IF resumeReq.code = "undecided" THEN runFetch ELSE [NoFetch EXCEPT !.st = "sent"]
  /\ UNCHANGED <<runNow, runShown, opened>>

(* The answer is lost, before or after the server acted; the page shows an error. *)
ResumeLost ==
  /\ resumeReq.st # "none" /\ resumeReq' = NoResume
  /\ dialog' = "none"
  /\ UNCHANGED <<runNow, pageState, choice, basis, opened, knowsGone>>

-----------------------------------------------------------------------------

DecisionNext ==
  \/ StepSucceeds \/ RunEnds \/ RunbookDeleted
  \/ \E c \in Causes \ {"none"} : StepFails(c)
  \/ \E d \in Decisions : OtherResumes(d)
  \/ FetchRun \/ RunServed \/ RunArrives
  \/ OpenResume \/ ContinueResume \/ CloseDialog \/ ConfirmResume
  \/ \E d \in Decisions \ {"none"} : ChooseDecision(d)
  \/ ResumeRead \/ ResumeCommit \/ ResumeAnswered \/ ResumeLost

DecisionSpec == DecisionInit /\ [][DecisionNext]_decisionVars

-----------------------------------------------------------------------------

(* The operator's request passes a step of unknown outcome only by a decision *)
(* about that step, taken in dialogs that opened on the run's very revision:  *)
(* "the step and run revision the operator saw when the decision dialog       *)
(* opened" (RunDetail.tsx:53, runbook_run_resume.go:8-17).  Between the two   *)
(* others may have resumed the run, the same step may have ended unknown      *)
(* again, and the page may have been read again behind the dialogs.           *)
ResumeIsInformed ==
  [][resumeReq.st = "admitted" /\ resumeReq'.code = "ok" /\ runNow.cause = "unknownAction"
       => /\ resumeReq.choice # "none"
          /\ opened.rev = runNow.rev /\ opened.step = runNow.step]_decisionVars

=============================================================================
