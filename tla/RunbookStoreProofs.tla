-------------------------- MODULE RunbookStoreProofs --------------------------
(***************************************************************************)
(* What the transactions of the runbook run store guarantee, whatever the  *)
(* order in which whoever calls them: any number of runs, runbooks, users, *)
(* readers and steps.                                                      *)
(***************************************************************************)
EXTENDS RunbookStore, TLAPS

(* The writes the transactions are made of keep each table well typed. *)
RowOK == row \in [Runs -> Row]
StepOK == step \in [Runs -> [Steps -> StepStates]]
ReadersOK == readers \in [Runs -> SUBSET Readers]

(* updateRunbookRun changes the state of one row. *)
LEMMA SetRunType ==
    ASSUME RowOK, NEW r \in Runs, NEW s \in RunStates, SetRun(r, s)
    PROVE  RowOK'
<1>1. [row[r] EXCEPT !.state = s] \in Row
  BY DEF RowOK, Row
<1> QED
  BY <1>1 DEF RowOK, SetRun

(* A resume also records who resumed; an approval who approved. *)
LEMMA ActorType ==
    ASSUME RowOK, NEW r \in Runs, NEW u \in Users
    PROVE  /\ [row EXCEPT ![r].state = "running", ![r].resumedBy = u] \in [Runs -> Row]
           /\ [row EXCEPT ![r].state = "running", ![r].approvedBy = u] \in [Runs -> Row]
<1>1. /\ [row[r] EXCEPT !.state = "running", !.resumedBy = u] \in Row
      /\ [row[r] EXCEPT !.state = "running", !.approvedBy = u] \in Row
  BY DEF RowOK, Row, RunStates, OpenStates
<1> QED
  BY <1>1 DEF RowOK

(* updateRunbookRunStep changes the state of one step. *)
LEMMA SetStepType ==
    ASSUME StepOK, NEW r \in Runs, NEW i \in Steps, NEW s \in StepStates, SetStep(r, i, s)
    PROVE  StepOK'
<1>1. [step[r] EXCEPT ![i] = s] \in [Steps -> StepStates]
  BY DEF StepOK
<1> QED
  BY <1>1 DEF StepOK, SetStep

(* Closing, skipping and interrupting the steps of a run. *)
LEMMA CloseStepsType ==
    ASSUME StepOK, NEW r \in Runs, CloseSteps(r) \/ SkipPending(r)
    PROVE  StepOK'
<1>1. /\ [i \in Steps |-> Closed(step[r][i])] \in [Steps -> StepStates]
      /\ [i \in Steps |-> IF step[r][i] = "pending" THEN "skipped" ELSE step[r][i]]
            \in [Steps -> StepStates]
  BY DEF StepOK, StepStates, Closed
<1> QED
  BY <1>1 DEF StepOK, CloseSteps, SkipPending

LEMMA TouchType ==
    ASSUME ReadersOK, NEW r \in Runs, Touch(r)
    PROVE  ReadersOK'
BY DEF ReadersOK, Touch

(* A step write keeps the tables well typed. *)
LEMMA StepWriteType ==
    ASSUME DbTypeOK, NEW r \in Runs, NEW i \in Steps, StepWrite(r, i)
    PROVE  DbTypeOK'
<1>0. RowOK /\ StepOK /\ ReadersOK
  BY DEF DbTypeOK, RowOK, StepOK, ReadersOK
<1>a. "running" \in StepStates /\ "succeeded" \in StepStates /\ "waiting" \in StepStates
      /\ "failed" \in StepStates /\ "unknown" \in StepStates
  BY DEF StepStates
<1>b. "running" \in RunStates /\ "waiting_manual" \in RunStates /\ "failed" \in RunStates
      /\ "succeeded" \in RunStates
  BY DEF RunStates, OpenStates, TerminalStates
<1>1. ASSUME NEW from, NEW s \in StepStates, UpdateRunbookRunStep(r, i, from, s)
      PROVE  RowOK' /\ StepOK' /\ ReadersOK'
  <2>1. RowOK'
    BY <1>0, <1>1 DEF UpdateRunbookRunStep, RowOK
  <2> QED
    BY <1>0, <1>1, <2>1, SetStepType, TouchType DEF UpdateRunbookRunStep
<1>2. ASSUME NEW from, NEW s \in StepStates, NEW to \in RunStates,
             TransitionWithStep(r, i, from, s, to)
      PROVE  RowOK' /\ StepOK' /\ ReadersOK'
  BY <1>0, <1>2, SetRunType, SetStepType, TouchType DEF TransitionWithStep
<1>3. CASE StartStepWrite(r, i) \/ UpdateRunbookRunStep(r, i, "running", "succeeded")
  BY <1>1, <1>3, <1>a DEF StartStepWrite, DbTypeOK, RowOK, StepOK, ReadersOK
<1>4. CASE \/ PauseRunbookRunOnManualStep(r, i)
           \/ \E s \in {"failed", "unknown"} : FailRunbookRunStep(r, i, s)
           \/ FinishRunbookRun(r, i)
  <2>1. RowOK' /\ StepOK' /\ ReadersOK'
    BY <1>2, <1>4, <1>a, <1>b
       DEF PauseRunbookRunOnManualStep, FailRunbookRunStep, FinishRunbookRun
  <2> QED
    BY <2>1 DEF DbTypeOK, RowOK, StepOK, ReadersOK
<1>5. CASE ConfirmRunbookRunStep(r, i)
  <2>1. RowOK' /\ StepOK' /\ ReadersOK'
    BY <1>0, <1>5, <1>a, <1>b, SetRunType, SetStepType, TouchType DEF ConfirmRunbookRunStep
  <2> QED
    BY <2>1 DEF DbTypeOK, RowOK, StepOK, ReadersOK
<1>6. CASE \E c \in Readers, u \in Users : ResumeRunbookRunMarkingStepDone(c, r, i, u)
  <2>1. PICK c \in Readers, u \in Users : ResumeRunbookRunMarkingStepDone(c, r, i, u)
    BY <1>6
  <2>2. RowOK'
    BY <1>0, <2>1, ActorType DEF ResumeRunbookRunMarkingStepDone, RowOK
  <2>3. StepOK' /\ ReadersOK'
    BY <1>0, <2>1, <1>a, SetStepType, TouchType DEF ResumeRunbookRunMarkingStepDone
  <2> QED
    BY <2>2, <2>3 DEF DbTypeOK, RowOK, StepOK, ReadersOK
<1> QED
  BY <1>3, <1>4, <1>5, <1>6 DEF StepWrite

(* A write of the run's row, with or without its steps, keeps them too.    *)
LEMMA RunWriteType ==
    ASSUME DbTypeOK, NEW r \in Runs, RunWrite(r)
    PROVE  DbTypeOK'
<1> USE DEF RowOK, StepOK, ReadersOK
<1>0. RowOK /\ StepOK /\ ReadersOK
  BY DEF DbTypeOK
<1>a. /\ {"running", "awaiting_approval", "failed", "succeeded", "rejected", "cancelled",
           "expired", "pruned"} \subseteq RunStates
  BY DEF RunStates, OpenStates, TerminalStates
<1> SUFFICES RowOK' /\ StepOK' /\ ReadersOK'
  BY DEF DbTypeOK
<1>1. ASSUME NEW b \in Runbooks, NEW u \in Users, NEW p \in Plans, NEW gate \in BOOLEAN,
             CreateRunbookRun(r, b, u, p, gate)
      PROVE  RowOK' /\ StepOK' /\ ReadersOK'
  <2>1. [NoRow EXCEPT !.state = IF gate THEN "awaiting_approval" ELSE "running",
                      !.plan = p, !.runbook = b, !.startedBy = u, !.gated = gate] \in Row
    BY <1>a DEF NoRow, Row
  <2>2. [i \in Steps |-> "pending"] \in [Steps -> StepStates]
    BY DEF StepStates
  <2>3. RowOK'
    BY <1>0, <1>1, <2>1 DEF CreateRunbookRun
  <2>4. StepOK'
    BY <1>0, <1>1, <2>2 DEF CreateRunbookRun
  <2> QED
    BY <1>0, <1>1, <2>3, <2>4, TouchType DEF CreateRunbookRun
<1>2. ASSUME NEW u \in Users, ApproveRunbookRun(r, u)
      PROVE  RowOK' /\ StepOK' /\ ReadersOK'
  BY <1>0, <1>2, ActorType, TouchType DEF ApproveRunbookRun
<1>3. ASSUME NEW c \in Readers, NEW u \in Users, ResumeRunbookRun(c, r, u)
      PROVE  RowOK' /\ StepOK' /\ ReadersOK'
  BY <1>0, <1>3, ActorType, TouchType DEF ResumeRunbookRun
<1>4. ASSUME NEW to \in RunStates, UpdateRunbookRun(r, to)
      PROVE  RowOK' /\ StepOK' /\ ReadersOK'
  BY <1>0, <1>4, SetRunType, TouchType DEF UpdateRunbookRun
<1>5. CASE \/ RejectRunbookRun(r) \/ CancelRunbookRun(r)
           \/ ExpireOpenRunbookRun(r) \/ ExpireAwaitingApprovalRunbookRun(r)
  BY <1>0, <1>5, <1>a, SetRunType, CloseStepsType, TouchType
     DEF RejectRunbookRun, CancelRunbookRun, ExpireOpenRunbookRun,
         ExpireAwaitingApprovalRunbookRun
<1>6. CASE PruneRunbookRun(r)
  BY <1>0, <1>6, <1>a, SetRunType, TouchType DEF PruneRunbookRun
<1>7. ASSUME NEW c \in Readers, ReadRevision(c, r), UNCHANGED <<row, step>>
      PROVE  RowOK' /\ StepOK' /\ ReadersOK'
  BY <1>0, <1>7 DEF ReadRevision
<1> QED
  BY <1>1, <1>2, <1>3, <1>4, <1>5, <1>6, <1>7, <1>a DEF RunWrite

(* Recovery's transaction over every running run keeps them too. *)
LEMMA InterruptType ==
    ASSUME DbTypeOK, InterruptRunningRunbookRuns
    PROVE  DbTypeOK'
<1>1. \A r \in Runs : [row[r] EXCEPT !.state = "failed"] \in Row
  BY DEF DbTypeOK, Row, RunStates, OpenStates
<1>2. \A r \in Runs : [i \in Steps |-> Interrupted(step[r][i])] \in [Steps -> StepStates]
  BY DEF DbTypeOK, StepStates, Interrupted
<1> QED
  BY <1>1, <1>2 DEF DbTypeOK, InterruptRunningRunbookRuns

LEMMA StoreNextType ==
    ASSUME DbTypeOK, StoreNext
    PROVE  DbTypeOK'
BY StepWriteType, RunWriteType, InterruptType DEF StoreNext

(* The tables only ever hold rows the schema and the callers allow. *)
THEOREM StoreTypeCorrect == StoreSpec => []DbTypeOK
<1>1. DbInit => DbTypeOK
  BY DEF DbInit, DbTypeOK, NoRow, Row, RunStates, StepStates
<1>2. DbTypeOK /\ [StoreNext]_dbVars => DbTypeOK'
  BY StoreNextType DEF dbVars, DbTypeOK
<1> QED
  BY <1>1, <1>2, PTL DEF StoreSpec

-----------------------------------------------------------------------------
(* What one transaction does to one run q: nothing; or it creates q; or q  *)
(* was open, stays the same run of its runbook, and none of its successes  *)
(* is lost; or q was finished and is deleted.                              *)
Created(q) ==
    /\ row[q].state = "absent"
    /\ \E b \in Runbooks : CanCreate(b) /\ row'[q].runbook = b
    /\ \A r \in Runs \ {q} : row'[r] = row[r] /\ step'[r] = step[r]

Progressed(q) ==
    /\ row[q].state \in OpenStates
    /\ row'[q].state # "absent"
    /\ row'[q].runbook = row[q].runbook
    /\ row'[q].plan = row[q].plan
    /\ \A j \in Steps : step[q][j] = "succeeded" => step'[q][j] = "succeeded"

Deleted(q) ==
    /\ row[q].state \in TerminalStates
    /\ row'[q].state = "pruned"
    /\ row'[q].plan = row[q].plan
    /\ step'[q] = step[q]

Effect(q) == (row'[q] = row[q] /\ step'[q] = step[q]) \/ Created(q) \/ Progressed(q) \/ Deleted(q)

(* A write addresses one run and leaves the others alone. *)
LEMMA OthersUntouched ==
    ASSUME DbTypeOK, NEW r \in Runs, RunWrite(r) \/ \E i \in Steps : StepWrite(r, i),
           NEW q \in Runs, q # r
    PROVE  row'[q] = row[q] /\ step'[q] = step[q]
<1> USE DEF DbTypeOK, SetRun, SetStep
<1>1. CASE RunWrite(r)
  BY <1>1 DEF RunWrite, CreateRunbookRun, ApproveRunbookRun, RejectRunbookRun,
              UpdateRunbookRun, CancelRunbookRun, ResumeRunbookRun, ExpireOpenRunbookRun,
              ExpireAwaitingApprovalRunbookRun, PruneRunbookRun, CloseSteps, SkipPending
<1>2. CASE \E i \in Steps : StepWrite(r, i)
  BY <1>2 DEF StepWrite, StartStepWrite, UpdateRunbookRunStep, PauseRunbookRunOnManualStep,
              FailRunbookRunStep, FinishRunbookRun, TransitionWithStep,
              ConfirmRunbookRunStep, ResumeRunbookRunMarkingStepDone
<1> QED
  BY <1>1, <1>2

(* A step write happens in an open run, to a step that has not succeeded. *)
LEMMA StepWriteProgress ==
    ASSUME DbTypeOK, NEW r \in Runs, NEW i \in Steps, StepWrite(r, i)
    PROVE  Progressed(r)
<1> USE DEF DbTypeOK, Row, SetRun, SetStep, OpenStates, Progressed
<1>1. ASSUME NEW from \in {"pending", "failed", "unknown", "running"}, NEW s,
             UpdateRunbookRunStep(r, i, from, s)
      PROVE  Progressed(r)
  BY <1>1 DEF UpdateRunbookRunStep, CanUpdateStep
<1>2. ASSUME NEW from \in {"pending", "running"}, NEW s, NEW to, to # "absent",
             TransitionWithStep(r, i, from, s, to)
      PROVE  Progressed(r)
  BY <1>2 DEF TransitionWithStep, CanUpdateStep
<1>3. CASE StartStepWrite(r, i) \/ UpdateRunbookRunStep(r, i, "running", "succeeded")
  BY <1>1, <1>3 DEF StartStepWrite
<1>4. CASE \/ PauseRunbookRunOnManualStep(r, i)
           \/ \E s \in {"failed", "unknown"} : FailRunbookRunStep(r, i, s)
           \/ FinishRunbookRun(r, i)
  BY <1>2, <1>4 DEF PauseRunbookRunOnManualStep, FailRunbookRunStep, FinishRunbookRun
<1>5. CASE ConfirmRunbookRunStep(r, i)
  BY <1>5 DEF ConfirmRunbookRunStep
<1>6. CASE \E c \in Readers, u \in Users : ResumeRunbookRunMarkingStepDone(c, r, i, u)
  BY <1>6 DEF ResumeRunbookRunMarkingStepDone, CanMarkDone, CanResume
<1> QED
  BY <1>3, <1>4, <1>5, <1>6 DEF StepWrite

(* A write of the row creates the run, moves an open one on, deletes a     *)
(* finished one, or is a read.                                             *)
LEMMA RunWriteEffect ==
    ASSUME DbTypeOK, NEW r \in Runs, RunWrite(r)
    PROVE  Effect(r)
<1> USE DEF DbTypeOK, Row, SetRun, OpenStates, Effect
<1>1. CASE \E b \in Runbooks, u \in Users, p \in Plans, gate \in BOOLEAN :
             CreateRunbookRun(r, b, u, p, gate)
  BY <1>1, OthersUntouched DEF CreateRunbookRun, Created, NoRow
<1>2. CASE \E u \in Users : ApproveRunbookRun(r, u)
  BY <1>2 DEF ApproveRunbookRun, Progressed
<1>3. CASE RejectRunbookRun(r) \/ ExpireAwaitingApprovalRunbookRun(r)
  BY <1>3 DEF RejectRunbookRun, ExpireAwaitingApprovalRunbookRun, SkipPending, Progressed
<1>4. CASE \E to \in {"failed", "succeeded"} : UpdateRunbookRun(r, to)
  BY <1>4 DEF UpdateRunbookRun, Progressed
<1>5. CASE CancelRunbookRun(r) \/ ExpireOpenRunbookRun(r)
  <2>1. row[r].state \in OpenStates /\ row'[r].runbook = row[r].runbook
        /\ row'[r].plan = row[r].plan /\ row'[r].state # "absent"
    BY <1>5 DEF CancelRunbookRun, ExpireOpenRunbookRun, IsOpen
  <2>2. \A j \in Steps : step'[r][j] = Closed(step[r][j])
    BY <1>5 DEF CancelRunbookRun, ExpireOpenRunbookRun, CloseSteps
  <2> QED
    BY <2>1, <2>2 DEF Closed, Progressed
<1>6. CASE \E c \in Readers, u \in Users : ResumeRunbookRun(c, r, u)
  BY <1>6 DEF ResumeRunbookRun, CanResume, Progressed
<1>7. CASE PruneRunbookRun(r)
  BY <1>7 DEF PruneRunbookRun, Deleted
<1>8. CASE \E c \in Readers : ReadRevision(c, r) /\ UNCHANGED <<row, step>>
  BY <1>8
<1> QED
  BY <1>1, <1>2, <1>3, <1>4, <1>5, <1>6, <1>7, <1>8 DEF RunWrite

LEMMA InterruptEffect ==
    ASSUME DbTypeOK, InterruptRunningRunbookRuns, NEW q \in Runs
    PROVE  Effect(q)
<1> USE DEF DbTypeOK, Row, InterruptRunningRunbookRuns, Running
<1>1. CASE row[q].state = "running"
  BY <1>1 DEF Effect, Progressed, Interrupted, OpenStates
<1>2. CASE row[q].state # "running"
  BY <1>2 DEF Effect
<1> QED
  BY <1>1, <1>2

LEMMA StoreEffect ==
    ASSUME DbTypeOK, StoreNext, NEW q \in Runs
    PROVE  Effect(q)
<1>1. ASSUME NEW r \in Runs, RunWrite(r) \/ \E i \in Steps : StepWrite(r, i)
      PROVE  Effect(q)
  <2>1. CASE q = r
    BY <1>1, <2>1, RunWriteEffect, StepWriteProgress DEF Effect
  <2>2. CASE q # r
    BY <1>1, <2>2, OthersUntouched DEF Effect
  <2> QED
    BY <2>1, <2>2
<1> QED
  BY <1>1, InterruptEffect DEF StoreNext

-----------------------------------------------------------------------------
(* A finished run is history until the retention job deletes it: the late  *)
(* answer of a goroutine, a failure recorded after a cancel or a second    *)
(* sweep cannot change it.                                                 *)
THEOREM FinishedFrozen == StoreSpec => FinishedRunsAreFrozen
<1>1. ASSUME DbTypeOK, StoreNext, NEW q \in Runs, row[q].state \in TerminalStates
      PROVE  Frozen(q) \/ (row'[q].state = "pruned" /\ UNCHANGED step[q])
  BY <1>1, StoreEffect
     DEF Effect, Created, Progressed, Deleted, Frozen, TerminalStates, OpenStates
<1>2. DbTypeOK /\ [StoreNext]_dbVars =>
        [\A r \in Runs : row[r].state \in TerminalStates
            => Frozen(r) \/ (row'[r].state = "pruned" /\ UNCHANGED step[r])]_dbVars
  BY <1>1
<1> QED
  BY <1>2, StoreTypeCorrect, PTL DEF StoreSpec, FinishedRunsAreFrozen

(* A recorded success is never taken back, by any interleaving of the      *)
(* transactions: recovery, a cancel or a late failure changes other steps. *)
THEOREM SuccessKept == StoreSpec => SuccessIsFinal
<1>1. ASSUME DbTypeOK, StoreNext, NEW q \in Runs, NEW i \in Steps,
             step[q][i] = "succeeded", row[q].state # "absent"
      PROVE  step'[q][i] = "succeeded"
  BY <1>1, StoreEffect DEF Effect, Created, Progressed, Deleted
<1>2. DbTypeOK /\ [StoreNext]_dbVars =>
        [\A r \in Runs, i \in Steps :
           (step[r][i] = "succeeded" /\ row[r].state # "absent")
             => step'[r][i] = "succeeded"]_dbVars
  BY <1>1
<1> QED
  BY <1>2, StoreTypeCorrect, PTL DEF StoreSpec, SuccessIsFinal

(* The unique index admits one open run per runbook, and no transaction    *)
(* reopens a finished run beside a newer one.                              *)
THEOREM OneOpenRun == StoreSpec => []OneOpenRunPerRunbook
<1>1. DbInit => OneOpenRunPerRunbook
  BY DEF DbInit, OneOpenRunPerRunbook, IsOpen, NoRow, OpenStates
<1>2. ASSUME DbTypeOK, OneOpenRunPerRunbook, StoreNext
      PROVE  OneOpenRunPerRunbook'
  <2> SUFFICES ASSUME NEW r \in Runs, NEW q \in Runs, r # q, IsOpen(r)', IsOpen(q)'
               PROVE  row'[r].runbook # row'[q].runbook
    BY DEF OneOpenRunPerRunbook
  <2>1. ASSUME NEW x \in Runs, IsOpen(x)', ~ Created(x)
        PROVE  IsOpen(x) /\ row'[x].runbook = row[x].runbook
    BY <1>2, <2>1, StoreEffect
       DEF Effect, Progressed, Deleted, IsOpen, OpenStates
  <2>2. ASSUME NEW x \in Runs, NEW y \in Runs, x # y, Created(x), IsOpen(y)'
        PROVE  row'[x].runbook # row'[y].runbook
    <3>1. row'[y] = row[y]
      BY <2>2 DEF Created
    <3> QED
      BY <2>2, <3>1 DEF Created, CanCreate, IsOpen
  <2>3. CASE Created(r) \/ Created(q)
    BY <2>2, <2>3
  <2>4. CASE ~ Created(r) /\ ~ Created(q)
    BY <1>2, <2>1, <2>4 DEF OneOpenRunPerRunbook
  <2> QED
    BY <2>3, <2>4
<1>3. DbTypeOK /\ OneOpenRunPerRunbook /\ [StoreNext]_dbVars => OneOpenRunPerRunbook'
  BY <1>2 DEF dbVars, OneOpenRunPerRunbook, IsOpen
<1> QED
  BY <1>1, <1>3, StoreTypeCorrect, PTL DEF StoreSpec

=============================================================================
