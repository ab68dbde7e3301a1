---------------------------- MODULE RunbookStore ----------------------------
(***************************************************************************)
(* The persistence of runbook runs: one operator per transaction of        *)
(* backend/internal/store/runbook_run.go and runbook_run_resume.go.  Every *)
(* transaction locks the run's row first, so each one is a single step.    *)
(*                                                                         *)
(* updated_at is a revision: nextRunbookRunTimestamp makes every write     *)
(* strictly later than the previous one.  The only use of a revision is to *)
(* compare it for equality with one read earlier, so the model keeps, for  *)
(* each run, the set of readers whose last read still is the current       *)
(* revision (readers): reading adds the reader, any write empties the set. *)
(***************************************************************************)
EXTENDS Naturals, FiniteSets

CONSTANTS
    Runs,       \* identities a run can be created under (a UUID, never reused)
    Runbooks,   \* the authored runbooks
    Users,      \* the operators who start, approve, resume and cancel runs
    Readers,    \* whoever remembers a revision: the HTTP requests
    StepCount,  \* how many steps a run freezes
    Plans,      \* the step sequences an author may have saved
    Nobody      \* the NULL of an actor or runbook column

Steps == 1 .. StepCount

(* The kinds that differ in control.  "wait" stands for sync_and_wait,     *)
(* wait_until_healthy and wait_for_entity, which differ in what they poll. *)
Kinds == {"lifecycle", "wait", "manual", "config_push", "connector_action"}

ASSUME StoreAssumption ==
    /\ StepCount \in Nat \ {0}
    /\ Plans \subseteq [Steps -> Kinds]
    /\ Nobody \notin Users
    /\ Nobody \notin Runbooks

OpenStates == {"running", "waiting_manual", "failed", "awaiting_approval"}
TerminalStates == {"succeeded", "cancelled", "expired", "rejected"}

(* "absent": not created yet; "pruned": deleted by the retention job. *)
RunStates == OpenStates \cup TerminalStates \cup {"absent", "pruned"}

StepStates ==
    {"pending", "running", "waiting", "succeeded", "failed", "skipped", "unknown"}

VARIABLES
    row,     \* table runbook_runs
    step,    \* table runbook_run_steps: the state of every frozen step
    readers  \* readers[r]: the readers that hold the current updated_at of r

dbVars == <<row, step, readers>>

Row == [ state      : RunStates,
         plan       : Plans \cup {<<>>},
         runbook    : Runbooks \cup {Nobody},
         startedBy  : Users \cup {Nobody},
         resumedBy  : Users \cup {Nobody},
         gated      : BOOLEAN,               \* requires_approval
         approvedBy : Users \cup {Nobody} ]

NoRow == [ state |-> "absent", plan |-> <<>>, runbook |-> Nobody,
           startedBy |-> Nobody, resumedBy |-> Nobody, gated |-> FALSE,
           approvedBy |-> Nobody ]

DbTypeOK ==
    /\ row \in [Runs -> Row]
    /\ step \in [Runs -> [Steps -> StepStates]]
    /\ readers \in [Runs -> SUBSET Readers]

DbInit ==
    /\ row = [r \in Runs |-> NoRow]
    /\ step = [r \in Runs |-> [i \in Steps |-> "pending"]]
    /\ readers = [r \in Runs |-> {}]

-----------------------------------------------------------------------------
(* Reading a row and its steps. *)

IsOpen(r) == row[r].state \in OpenStates

AllSucceeded(r) == \A i \in Steps : step[r][i] = "succeeded"

(* Step i of r is the first, in position order, that has not succeeded. *)
FirstUnfinished(r, i) ==
    /\ step[r][i] # "succeeded"
    /\ \A j \in 1 .. (i - 1) : step[r][j] = "succeeded"

(* Reader c remembers the current revision of r. *)
ReadRevision(c, r) == readers' = [readers EXCEPT ![r] = @ \cup {c}]

(* Every write bumps updated_at, so nobody's revision of r is current. *)
Touch(r) == readers' = [readers EXCEPT ![r] = {}]

SetRun(r, s) == row' = [row EXCEPT ![r].state = s]
SetStep(r, i, s) == step' = [step EXCEPT ![r][i] = s]

(* Variants: a waiting step is left waiting; a running step is skipped. *)
Closed_LeavesWaiting(s) == IF s = "running" THEN "unknown"
                           ELSE IF s = "pending" THEN "skipped" ELSE s
Closed_SkipsRunning(s) == IF s \in {"running", "pending", "waiting"} THEN "skipped" ELSE s

(* closeUnfinishedRunbookRunSteps: an operation that may have reached the  *)
(* connector becomes unknown, what never began is skipped.                 *)
Closed(s) == IF s = "running" THEN "unknown"
             ELSE IF s \in {"pending", "waiting"} THEN "skipped" ELSE s

CloseSteps(r) == step' = [step EXCEPT ![r] = [i \in Steps |-> Closed(step[r][i])]]

(* skipAwaitingApprovalRunbookRunSteps *)
SkipPending(r) ==
    step' = [step EXCEPT ![r] =
               [i \in Steps |-> IF step[r][i] = "pending" THEN "skipped" ELSE step[r][i]]]

-----------------------------------------------------------------------------
(* Transactions.  A Can... operator is the condition under which the       *)
(* transaction commits; otherwise it is ErrConflict and changes nothing.   *)

(* Variant: the index forgets the open states other than running. *)
CanCreate_RunningOnly(b) == \A r \in Runs : ~ (row[r].runbook = b /\ row[r].state = "running")

(* idx_runbook_runs_one_active, a partial unique index on runbook_id. *)
CanCreate(b) == \A r \in Runs : ~ (row[r].runbook = b /\ IsOpen(r))

CreateRunbookRun(r, b, u, p, gate) ==
    /\ row[r].state = "absent"
    /\ CanCreate(b)
    /\ row' = [row EXCEPT ![r] =
                 [NoRow EXCEPT !.state = IF gate THEN "awaiting_approval" ELSE "running",
                               !.plan = p, !.runbook = b, !.startedBy = u,
                               !.gated = gate]]
    /\ step' = [step EXCEPT ![r] = [i \in Steps |-> "pending"]]
    /\ Touch(r)

ApproveRunbookRun(r, u) ==
    /\ row[r].state = "awaiting_approval"
    /\ row' = [row EXCEPT ![r].state = "running", ![r].approvedBy = u]
    /\ Touch(r)
    /\ UNCHANGED step

RejectRunbookRun(r) ==
    /\ row[r].state = "awaiting_approval"
    /\ SetRun(r, "rejected")
    /\ SkipPending(r)
    /\ Touch(r)

(* Variant: the update is not guarded on the run still being running. *)
UpdateRunbookRun_Unguarded(r, to) ==
    /\ row[r].state \notin {"absent", "pruned"}
    /\ SetRun(r, to)
    /\ Touch(r)
    /\ UNCHANGED step

(* UpdateRunbookRun with the two targets the executor uses, running to     *)
(* failed and running to succeeded.                                        *)
UpdateRunbookRun(r, to) ==
    /\ row[r].state = "running"
    /\ SetRun(r, to)
    /\ Touch(r)
    /\ UNCHANGED step

(* Variant: only the run is guarded, not the state the step was read in. *)
CanUpdateStep_RunOnly(r, i, from) == row[r].state = "running"

CanUpdateStep(r, i, from) == row[r].state = "running" /\ step[r][i] = from

UpdateRunbookRunStep(r, i, from, to) ==
    /\ CanUpdateStep(r, i, from)
    /\ SetStep(r, i, to)
    /\ Touch(r)
    /\ UNCHANGED row

(* transitionRunbookRunWithStep: one step and its run in one transaction. *)
TransitionWithStep(r, i, from, stepTo, runTo) ==
    /\ CanUpdateStep(r, i, from)
    /\ SetStep(r, i, stepTo)
    /\ SetRun(r, runTo)
    /\ Touch(r)

PauseRunbookRunOnManualStep(r, i) ==
    TransitionWithStep(r, i, "pending", "waiting", "waiting_manual")

FailRunbookRunStep(r, i, s) == TransitionWithStep(r, i, "running", s, "failed")

CanFinish(r, i) ==
    /\ CanUpdateStep(r, i, "running")
    /\ \A j \in Steps \ {i} : step[r][j] = "succeeded"

FinishRunbookRun(r, i) ==
    /\ CanFinish(r, i)
    /\ TransitionWithStep(r, i, "running", "succeeded", "succeeded")

ConfirmRunbookRunStep(r, i) ==
    /\ row[r].state = "waiting_manual"
    /\ step[r][i] = "waiting"
    /\ row[r].plan[i] = "manual"
    /\ SetStep(r, i, "succeeded")
    /\ SetRun(r, "running")
    /\ Touch(r)

CancelRunbookRun(r) ==
    /\ IsOpen(r)
    /\ SetRun(r, "cancelled")
    /\ CloseSteps(r)
    /\ Touch(r)

(* Variant: the revision is not compared inside the transaction. *)
CanResume_AnyRevision(c, r) == row[r].state = "failed"

(* resumeRunbookRun compares the revision inside the transaction. *)
CanResume(c, r) == row[r].state = "failed" /\ c \in readers[r]

ResumeRunbookRun(c, r, u) ==
    /\ CanResume(c, r)
    /\ row' = [row EXCEPT ![r].state = "running", ![r].resumedBy = u]
    /\ Touch(r)
    /\ UNCHANGED step

CanMarkDone(c, r, i) ==
    /\ CanResume(c, r)
    /\ FirstUnfinished(r, i)
    /\ step[r][i] = "unknown"

ResumeRunbookRunMarkingStepDone(c, r, i, u) ==
    /\ CanMarkDone(c, r, i)
    /\ row' = [row EXCEPT ![r].state = "running", ![r].resumedBy = u]
    /\ SetStep(r, i, "succeeded")
    /\ Touch(r)

(* InterruptRunningRunbookRuns, one transaction over every running run. *)
Running == {r \in Runs : row[r].state = "running"}

(* Variant: the reason of the interruption is written as the step's state. *)
Interrupted_AsReason(s) == IF s = "running" THEN "interrupted" ELSE s

Interrupted(s) == CASE s = "running" -> "unknown"
                    [] s = "waiting" -> "pending"
                    [] OTHER -> s

InterruptRunningRunbookRuns ==
    /\ row' = [r \in Runs |-> IF r \in Running
                                THEN [row[r] EXCEPT !.state = "failed"] ELSE row[r]]
    /\ step' = [r \in Runs |-> IF r \in Running
                                 THEN [i \in Steps |-> Interrupted(step[r][i])]
                                 ELSE step[r]]
    /\ readers' = [r \in Runs |-> IF r \in Running THEN {} ELSE readers[r]]

(* The sweeps handle each run that is old enough on its own; age is        *)
(* abstracted to "may be old enough now".                                  *)
ExpireOpenRunbookRun(r) ==
    /\ row[r].state \in {"waiting_manual", "failed"}
    /\ SetRun(r, "expired")
    /\ CloseSteps(r)
    /\ Touch(r)

ExpireAwaitingApprovalRunbookRun(r) ==
    /\ row[r].state = "awaiting_approval"
    /\ SetRun(r, "expired")
    /\ SkipPending(r)
    /\ Touch(r)

PruneRunbookRun(r) ==
    /\ row[r].state \in TerminalStates
    /\ SetRun(r, "pruned")
    /\ Touch(r)
    /\ UNCHANGED step

-----------------------------------------------------------------------------
(* The store on its own: any caller may run any transaction at any time,   *)
(* with the step transitions the executor asks for.                        *)

StartStepWrite(r, i) ==
    \E from \in {"pending", "failed", "unknown"} : UpdateRunbookRunStep(r, i, from, "running")

StepWrite(r, i) ==
    \/ StartStepWrite(r, i)
    \/ UpdateRunbookRunStep(r, i, "running", "succeeded")
    \/ PauseRunbookRunOnManualStep(r, i)
    \/ \E s \in {"failed", "unknown"} : FailRunbookRunStep(r, i, s)
    \/ FinishRunbookRun(r, i)
    \/ ConfirmRunbookRunStep(r, i)
    \/ \E c \in Readers, u \in Users : ResumeRunbookRunMarkingStepDone(c, r, i, u)

RunWrite(r) ==
    \/ \E b \in Runbooks, u \in Users, p \in Plans, gate \in BOOLEAN :
          CreateRunbookRun(r, b, u, p, gate)
    \/ \E u \in Users : ApproveRunbookRun(r, u)
    \/ RejectRunbookRun(r)
    \/ \E to \in {"failed", "succeeded"} : UpdateRunbookRun(r, to)
    \/ CancelRunbookRun(r)
    \/ \E c \in Readers, u \in Users : ResumeRunbookRun(c, r, u)
    \/ ExpireOpenRunbookRun(r)
    \/ ExpireAwaitingApprovalRunbookRun(r)
    \/ PruneRunbookRun(r)
    \/ \E c \in Readers : ReadRevision(c, r) /\ UNCHANGED <<row, step>>

StoreNext ==
    \/ \E r \in Runs : RunWrite(r)
    \/ \E r \in Runs, i \in Steps : StepWrite(r, i)
    \/ InterruptRunningRunbookRuns

StoreSpec == DbInit /\ [][StoreNext]_dbVars

-----------------------------------------------------------------------------
(* What the store promises whoever calls it.                               *)

(* At most one open run per runbook: no transaction reopens a finished run *)
(* or creates a second one beside an open one.                             *)
OneOpenRunPerRunbook ==
    \A r, q \in Runs :
        (r # q /\ IsOpen(r) /\ IsOpen(q)) => row[r].runbook # row[q].runbook

Frozen(r) == UNCHANGED <<row[r], step[r]>>

(* A finished run is history: neither the row nor a step of it changes     *)
(* again, until the retention job deletes it (the state guards of every    *)
(* transaction against late answers, sweeps and approvals).                *)
FinishedRunsAreFrozen ==
    [][\A r \in Runs : row[r].state \in TerminalStates
          => Frozen(r) \/ (row'[r].state = "pruned" /\ UNCHANGED step[r])]_dbVars

(* A success is never taken back.  The guard of a step write on the state  *)
(* the step was read in keeps the late answer of a goroutine that lost its *)
(* run (a leader that was deposed) from overwriting it.                    *)
SuccessIsFinal ==
    [][\A r \in Runs, i \in Steps :
          (step[r][i] = "succeeded" /\ row[r].state # "absent") => step'[r][i] = "succeeded"]_dbVars

=============================================================================
