----------------------------- MODULE RunbookRun -----------------------------
(***************************************************************************)
(* The runbook run executor (backend/internal/runbookrun) on top of its    *)
(* store: the HTTP requests that start, approve, resume, confirm and       *)
(* cancel runs, the goroutines that drive them, the slot registry that     *)
(* lets one goroutine drive a run at a time, and the processes these live  *)
(* in, which are signalled, drained, killed and booted again.              *)
(*                                                                         *)
(* A goroutine is a task.  Its pc names the call it makes next; the store  *)
(* transaction of that call is one step, so any other task, request, sweep *)
(* or crash may come between two calls.                                    *)
(***************************************************************************)
EXTENDS RunbookStore

CONSTANTS
    Tasks,       \* bound: goroutines alive at a time
    Procs,       \* the server processes that share the database
    LeaderElection, \* ha.leader_election: only the lock holder is routed to
    MaxResumes,  \* bound: resumes per run
    MaxFaults    \* bound: store calls of the executor that fail, in all

ASSUME ExecutorAssumption ==
    /\ LeaderElection \in BOOLEAN
    /\ MaxResumes \in Nat
    /\ MaxFaults \in Nat
    /\ Nobody \notin Tasks
    /\ Nobody \notin Procs
    /\ Nobody \notin Runs

VARIABLES
    task,    \* the goroutines
    active,  \* active[p][r]: who holds the slot of r in process p
    request, \* the HTTP handlers, by the Readers that run them
    proc,    \* the life of each process
    baseDone,\* the processes whose base context (the signal context) is done
    lock,    \* the process that holds the leader advisory lock
    faults,  \* failed store calls so far
    fact,    \* what really happened to each step's connector operation
    resumes  \* resumes[r]: how often r has been resumed

vars == <<row, step, readers, task, active, request, proc, baseDone, lock,
          faults, fact, resumes>>
procVars == <<proc, baseDone, lock>>

TaskPcs == {"none", "claim", "read", "steps", "pause", "start", "perform", "effect",
            "succeed", "fail", "finish", "failrun", "exit"}

(* at: the step in hand; from: the state it was read in; last: whether it  *)
(* was the only one left; actor: the acting user read with the run; out:   *)
(* the step state a failure records.                                       *)
NoTask == [pc |-> "none", run |-> Nobody, proc |-> Nobody, cancelled |-> FALSE,
           at |-> 0, from |-> "pending", last |-> FALSE, actor |-> Nobody,
           out |-> "failed"]

Decisions == {"none", "resend", "mark_done"}

(* saw: how often the run had been resumed when the user decided (history). *)
NoRequest == [pc |-> "none", run |-> Nobody, proc |-> Nobody, user |-> Nobody,
              at |-> 0, decision |-> "none", saw |-> 0]

(* "none": never handed to the connector; "sent": handed over, no answer   *)
(* known; "answered": the connector's refusal or error came back; "done":  *)
(* its success came back; "consented": sent or done, and a user has since  *)
(* decided to send it again; "vouched": a user said that it is done.       *)
Facts == {"none", "sent", "answered", "done", "consented", "vouched"}

Task == [ pc        : TaskPcs,
          run       : Runs \cup {Nobody},
          proc      : Procs \cup {Nobody},
          cancelled : BOOLEAN,
          at        : 0 .. StepCount,
          from      : StepStates,
          last      : BOOLEAN,
          actor     : Users \cup {Nobody},
          out       : {"failed", "unknown"} ]

PendingRequest == [ pc       : {"none", "resume", "spawn", "failshutdown", "cancel"},
                    run      : Runs \cup {Nobody},
                    proc     : Procs \cup {Nobody},
                    user     : Users \cup {Nobody},
                    at       : 0 .. StepCount,
                    decision : Decisions,
                    saw      : Nat ]

TypeOK ==
    /\ DbTypeOK
    /\ task \in [Tasks -> Task]
    /\ active \in [Procs -> [Runs -> Tasks \cup {Nobody}]]
    /\ request \in [Readers -> PendingRequest]
    /\ proc \in [Procs -> {"down", "standby", "up", "draining", "stopping"}]
    /\ baseDone \in [Procs -> BOOLEAN]
    /\ lock \in Procs \cup {Nobody}
    /\ faults \in 0 .. MaxFaults
    /\ fact \in [Runs -> [Steps -> Facts]]
    /\ resumes \in [Runs -> Nat]

Init ==
    /\ DbInit
    /\ task = [t \in Tasks |-> NoTask]
    /\ active = [p \in Procs |-> [r \in Runs |-> Nobody]]
    /\ request = [c \in Readers |-> NoRequest]
    /\ proc = [p \in Procs |-> "down"]
    /\ baseDone = [p \in Procs |-> FALSE]
    /\ lock = Nobody
    /\ faults = 0
    /\ fact = [r \in Runs |-> [i \in Steps |-> "none"]]
    /\ resumes = [r \in Runs |-> 0]

-----------------------------------------------------------------------------
(* Helpers. *)

(* ctx.Err() of a goroutine: its own handle was cancelled, or the base     *)
(* context it derives from was.                                            *)
CtxDone(t) == task[t].cancelled \/ baseDone[task[t].proc]

Goto(t, pc) == task' = [task EXCEPT ![t].pc = pc]

(* At the head of the loop and at the end nothing read before is kept. *)
Forget(t, pc) ==
    task' = [task EXCEPT ![t] = [NoTask EXCEPT !.pc = pc, !.run = task[t].run,
                                               !.proc = task[t].proc,
                                               !.cancelled = task[t].cancelled]]

Record(t, o) == task' = [task EXCEPT ![t].pc = "fail", ![t].out = o]

NoFault == UNCHANGED faults

(* A store call that fails with neither ErrConflict nor ErrNotFound and    *)
(* changes nothing (an unavailable database, the 15 second bound).         *)
StoreError == faults < MaxFaults /\ faults' = faults + 1 /\ UNCHANGED dbVars

Conflict(can) == ~ can /\ UNCHANGED dbVars /\ NoFault

(* Variant: the run keeps executing under the user who started it. *)
ActingUser_Starter(r) == row[r].startedBy

ActingUser(r) == IF row[r].resumedBy # Nobody THEN row[r].resumedBy ELSE row[r].startedBy

KindOf(t) == row[task[t].run].plan[task[t].at]

(* Variant: a step left running by an earlier failure is started again. *)
Startable_Running == {"pending", "failed", "unknown", "running"}

Startable == {"pending", "failed", "unknown"}

(* The outcome of an operation must be decided by a user before it is sent *)
(* again (resumeDecisionRequired).                                         *)
DecisionRequired(r, i) ==
    step[r][i] = "unknown" /\ row[r].plan[i] \in {"connector_action", "config_push"}

SetFact(r, i, f) == fact' = [fact EXCEPT ![r][i] = f]

(* The load balancer routes to a ready process; without leader election    *)
(* every booted process is.                                                *)
Serving(p) == proc[p] = "up"

-----------------------------------------------------------------------------
(* Goroutines: spawn's closure, execute, runStep and what they call.       *)

(* Variant: the goroutine does not wait for the previous one to stop. *)
Claim_NoWait(t) ==
    LET r == task[t].run  p == task[t].proc IN
    /\ task[t].pc = "claim"
    /\ active' = [active EXCEPT ![p][r] = t]
    /\ Goto(t, "read")
    /\ UNCHANGED <<dbVars, request, procVars, faults, fact, resumes>>

Claim(t) ==
    LET r == task[t].run  p == task[t].proc IN
    /\ task[t].pc = "claim"
    /\ active[p][r] = Nobody
    /\ active' = [active EXCEPT ![p][r] = t]
    /\ Goto(t, "read")
    /\ UNCHANGED <<dbVars, request, procVars, faults, fact, resumes>>

(* claim: while another goroutine holds the slot, shutdown ends the wait. *)
GiveUp(t) ==
    /\ task[t].pc = "claim"
    /\ active[task[t].proc][task[t].run] # Nobody
    /\ CtxDone(t)
    /\ task' = [task EXCEPT ![t] = NoTask]
    /\ UNCHANGED <<dbVars, active, request, procVars, faults, fact, resumes>>

(* execute's loop test and the read of the run's row.  The row and the     *)
(* steps are two queries outside a transaction.                            *)
ReadRun(t) ==
    LET r == task[t].run IN
    /\ task[t].pc = "read"
    /\ \/ /\ CtxDone(t) \/ row[r].state # "running"
          /\ Forget(t, "exit") /\ NoFault /\ UNCHANGED dbVars
       \/ /\ ~ CtxDone(t) /\ row[r].state = "running"
          /\ task' = [task EXCEPT ![t].pc = "steps", ![t].actor = ActingUser(r)]
          /\ NoFault /\ UNCHANGED dbVars
       \/ ~ CtxDone(t) /\ StoreError /\ Goto(t, "failrun")
    /\ UNCHANGED <<active, request, procVars, fact, resumes>>

(* The read of the steps and the choice of what to do with the first one   *)
(* that has not succeeded.                                                 *)
Choose(t, i) ==
    LET s == step[task[t].run][i] IN
    \/ /\ row[task[t].run].plan[i] = "manual"
       /\ task' = [task EXCEPT ![t].pc = "pause", ![t].at = i]
    \/ /\ row[task[t].run].plan[i] # "manual"
       /\ \/ /\ s \in Startable
             /\ task' = [task EXCEPT ![t].pc = "start", ![t].at = i, ![t].from = s,
                           ![t].last = \A j \in Steps \ {i} :
                                         step[task[t].run][j] = "succeeded"]
          \/ /\ s = "running"
             /\ task' = [task EXCEPT ![t].pc = "fail", ![t].at = i, ![t].out = "unknown"]
          \/ s \notin Startable \cup {"running"} /\ Goto(t, "failrun")

(* Variant: nothing is left to execute once no step is pending. *)
ReadSteps_NonePending(t) ==
    LET r == task[t].run IN
    /\ task[t].pc = "steps"
    /\ \/ /\ \A i \in Steps : step[r][i] # "pending"
          /\ Goto(t, "finish") /\ NoFault /\ UNCHANGED dbVars
       \/ \E i \in Steps : FirstUnfinished(r, i) /\ Choose(t, i)
                           /\ NoFault /\ UNCHANGED dbVars
    /\ UNCHANGED <<active, request, procVars, fact, resumes>>

ReadSteps(t) ==
    LET r == task[t].run IN
    /\ task[t].pc = "steps"
    /\ \/ AllSucceeded(r) /\ Goto(t, "finish") /\ NoFault /\ UNCHANGED dbVars
       \/ \E i \in Steps : FirstUnfinished(r, i) /\ Choose(t, i)
                           /\ NoFault /\ UNCHANGED dbVars
       \/ StoreError /\ Goto(t, "failrun")
    /\ UNCHANGED <<active, request, procVars, fact, resumes>>

(* finishWithoutStep: any error is logged and the goroutine stops. *)
FinishWithoutStep(t) ==
    LET r == task[t].run IN
    /\ task[t].pc = "finish"
    /\ Forget(t, "exit")
    /\ \/ UpdateRunbookRun(r, "succeeded") /\ NoFault
       \/ Conflict(row[r].state = "running")
       \/ StoreError
    /\ UNCHANGED <<active, request, procVars, fact, resumes>>

Pause(t) ==
    LET r == task[t].run  i == task[t].at IN
    /\ task[t].pc = "pause"
    /\ \/ PauseRunbookRunOnManualStep(r, i) /\ NoFault /\ Forget(t, "exit")
       \/ Conflict(CanUpdateStep(r, i, "pending")) /\ Goto(t, "failrun")
       \/ StoreError /\ Goto(t, "failrun")
    /\ UNCHANGED <<active, request, procVars, fact, resumes>>

StartStep(t) ==
    LET r == task[t].run  i == task[t].at IN
    /\ task[t].pc = "start"
    /\ \/ UpdateRunbookRunStep(r, i, task[t].from, "running") /\ NoFault /\ Goto(t, "perform")
       \/ Conflict(CanUpdateStep(r, i, task[t].from)) /\ Forget(t, "exit")
       \/ StoreError /\ Goto(t, "failrun")
    /\ UNCHANGED <<active, request, procVars, fact, resumes>>

(* What perform returns when it failed: after a cancel or shutdown the     *)
(* outcome is not recorded.                                                *)
Fail(t, o) == IF CtxDone(t) THEN Forget(t, "exit") ELSE Record(t, o)

(* The acting user's grant is gone, the action's fingerprint changed, or   *)
(* the request is invalid: perform fails and nothing reaches the connector.*)
Refuse(t) ==
    /\ task[t].pc = "perform"
    /\ Fail(t, "failed")
    /\ UNCHANGED <<dbVars, active, request, procVars, faults, fact, resumes>>

(* The operation is handed to the connector. A config push does not begin  *)
(* once its context is done.                                               *)
Dispatch(t) ==
    /\ task[t].pc = "perform"
    /\ KindOf(t) = "config_push" => ~ CtxDone(t)
    /\ Goto(t, "effect")
    /\ SetFact(task[t].run, task[t].at, "sent")
    /\ UNCHANGED <<dbVars, active, request, procVars, faults, resumes>>

(* The operation returns.  An unverified config push and an action written *)
(* without a status are recorded unknown; a config push cut short by its   *)
(* two-minute bound has no known outcome either and is recorded failed.    *)
ReturnOk(t) ==
    /\ task[t].pc = "effect"
    /\ Goto(t, "succeed")
    /\ SetFact(task[t].run, task[t].at, "done")
    /\ UNCHANGED <<dbVars, active, request, procVars, faults, resumes>>

ReturnError(t) ==
    /\ task[t].pc = "effect"
    /\ \/ Fail(t, "failed") /\ SetFact(task[t].run, task[t].at, "answered")
       \/ /\ KindOf(t) \in {"connector_action", "config_push"}
          /\ Fail(t, "unknown") /\ UNCHANGED fact
       \/ KindOf(t) = "config_push" /\ Fail(t, "failed") /\ UNCHANGED fact
    /\ UNCHANGED <<dbVars, active, request, procVars, faults, resumes>>

(* Variant: a success that cannot be stored is recorded as a failed step. *)
RecordSuccess_AsFailed(t) ==
    LET r == task[t].run  i == task[t].at IN
    /\ task[t].pc = "succeed"
    /\ \/ /\ ~ task[t].last
          /\ UpdateRunbookRunStep(r, i, "running", "succeeded")
          /\ NoFault /\ Forget(t, "read")
       \/ StoreError /\ Record(t, "failed")
    /\ UNCHANGED <<active, request, procVars, fact, resumes>>

(* recordSuccess, attempted even when the context is done.  When it cannot *)
(* be stored the step becomes unknown (outcomeNotRecorded).                *)
RecordSuccess(t) ==
    LET r == task[t].run  i == task[t].at IN
    /\ task[t].pc = "succeed"
    /\ \/ /\ task[t].last
          /\ \/ FinishRunbookRun(r, i) /\ NoFault /\ Forget(t, "exit")
             \/ Conflict(CanFinish(r, i)) /\ Record(t, "unknown")
       \/ /\ ~ task[t].last
          /\ \/ UpdateRunbookRunStep(r, i, "running", "succeeded") /\ NoFault /\ Forget(t, "read")
             \/ Conflict(CanUpdateStep(r, i, "running")) /\ Record(t, "unknown")
       \/ StoreError /\ Record(t, "unknown")
    /\ UNCHANGED <<active, request, procVars, fact, resumes>>

(* Variant: a failure that cannot be stored is only logged. *)
RecordFailure_OnlyLogged(t) ==
    LET r == task[t].run  i == task[t].at IN
    /\ task[t].pc = "fail"
    /\ Forget(t, "exit")
    /\ \/ FailRunbookRunStep(r, i, task[t].out) /\ NoFault
       \/ Conflict(CanUpdateStep(r, i, "running"))
       \/ StoreError
    /\ UNCHANGED <<active, request, procVars, fact, resumes>>

RecordFailure(t) ==
    LET r == task[t].run  i == task[t].at IN
    /\ task[t].pc = "fail"
    /\ \/ FailRunbookRunStep(r, i, task[t].out) /\ NoFault /\ Forget(t, "exit")
       \/ Conflict(CanUpdateStep(r, i, "running")) /\ Goto(t, "failrun")
       \/ StoreError /\ Goto(t, "failrun")
    /\ UNCHANGED <<active, request, procVars, fact, resumes>>

(* failRun does nothing once the context is done, and is best effort. *)
FailRun(t) ==
    LET r == task[t].run IN
    /\ task[t].pc = "failrun"
    /\ Forget(t, "exit")
    /\ \/ ~ CtxDone(t) /\ UpdateRunbookRun(r, "failed") /\ NoFault
       \/ (CtxDone(t) \/ row[r].state # "running") /\ UNCHANGED dbVars /\ NoFault
       \/ ~ CtxDone(t) /\ StoreError
    /\ UNCHANGED <<active, request, procVars, fact, resumes>>

(* Variant: the registry keeps the entry of the goroutine that stopped. *)
Release_KeepsSlot(t) ==
    /\ task[t].pc = "exit"
    /\ task' = [task EXCEPT ![t] = NoTask]
    /\ UNCHANGED <<dbVars, active, request, procVars, faults, fact, resumes>>

(* The deferred release: the entry of the run is deleted, whoever is in it.*)
Release(t) ==
    /\ task[t].pc = "exit"
    /\ active' = [active EXCEPT ![task[t].proc][task[t].run] = Nobody]
    /\ task' = [task EXCEPT ![t] = NoTask]
    /\ UNCHANGED <<dbVars, request, procVars, faults, fact, resumes>>

TaskStep(t) ==
    \/ Claim(t) \/ GiveUp(t) \/ ReadRun(t) \/ ReadSteps(t) \/ FinishWithoutStep(t)
    \/ Pause(t) \/ StartStep(t) \/ Refuse(t) \/ Dispatch(t) \/ ReturnOk(t)
    \/ ReturnError(t) \/ RecordSuccess(t) \/ RecordFailure(t) \/ FailRun(t) \/ Release(t)

-----------------------------------------------------------------------------
(* HTTP requests.  A handler validates elevation and the caller's grants   *)
(* before it calls the executor; which users pass is left open.            *)

Idle(c) == request[c].pc = "none"
Done(c) == request' = [request EXCEPT ![c] = NoRequest]

Accepted(c, r, p, pc) ==
    request' = [request EXCEPT ![c] = [NoRequest EXCEPT !.pc = pc, !.run = r, !.proc = p]]

(* StartRun: Start executes at once, Request waits for another operator's  *)
(* approval and is refused when there is none.                             *)
Start(c, p, r, b, u, f) ==
    /\ Idle(c) /\ Serving(p)
    /\ CreateRunbookRun(r, b, u, f, FALSE)
    /\ Accepted(c, r, p, "spawn")
    /\ UNCHANGED <<task, active, procVars, faults, fact, resumes>>

Request(p, r, b, u, f) ==
    /\ Serving(p)
    /\ Users \ {u} # {}
    /\ CreateRunbookRun(r, b, u, f, TRUE)
    /\ UNCHANGED <<task, active, request, procVars, faults, fact, resumes>>

(* Variant: the user who asked for the run may approve it. *)
Approve_Self(c, p, r, u) ==
    /\ Idle(c) /\ Serving(p)
    /\ ApproveRunbookRun(r, u)
    /\ Accepted(c, r, p, "spawn")
    /\ UNCHANGED <<task, active, procVars, faults, fact, resumes>>

(* Variant: the approval is written although the run has expired since. *)
Approve_Expired(c, p, r, u) ==
    /\ Idle(c) /\ Serving(p)
    /\ row[r].state \in {"awaiting_approval", "expired"} /\ u # row[r].startedBy
    /\ row' = [row EXCEPT ![r].state = "running", ![r].approvedBy = u]
    /\ Touch(r)
    /\ Accepted(c, r, p, "spawn")
    /\ UNCHANGED <<step, task, active, procVars, faults, fact, resumes>>

(* approvalRun refuses the user who started the run. *)
Approve(c, p, r, u) ==
    /\ Idle(c) /\ Serving(p)
    /\ u # row[r].startedBy
    /\ ApproveRunbookRun(r, u)
    /\ Accepted(c, r, p, "spawn")
    /\ UNCHANGED <<task, active, procVars, faults, fact, resumes>>

Reject(p, r, u) ==
    /\ Serving(p)
    /\ u # row[r].startedBy
    /\ RejectRunbookRun(r)
    /\ UNCHANGED <<task, active, request, procVars, faults, fact, resumes>>

Confirm(c, p, r, i) ==
    /\ Idle(c) /\ Serving(p)
    /\ ConfirmRunbookRunStep(r, i)
    /\ Accepted(c, r, p, "spawn")
    /\ SetFact(r, i, "vouched")
    /\ UNCHANGED <<task, active, procVars, faults, resumes>>

(* resume up to its transaction: the run the user looked at is failed.  A  *)
(* decision must be tied to the revision and step the user saw, so looking *)
(* and the executor's own read are one step here: any write in between     *)
(* makes the request a conflict. A decision is ignored unless one is due.  *)
ResumeRead(c, p, r, u, d) ==
    /\ Idle(c) /\ Serving(p)
    /\ row[r].state = "failed"
    /\ resumes[r] < MaxResumes
    /\ \/ \E i \in Steps :
             /\ FirstUnfinished(r, i) /\ DecisionRequired(r, i) /\ d # "none"
             /\ request' = [request EXCEPT ![c] =
                   [pc |-> "resume", run |-> r, proc |-> p, user |-> u,
                    at |-> i, decision |-> d, saw |-> resumes[r]]]
       \/ /\ ~ \E i \in Steps : FirstUnfinished(r, i) /\ DecisionRequired(r, i)
          /\ d = "none"
          /\ request' = [request EXCEPT ![c] =
                [pc |-> "resume", run |-> r, proc |-> p, user |-> u,
                 at |-> 0, decision |-> "none", saw |-> resumes[r]]]
    /\ ReadRevision(c, r)
    /\ UNCHANGED <<row, step, task, active, procVars, faults, fact, resumes>>

ResumeCommit(c) ==
    LET r == request[c].run  i == request[c].at  u == request[c].user IN
    /\ request[c].pc = "resume"
    /\ \/ /\ request[c].decision = "mark_done"
          /\ ResumeRunbookRunMarkingStepDone(c, r, i, u)
          /\ SetFact(r, i, "vouched")
       \/ /\ request[c].decision = "resend"
          /\ FirstUnfinished(r, i)
          /\ ResumeRunbookRun(c, r, u)
          /\ fact' = [fact EXCEPT ![r][i] =
                        IF @ \in {"sent", "done"} THEN "consented" ELSE @]
       \/ /\ request[c].decision = "none"
          /\ ResumeRunbookRun(c, r, u)
          /\ UNCHANGED fact
    /\ resumes' = [resumes EXCEPT ![r] = @ + 1]
    /\ request' = [request EXCEPT ![c].pc = "spawn"]
    /\ UNCHANGED <<task, active, procVars, faults>>

(* ErrRunChanged or ErrConflict: somebody changed the run since it was read. *)
ResumeRefused(c) ==
    /\ request[c].pc = "resume"
    /\ ~ CanResume(c, request[c].run)
    /\ Done(c)
    /\ UNCHANGED <<dbVars, task, active, procVars, faults, fact, resumes>>

(* spawn.  awaitStopped only orders events and is cut short when the       *)
(* client goes away, so a spawn may come at any time after the write.      *)
Spawn(c, t) ==
    /\ request[c].pc = "spawn"
    /\ proc[request[c].proc] # "stopping"
    /\ task[t].pc = "none"
    /\ task' = [task EXCEPT ![t] = [NoTask EXCEPT !.pc = "claim", !.run = request[c].run,
                                                  !.proc = request[c].proc]]
    /\ Done(c)
    /\ UNCHANGED <<dbVars, active, procVars, faults, fact, resumes>>

(* TryGo refuses once the drain began. *)
SpawnRefused(c) ==
    /\ request[c].pc = "spawn"
    /\ proc[request[c].proc] = "stopping"
    /\ request' = [request EXCEPT ![c].pc = "failshutdown"]
    /\ UNCHANGED <<dbVars, task, active, procVars, faults, fact, resumes>>

FailShutdown(c) ==
    LET r == request[c].run IN
    /\ request[c].pc = "failshutdown"
    /\ Done(c)
    /\ \/ UpdateRunbookRun(r, "failed") /\ NoFault
       \/ Conflict(row[r].state = "running")
       \/ StoreError
    /\ UNCHANGED <<task, active, procVars, fact, resumes>>

Cancel(c, p, r) ==
    /\ Idle(c) /\ Serving(p)
    /\ CancelRunbookRun(r)
    /\ Accepted(c, r, p, "cancel")
    /\ UNCHANGED <<task, active, procVars, faults, fact, resumes>>

(* cancelActive reaches the goroutine that holds the slot in this process. *)
CancelActive(c) ==
    LET holder == active[request[c].proc][request[c].run] IN
    /\ request[c].pc = "cancel"
    /\ task' = [t \in Tasks |-> IF t = holder THEN [task[t] EXCEPT !.cancelled = TRUE]
                                              ELSE task[t]]
    /\ Done(c)
    /\ UNCHANGED <<dbVars, active, procVars, faults, fact, resumes>>

RequestStep(c) ==
    \/ ResumeCommit(c) \/ ResumeRefused(c) \/ SpawnRefused(c) \/ FailShutdown(c)
    \/ CancelActive(c) \/ \E t \in Tasks : Spawn(c, t)

UserAction ==
    \E p \in Procs, r \in Runs, u \in Users :
        \/ \E c \in Readers :
              \/ \E b \in Runbooks, f \in Plans : Start(c, p, r, b, u, f)
              \/ Approve(c, p, r, u)
              \/ \E d \in Decisions : ResumeRead(c, p, r, u, d)
        \/ \E b \in Runbooks, f \in Plans : Request(p, r, b, u, f)
        \/ Reject(p, r, u)

AnyUserAction ==
    \E c \in Readers, p \in Procs, r \in Runs :
        Cancel(c, p, r) \/ \E i \in Steps : Confirm(c, p, r, i)

-----------------------------------------------------------------------------
(* Processes and scheduled jobs. *)

ProcFrame == UNCHANGED <<active, request, task, faults, fact, resumes>>

(* Variant: a process that boots does not recover. *)
Boot_NoRecovery(p) ==
    /\ proc[p] = "down"
    /\ proc' = [proc EXCEPT ![p] = IF LeaderElection THEN "standby" ELSE "up"]
    /\ baseDone' = [baseDone EXCEPT ![p] = FALSE]
    /\ UNCHANGED <<dbVars, lock>>
    /\ ProcFrame

(* main: recovery runs before the process serves or campaigns. *)
Boot(p) ==
    /\ proc[p] = "down"
    /\ InterruptRunningRunbookRuns
    /\ proc' = [proc EXCEPT ![p] = IF LeaderElection THEN "standby" ELSE "up"]
    /\ baseDone' = [baseDone EXCEPT ![p] = FALSE]
    /\ UNCHANGED lock
    /\ ProcFrame

(* Campaign: the first to get the advisory lock reports ready. *)
Lead(p) ==
    /\ proc[p] = "standby"
    /\ lock = Nobody
    /\ lock' = p
    /\ proc' = [proc EXCEPT ![p] = "up"]
    /\ UNCHANGED <<dbVars, baseDone>>
    /\ ProcFrame

(* The pinned session dies, so the lock is free; Watch notices later.      *)
LoseLock(p) ==
    /\ lock = p
    /\ lock' = Nobody
    /\ UNCHANGED <<dbVars, proc, baseDone>>
    /\ ProcFrame

NoticeLoss(p) ==
    /\ LeaderElection
    /\ proc[p] = "up" /\ lock # p
    /\ proc' = [proc EXCEPT ![p] = "draining"]
    /\ UNCHANGED <<dbVars, lock, baseDone>>
    /\ ProcFrame

(* SIGTERM cancels the base context at once: every goroutine of the        *)
(* executor sees it before anything else stops.                            *)
Signal(p) ==
    /\ proc[p] \in {"standby", "up"}
    /\ ~ baseDone[p]
    /\ baseDone' = [baseDone EXCEPT ![p] = TRUE]
    /\ UNCHANGED <<dbVars, proc, lock>>
    /\ ProcFrame

(* Shutdown: not ready, no new requests, those in flight go on; a standby  *)
(* has none.                                                               *)
Drain(p) ==
    /\ baseDone[p]
    /\ \/ proc[p] = "up" /\ proc' = [proc EXCEPT ![p] = "draining"]
       \/ proc[p] = "standby" /\ proc' = [proc EXCEPT ![p] = "stopping"]
    /\ UNCHANGED <<dbVars, lock, baseDone>>
    /\ ProcFrame

(* Engine.Wait: TryGo refuses from here on. *)
StopWork(p) ==
    /\ proc[p] = "draining"
    /\ proc' = [proc EXCEPT ![p] = "stopping"]
    /\ UNCHANGED <<dbVars, lock, baseDone>>
    /\ ProcFrame

(* The process ends: drained, past its shutdown timeout, or crashed.       *)
Exit(p) ==
    /\ proc[p] # "down"
    /\ proc' = [proc EXCEPT ![p] = "down"]
    /\ lock' = IF lock = p THEN Nobody ELSE lock
    /\ task' = [t \in Tasks |-> IF task[t].proc = p THEN NoTask ELSE task[t]]
    /\ request' = [c \in Readers |-> IF request[c].proc = p THEN NoRequest ELSE request[c]]
    /\ active' = [active EXCEPT ![p] = [r \in Runs |-> Nobody]]
    /\ UNCHANGED <<dbVars, baseDone, faults, fact, resumes>>

(* The retention and approval-expiry jobs of a process that schedules.     *)
Sweep ==
    /\ \E p \in Procs : proc[p] \in {"up", "draining"}
    /\ \E r \in Runs : \/ ExpireOpenRunbookRun(r)
                       \/ ExpireAwaitingApprovalRunbookRun(r)
                       \/ PruneRunbookRun(r)
    /\ UNCHANGED <<task, active, request, procVars, faults, fact, resumes>>

ProcStep(p) ==
    Boot(p) \/ Lead(p) \/ LoseLock(p) \/ NoticeLoss(p) \/ Signal(p)
    \/ Drain(p) \/ StopWork(p) \/ Exit(p)

Next ==
    \/ \E t \in Tasks : TaskStep(t)
    \/ \E c \in Readers : RequestStep(c)
    \/ UserAction
    \/ AnyUserAction
    \/ \E p \in Procs : ProcStep(p)
    \/ Sweep

Spec == Init /\ [][Next]_vars

-----------------------------------------------------------------------------
(* Fairness.  The scheduler runs every goroutine and every handler; an     *)
(* operation returns (each is bounded: a connector call by its client's    *)
(* timeout, a wait by the step's timeout, a config push by two minutes);   *)
(* a signalled process drains, ends and is booted again by its supervisor. *)
Fairness ==
    /\ \A t \in Tasks : WF_vars(TaskStep(t))
    /\ \A c \in Readers : WF_vars(RequestStep(c))
    /\ \A p \in Procs : WF_vars(Boot(p)) /\ WF_vars(Drain(p)) /\ WF_vars(StopWork(p))
                        /\ WF_vars(proc[p] = "stopping" /\ Exit(p))

FairSpec == Spec /\ Fairness

-----------------------------------------------------------------------------
(* Properties of the executor.                                             *)

(* A goroutine past its claim and before its release. *)
Driving(t) == task[t].pc \notin {"none", "claim"}

(* The slot registry (claim, spawn's deferred release): in one process at  *)
(* most one goroutine drives a run, and it is the registered one, the one  *)
(* a cancel reaches.  A confirm or resume may spawn the next goroutine     *)
(* while the previous one is still stopping.                               *)
OneDriver ==
    \A t \in Tasks : Driving(t) => active[task[t].proc][task[t].run] = t

(* A run is succeeded only when every one of its steps is, although the    *)
(* executor decides "this was the last one" from a read made before the    *)
(* step ran (isLastUnfinished, FinishRunbookRun, finishWithoutStep).       *)
SucceededRunComplete ==
    \A r \in Runs : row[r].state = "succeeded" => AllSucceeded(r)

(* No step begins before all the earlier ones succeeded, whichever of the  *)
(* pauses, resumes, recoveries and marks-as-done led to it.                *)
StepsInOrder ==
    \A r \in Runs, i \in Steps :
        step[r][i] \notin {"pending", "skipped"} =>
            \A j \in 1 .. (i - 1) : step[r][j] = "succeeded"

(* A run waits for a user exactly while one of its steps does, and that    *)
(* step is a manual one: otherwise nobody could confirm it, or a           *)
(* confirmation would be refused for ever (Pause, Confirm, Interrupt).     *)
PausedOnManualStep ==
    \A r \in Runs :
        /\ row[r].state = "waiting_manual" <=> \E i \in Steps : step[r][i] = "waiting"
        /\ \A i \in Steps : step[r][i] = "waiting" => row[r].plan[i] = "manual"

(* While an operation is with the connector, the step says so: it is       *)
(* running, or unknown when the run was cancelled under it.  A step is     *)
(* never reported failed, skipped or done while its effect may come.       *)
EffectVisible ==
    \A t \in Tasks : task[t].pc = "effect" =>
        step[task[t].run][task[t].at] \in {"running", "unknown"}

(* What the record says of a step agrees with what happened to its         *)
(* operation: a success was answered or vouched for by a user, a step that *)
(* is pending, waiting or skipped never reached the connector, and a       *)
(* connector action recorded as failed is not one that was sent without an *)
(* answer or that worked.                                                  *)
TruthfulRecord ==
    \A r \in Runs, i \in Steps :
        /\ step[r][i] = "succeeded" => fact[r][i] \in {"done", "vouched"}
        /\ step[r][i] \in {"pending", "waiting", "skipped"} => fact[r][i] = "none"
        /\ (step[r][i] = "failed" /\ row[r].plan[i] = "connector_action") =>
              fact[r][i] \notin {"sent", "done"}

(* A connector action that may have been carried out is not sent again     *)
(* unless a user decided so (ResumeResend), whatever crashed, timed out or *)
(* failed to be stored in between.                                         *)
NoBlindResend ==
    [][\A t \in Tasks :
          (task[t].pc = "perform" /\ task'[t].pc = "effect" /\ KindOf(t) = "connector_action")
          => fact[task[t].run][task[t].at] \notin {"sent", "done"}]_vars

(* A decision about an unknown step (send it again, or call it done) is    *)
(* applied only to the attempt the user looked at: when another user       *)
(* resumed the run in between, the decision is refused (ErrRunChanged).    *)
DecisionOnSeenRevision ==
    [][\A c \in Readers :
          (request[c].pc = "resume" /\ request'[c].pc = "spawn"
             /\ request[c].decision # "none")
          => /\ request[c].saw = resumes[request[c].run]
             /\ FirstUnfinished(request[c].run, request[c].at)]_vars

(* An operation is sent under the user who started the run or, once        *)
(* somebody resumed it, under the one who resumed it last, although the    *)
(* goroutine read that user before it started the step.                    *)
ActorIsCurrent ==
    \A t \in Tasks : task[t].pc \in {"perform", "effect"} =>
        LET run == row[task[t].run] IN
        task[t].actor = IF run.resumedBy = Nobody THEN run.startedBy ELSE run.resumedBy

(* Two-person rule: nothing of a run that needs approval reaches a         *)
(* connector, or is even recorded as begun, before a user other than the   *)
(* one who asked for it approved it, through all resumes and recoveries.   *)
ApprovalGate ==
    \A r \in Runs, i \in Steps :
        (row[r].gated /\ (fact[r][i] # "none" \/ step[r][i] \notin {"pending", "skipped"}))
        => row[r].approvedBy \notin {Nobody, row[r].startedBy}

(* Somebody is about to look at run r again: a goroutine that has not yet  *)
(* stopped with it, or a handler that is about to spawn one.               *)
Driven(r) ==
    \/ \E t \in Tasks : task[t].run = r /\ task[t].pc \notin {"none", "exit"}
    \/ \E c \in Readers : request[c].run = r /\ request[c].pc \in {"spawn", "failshutdown"}

(* Some process serves and has not been told to stop. *)
Working == \E p \in Procs : Serving(p) /\ ~ baseDone[p]

(* No path leaves a run running with nothing driving it: it would show as  *)
(* in progress, and block its runbook, until the next restart.             *)
RunningIsDriven == Working => \A r \in Running : Driven(r)

(* The same when store calls of the executor may fail: it holds as it      *)
(* stands while none did, and one failed call is absorbed (failRun), except *)
(* when only the end of the run is left to record (finishWithoutStep).     *)
OneFaultAbsorbed ==
    Working =>
        \A r \in Running :
            Driven(r) \/ (AllSucceeded(r) /\ faults > 0) \/ faults > 1

(* Every running run stops running: it pauses, fails or finishes, or the   *)
(* process it runs in goes away and recovery fails it.                     *)
EveryRunStops == \A r \in Runs : row[r].state = "running" ~> row[r].state # "running"

(* Every goroutine stops and gives its slot back, so the one waiting for   *)
(* the slot gets it.                                                       *)
EveryTaskEnds == \A t \in Tasks : task[t].pc # "none" ~> task[t].pc = "none"

=============================================================================
