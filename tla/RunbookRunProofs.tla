--------------------------- MODULE RunbookRunProofs ---------------------------
(***************************************************************************)
(* The executor reaches the tables only through the transactions of the    *)
(* store, whatever the number of processes, goroutines and requests, with  *)
(* or without leader election, crashes and failed store calls.  So what    *)
(* RunbookStoreProofs shows of the store holds of the executor, and what   *)
(* the goroutines know of the steps they read is still true when they act. *)
(***************************************************************************)
EXTENDS RunbookRun, RunbookStoreProofs

(* The pcs at which a goroutine has a step in hand. *)
InHand == {"pause", "start", "perform", "effect", "succeed", "fail"}

Prefix(r, i) == \A j \in 1 .. (i - 1) : step[r][j] = "succeeded"

(* What a goroutine holds of its run: the run was created, the step in     *)
(* hand is the first unfinished one or was until it succeeded, and at      *)
(* "finish" nothing is left.                                               *)
TaskKnows(t) ==
    LET r == task[t].run  i == task[t].at IN
    /\ r \in Runs /\ task[t].proc \in Procs
    /\ row[r].state # "absent"
    /\ task[t].pc \in InHand => i \in Steps /\ Prefix(r, i)
    /\ task[t].pc = "pause" => row[r].plan[i] = "manual"
    /\ task[t].pc = "start" =>
          task[t].from \in {"pending", "failed", "unknown"} /\ row[r].plan[i] # "manual"
    /\ task[t].pc = "finish" => AllSucceeded(r)

(* What a handler holds between two calls. *)
RequestKnows(c) ==
    /\ request[c].run \in Runs /\ request[c].proc \in Procs
    /\ row[request[c].run].state # "absent"
    /\ request[c].pc = "resume" => request[c].user \in Users
    /\ (request[c].pc = "resume" /\ request[c].decision # "none") => request[c].at \in Steps

Knowledge ==
    /\ \A t \in Tasks : task[t].pc # "none" => TaskKnows(t)
    /\ \A c \in Readers : request[c].pc # "none" => RequestKnows(c)

(* Only a manual step is left to a user, and only another one is begun.    *)
FitsKind(r, i) ==
    /\ step'[r][i] = "waiting" => row[r].plan[i] = "manual"
    /\ step'[r][i] = "running" => row[r].plan[i] # "manual"

(* A run that waits for approval runs only when another user approved it.  *)
ByAnother(r) ==
    (row[r].state = "awaiting_approval" /\ row'[r].state = "running")
        => row'[r].approvedBy \notin {Nobody, row[r].startedBy}

(* Only an idle handler reads a revision. *)
FreshReaders(r) ==
    \A c \in Readers : c \in readers'[r] => c \in readers[r] \/ request[c].pc = "none"

(* A store step, a step write only of a step whose turn it is, a run made  *)
(* succeeded only when nothing is left, and approved only by another user. *)
OrderedNext ==
    \/ \E r \in Runs :
          /\ RunWrite(r)
          /\ row'[r].state = "succeeded" => row[r].state = "succeeded" \/ AllSucceeded(r)
          /\ ByAnother(r) /\ FreshReaders(r)
    \/ \E r \in Runs, i \in Steps : StepWrite(r, i) /\ Prefix(r, i) /\ FitsKind(r, i)
    \/ InterruptRunningRunbookRuns

OrderedOrNot == OrderedNext \/ UNCHANGED dbVars

LEMMA Touched ==
    ASSUME TypeOK, NEW r \in Runs, Touch(r)
    PROVE  readers'[r] = {} /\ FreshReaders(r)
BY DEF TypeOK, DbTypeOK, Touch, FreshReaders

(* The row writes other than "the run succeeded" do not make it so.        *)
LEMMA Unfinishing ==
    ASSUME TypeOK, NEW r \in Runs,
           \/ \E b \in Runbooks, u \in Users, p \in Plans, gate \in BOOLEAN :
                 CreateRunbookRun(r, b, u, p, gate)
           \/ \E u \in Users : u # row[r].startedBy /\ ApproveRunbookRun(r, u)
           \/ RejectRunbookRun(r) \/ UpdateRunbookRun(r, "failed") \/ CancelRunbookRun(r)
           \/ \E c \in Readers, u \in Users : ResumeRunbookRun(c, r, u)
           \/ ExpireOpenRunbookRun(r) \/ ExpireAwaitingApprovalRunbookRun(r)
           \/ PruneRunbookRun(r)
           \/ \E c \in Readers : Idle(c) /\ ReadRevision(c, r) /\ UNCHANGED <<row, step>>
    PROVE  OrderedNext
<1> USE DEF TypeOK, DbTypeOK, Row, SetRun
<1>1. (row'[r].state = "succeeded" => row[r].state = "succeeded") /\ ByAnother(r)
  <2>1. CASE \E b \in Runbooks, u \in Users, p \in Plans, gate \in BOOLEAN :
               CreateRunbookRun(r, b, u, p, gate)
    <3>1. PICK b \in Runbooks, u \in Users, p \in Plans, gate \in BOOLEAN :
            CreateRunbookRun(r, b, u, p, gate)
      BY <2>1
    <3>2. /\ row[r].state = "absent"
          /\ row'[r].state = IF gate THEN "awaiting_approval" ELSE "running"
      BY <3>1 DEF CreateRunbookRun, NoRow
    <3> QED
      BY <3>2 DEF ByAnother
  <2>2. CASE \E u \in Users : u # row[r].startedBy /\ ApproveRunbookRun(r, u)
    <3>1. PICK u \in Users : u # row[r].startedBy /\ ApproveRunbookRun(r, u)
      BY <2>2
    <3>2. row' = [row EXCEPT ![r].state = "running", ![r].approvedBy = u]
      BY <3>1 DEF ApproveRunbookRun
    <3>3. row'[r].state = "running" /\ row'[r].approvedBy = u
      BY <3>2
    <3> QED
      BY <3>1, <3>3, StoreAssumption DEF ByAnother
  <2>3. CASE \E c \in Readers, u \in Users : ResumeRunbookRun(c, r, u)
    <3>1. PICK c \in Readers, u \in Users : ResumeRunbookRun(c, r, u)
      BY <2>3
    <3>2. row[r].state = "failed"
      BY <3>1 DEF ResumeRunbookRun, CanResume
    <3>3. row'[r].state = "running"
      <4>1. row' = [row EXCEPT ![r].state = "running", ![r].resumedBy = u]
        BY <3>1 DEF ResumeRunbookRun
      <4> QED
        BY <4>1
    <3> QED
      BY <3>2, <3>3 DEF ByAnother
  <2>4. CASE RejectRunbookRun(r) \/ UpdateRunbookRun(r, "failed") \/ CancelRunbookRun(r)
    <3>1. row'[r].state \in {"rejected", "failed", "cancelled"}
      BY <2>4 DEF RejectRunbookRun, UpdateRunbookRun, CancelRunbookRun
    <3> QED
      BY <3>1 DEF ByAnother
  <2>5. CASE \/ ExpireOpenRunbookRun(r) \/ ExpireAwaitingApprovalRunbookRun(r)
             \/ PruneRunbookRun(r)
    <3>1. row'[r].state \in {"expired", "pruned"}
      BY <2>5 DEF ExpireOpenRunbookRun, ExpireAwaitingApprovalRunbookRun, PruneRunbookRun
    <3> QED
      BY <3>1 DEF ByAnother
  <2>6. CASE \E c \in Readers : Idle(c) /\ ReadRevision(c, r) /\ UNCHANGED <<row, step>>
    BY <2>6 DEF ByAnother
  <2> QED
    BY <2>1, <2>2, <2>3, <2>4, <2>5, <2>6
<1>2. RunWrite(r)
  BY DEF RunWrite
<1>3. FreshReaders(r)
  <2>1. CASE Touch(r)
    BY <2>1, Touched
  <2>2. ASSUME NEW c \in Readers, Idle(c), ReadRevision(c, r)
        PROVE  FreshReaders(r)
    BY <2>2 DEF ReadRevision, Idle, FreshReaders
  <2> QED
    BY <2>1, <2>2
       DEF CreateRunbookRun, ApproveRunbookRun, RejectRunbookRun, UpdateRunbookRun,
           CancelRunbookRun, ResumeRunbookRun, ExpireOpenRunbookRun,
           ExpireAwaitingApprovalRunbookRun, PruneRunbookRun
<1> QED
  BY <1>1, <1>2, <1>3 DEF OrderedNext

(* What a step write sets, seen afterwards. *)
LEMMA StepSet ==
    ASSUME TypeOK, NEW r \in Runs, NEW i \in Steps, NEW s
    PROVE  SetStep(r, i, s) => step'[r][i] = s
BY DEF TypeOK, DbTypeOK, SetStep

LEMMA TaskImplements ==
    ASSUME TypeOK, Knowledge, NEW t \in Tasks, TaskStep(t)
    PROVE  OrderedOrNot
<1> DEFINE r == task[t].run  i == task[t].at
<1> USE DEF OrderedOrNot
<1>1. CASE Claim(t) \/ GiveUp(t) \/ Refuse(t) \/ Dispatch(t) \/ ReturnOk(t)
           \/ ReturnError(t) \/ Release(t)
  BY <1>1 DEF Claim, GiveUp, Refuse, Dispatch, ReturnOk, ReturnError, Release
<1>2. CASE ReadRun(t) \/ ReadSteps(t)
  BY <1>2 DEF ReadRun, ReadSteps, StoreError
<1>3. CASE FinishWithoutStep(t)
  <2>1. r \in Runs /\ AllSucceeded(r)
    BY <1>3 DEF FinishWithoutStep, Knowledge, TaskKnows
  <2>2. UpdateRunbookRun(r, "succeeded") \/ UNCHANGED dbVars
    BY <1>3 DEF FinishWithoutStep, StoreError, Conflict
  <2>3. UpdateRunbookRun(r, "succeeded") => ByAnother(r) /\ FreshReaders(r)
    BY <2>1, Touched DEF UpdateRunbookRun, ByAnother
  <2> QED
    BY <2>1, <2>2, <2>3 DEF OrderedNext, RunWrite
<1>4. CASE Pause(t)
  <2>1. r \in Runs /\ i \in Steps /\ Prefix(r, i) /\ row[r].plan[i] = "manual"
    BY <1>4 DEF Pause, Knowledge, TaskKnows, InHand
  <2>2. PauseRunbookRunOnManualStep(r, i) \/ UNCHANGED dbVars
    BY <1>4 DEF Pause, StoreError, Conflict
  <2>3. PauseRunbookRunOnManualStep(r, i) => FitsKind(r, i)
    BY <2>1, StepSet DEF PauseRunbookRunOnManualStep, TransitionWithStep, FitsKind
  <2> QED
    BY <2>1, <2>2, <2>3 DEF OrderedNext, StepWrite
<1>5. CASE StartStep(t)
  <2>1. r \in Runs /\ i \in Steps /\ Prefix(r, i)
        /\ task[t].from \in {"pending", "failed", "unknown"} /\ row[r].plan[i] # "manual"
    BY <1>5 DEF StartStep, Knowledge, TaskKnows, InHand
  <2>2. UpdateRunbookRunStep(r, i, task[t].from, "running") \/ UNCHANGED dbVars
    BY <1>5 DEF StartStep, StoreError, Conflict
  <2>3. UpdateRunbookRunStep(r, i, task[t].from, "running") => FitsKind(r, i)
    BY <2>1, StepSet DEF UpdateRunbookRunStep, FitsKind
  <2> QED
    BY <2>1, <2>2, <2>3 DEF OrderedNext, StepWrite, StartStepWrite
<1>6. CASE RecordSuccess(t)
  <2>1. r \in Runs /\ i \in Steps /\ Prefix(r, i)
    BY <1>6 DEF RecordSuccess, Knowledge, TaskKnows, InHand
  <2>2. \/ FinishRunbookRun(r, i)
        \/ UpdateRunbookRunStep(r, i, "running", "succeeded")
        \/ UNCHANGED dbVars
    BY <1>6 DEF RecordSuccess, StoreError, Conflict
  <2>3. FinishRunbookRun(r, i) \/ UpdateRunbookRunStep(r, i, "running", "succeeded")
          => FitsKind(r, i)
    BY <2>1, StepSet DEF FinishRunbookRun, TransitionWithStep, UpdateRunbookRunStep, FitsKind
  <2> QED
    BY <2>1, <2>2, <2>3 DEF OrderedNext, StepWrite
<1>7. CASE RecordFailure(t)
  <2>1. r \in Runs /\ i \in Steps /\ Prefix(r, i) /\ task[t].out \in {"failed", "unknown"}
    BY <1>7 DEF RecordFailure, Knowledge, TaskKnows, InHand, TypeOK, Task
  <2>2. FailRunbookRunStep(r, i, task[t].out) \/ UNCHANGED dbVars
    BY <1>7 DEF RecordFailure, StoreError, Conflict
  <2>3. FailRunbookRunStep(r, i, task[t].out) => FitsKind(r, i)
    BY <2>1, StepSet DEF FailRunbookRunStep, TransitionWithStep, FitsKind
  <2> QED
    BY <2>1, <2>2, <2>3 DEF OrderedNext, StepWrite
<1>8. CASE FailRun(t)
  <2>1. r \in Runs
    BY <1>8 DEF FailRun, Knowledge, TaskKnows
  <2>2. UpdateRunbookRun(r, "failed") \/ UNCHANGED dbVars
    BY <1>8 DEF FailRun, StoreError
  <2> QED
    BY <2>1, <2>2, Unfinishing
<1> QED
  BY <1>1, <1>2, <1>3, <1>4, <1>5, <1>6, <1>7, <1>8 DEF TaskStep

LEMMA RequestImplements ==
    ASSUME TypeOK, Knowledge, NEW c \in Readers, RequestStep(c)
    PROVE  OrderedOrNot
<1> DEFINE r == request[c].run  i == request[c].at  u == request[c].user
<1> USE DEF OrderedOrNot
<1>1. CASE ResumeRefused(c) \/ SpawnRefused(c) \/ CancelActive(c) \/ \E t \in Tasks : Spawn(c, t)
  BY <1>1 DEF ResumeRefused, SpawnRefused, CancelActive, Spawn
<1>2. CASE ResumeCommit(c)
  <2>1. r \in Runs /\ u \in Users
    BY <1>2 DEF ResumeCommit, Knowledge, RequestKnows
  <2>2. CASE request[c].decision = "mark_done" /\ ResumeRunbookRunMarkingStepDone(c, r, i, u)
    <3>1. i \in Steps
      BY <1>2, <2>2 DEF ResumeCommit, Knowledge, RequestKnows
    <3>2. Prefix(r, i)
      BY <2>2 DEF ResumeRunbookRunMarkingStepDone, CanMarkDone, FirstUnfinished, Prefix
    <3>3. FitsKind(r, i)
      BY <2>1, <2>2, <3>1, StepSet DEF ResumeRunbookRunMarkingStepDone, FitsKind
    <3> QED
      BY <2>1, <2>2, <3>1, <3>2, <3>3 DEF OrderedNext, StepWrite
  <2>3. CASE ResumeRunbookRun(c, r, u)
    BY <2>1, <2>3, Unfinishing
  <2> QED
    BY <1>2, <2>2, <2>3 DEF ResumeCommit
<1>3. CASE FailShutdown(c)
  <2>1. r \in Runs
    BY <1>3 DEF FailShutdown, Knowledge, RequestKnows
  <2>2. UpdateRunbookRun(r, "failed") \/ UNCHANGED dbVars
    BY <1>3 DEF FailShutdown, StoreError, Conflict
  <2> QED
    BY <2>1, <2>2, Unfinishing
<1> QED
  BY <1>1, <1>2, <1>3 DEF RequestStep

LEMMA UserImplements ==
    ASSUME TypeOK, StepsInOrder, UserAction \/ AnyUserAction
    PROVE  OrderedOrNot
<1> USE DEF OrderedOrNot
<1>1. ASSUME NEW p \in Procs, NEW r \in Runs, NEW u \in Users,
             NEW b \in Runbooks, NEW f \in Plans,
             Request(p, r, b, u, f) \/ \E c \in Readers : Start(c, p, r, b, u, f)
      PROVE  OrderedNext
  BY <1>1, Unfinishing DEF Start, Request
<1>2. ASSUME NEW c \in Readers, NEW p \in Procs, NEW r \in Runs, NEW u \in Users,
             Approve(c, p, r, u) \/ Reject(p, r, u) \/ Cancel(c, p, r)
               \/ \E d \in Decisions : ResumeRead(c, p, r, u, d)
      PROVE  OrderedNext
  <2>1. CASE Approve(c, p, r, u)
    BY <2>1, Unfinishing DEF Approve
  <2>2. CASE Reject(p, r, u) \/ Cancel(c, p, r)
    BY <2>2, Unfinishing DEF Reject, Cancel
  <2>3. CASE \E d \in Decisions : ResumeRead(c, p, r, u, d)
    <3>1. Idle(c) /\ ReadRevision(c, r) /\ UNCHANGED <<row, step>>
      BY <2>3 DEF ResumeRead
    <3> QED
      BY <3>1, Unfinishing
  <2> QED
    BY <1>2, <2>1, <2>2, <2>3
<1>3. ASSUME NEW p \in Procs, NEW r \in Runs, NEW u \in Users, Reject(p, r, u)
      PROVE  OrderedNext
  BY <1>3, Unfinishing DEF Reject
<1>4. ASSUME NEW c \in Readers, NEW p \in Procs, NEW r \in Runs, Cancel(c, p, r)
      PROVE  OrderedNext
  BY <1>4, Unfinishing DEF Cancel
<1>5. ASSUME NEW c \in Readers, NEW p \in Procs, NEW r \in Runs, NEW i \in Steps,
             Confirm(c, p, r, i)
      PROVE  OrderedNext
  <2>1. ConfirmRunbookRunStep(r, i)
    BY <1>5 DEF Confirm
  <2>2. Prefix(r, i)
    BY <2>1 DEF ConfirmRunbookRunStep, StepsInOrder, Prefix
  <2>3. FitsKind(r, i)
    BY <2>1, StepSet DEF ConfirmRunbookRunStep, FitsKind
  <2> QED
    BY <2>1, <2>2, <2>3 DEF OrderedNext, StepWrite
<1> QED
  BY <1>1, <1>2, <1>3, <1>4, <1>5 DEF UserAction, AnyUserAction

LEMMA ProcImplements ==
    ASSUME TypeOK, (\E p \in Procs : ProcStep(p)) \/ Sweep
    PROVE  OrderedOrNot
<1> USE DEF OrderedOrNot
<1>1. ASSUME NEW p \in Procs, ProcStep(p)
      PROVE  OrderedOrNot
  BY <1>1 DEF ProcStep, Boot, Lead, LoseLock, NoticeLoss, Signal, Drain, StopWork, Exit,
              OrderedNext
<1>2. CASE Sweep
  <2>1. PICK r \in Runs : \/ ExpireOpenRunbookRun(r)
                         \/ ExpireAwaitingApprovalRunbookRun(r)
                         \/ PruneRunbookRun(r)
    BY <1>2 DEF Sweep
  <2> QED
    BY <2>1, Unfinishing
<1> QED
  BY <1>1, <1>2

(* Every step of the executor is a step of the store, in the order of the  *)
(* plan, or leaves the tables alone.                                       *)
LEMMA Implements ==
    ASSUME TypeOK, Knowledge, StepsInOrder, [Next]_vars
    PROVE  OrderedOrNot
<1>1. CASE Next
  BY <1>1, TaskImplements, RequestImplements, UserImplements, ProcImplements DEF Next
<1>2. CASE UNCHANGED vars
  BY <1>2 DEF vars, dbVars, OrderedOrNot
<1> QED
  BY <1>1, <1>2

-----------------------------------------------------------------------------
(* Type correctness, variable by variable.                                 *)

(* The ways a goroutine's local state changes keep it well typed. *)
LEMMA TaskUpdateType ==
    ASSUME task \in [Tasks -> Task], NEW t \in Tasks
    PROVE  /\ \A pc \in TaskPcs : Goto(t, pc) \/ Forget(t, pc) => task' \in [Tasks -> Task]
           /\ \A o \in {"failed", "unknown"} : Record(t, o) => task' \in [Tasks -> Task]
           /\ [task EXCEPT ![t] = NoTask] \in [Tasks -> Task]
<1>1. ASSUME NEW pc \in TaskPcs, Goto(t, pc)
      PROVE  task' \in [Tasks -> Task]
  <2>1. [task[t] EXCEPT !.pc = pc] \in Task
    BY DEF Task
  <2> QED
    BY <1>1, <2>1 DEF Goto
<1>2. ASSUME NEW pc \in TaskPcs, Forget(t, pc)
      PROVE  task' \in [Tasks -> Task]
  <2>0. /\ task[t].run \in Runs \cup {Nobody} /\ task[t].proc \in Procs \cup {Nobody}
        /\ task[t].cancelled \in BOOLEAN
    BY DEF Task
  <2>1. [NoTask EXCEPT !.pc = pc, !.run = task[t].run, !.proc = task[t].proc,
                       !.cancelled = task[t].cancelled] \in Task
    <3>1. NoTask \in Task
      BY StoreAssumption DEF NoTask, Task, TaskPcs, StepStates
    <3> QED
      BY <2>0, <3>1 DEF Task
  <2> QED
    BY <1>2, <2>1 DEF Forget
<1>3. ASSUME NEW o \in {"failed", "unknown"}, Record(t, o)
      PROVE  task' \in [Tasks -> Task]
  <2>1. [task[t] EXCEPT !.pc = "fail", !.out = o] \in Task
    BY DEF Task, TaskPcs
  <2> QED
    BY <1>3, <2>1 DEF Record
<1>4. NoTask \in Task
  BY StoreAssumption DEF NoTask, Task, TaskPcs, StepStates
<1> QED
  BY <1>1, <1>2, <1>3, <1>4

(* fact changes in one place at a time, if at all. *)
LEMMA FactType ==
    ASSUME fact \in [Runs -> [Steps -> Facts]], NEW r \in Runs, NEW i \in Steps,
           NEW f \in Facts, SetFact(r, i, f)
    PROVE  fact' \in [Runs -> [Steps -> Facts]]
<1>1. [fact[r] EXCEPT ![i] = f] \in [Steps -> Facts]
  OBVIOUS
<1> QED
  BY <1>1 DEF SetFact

LEMMA FaultType ==
    ASSUME faults \in 0 .. MaxFaults
    PROVE  /\ StoreError => faults' \in 0 .. MaxFaults
           /\ NoFault => faults' \in 0 .. MaxFaults
           /\ \A can \in BOOLEAN : Conflict(can) => faults' \in 0 .. MaxFaults
BY ExecutorAssumption DEF StoreError, NoFault, Conflict

(* Everything that is not a table. *)
LocalTypeOK ==
    /\ task \in [Tasks -> Task]
    /\ active \in [Procs -> [Runs -> Tasks \cup {Nobody}]]
    /\ request \in [Readers -> PendingRequest]
    /\ proc \in [Procs -> {"down", "standby", "up", "draining", "stopping"}]
    /\ baseDone \in [Procs -> BOOLEAN]
    /\ lock \in Procs \cup {Nobody}
    /\ faults \in 0 .. MaxFaults
    /\ fact \in [Runs -> [Steps -> Facts]]
    /\ resumes \in [Runs -> Nat]

LEMMA ReadsType ==
    ASSUME TypeOK, NEW t \in Tasks, task[t].run \in Runs, ReadRun(t) \/ ReadSteps(t)
    PROVE  task' \in [Tasks -> Task]
<1> DEFINE r == task[t].run
<1>0. /\ task \in [Tasks -> Task] /\ task[t] \in Task
      /\ {"exit", "failrun", "finish", "steps", "pause", "start", "fail"} \subseteq TaskPcs
  BY DEF TypeOK, TaskPcs
<1>1. CASE ReadRun(t)
  <2>1. CASE Forget(t, "exit") \/ Goto(t, "failrun")
    BY <1>0, <2>1, TaskUpdateType
  <2>2. CASE task' = [task EXCEPT ![t].pc = "steps", ![t].actor = ActingUser(r)]
    <3>1. ActingUser(r) \in Users \cup {Nobody}
      BY DEF TypeOK, DbTypeOK, Row, ActingUser
    <3>2. [task[t] EXCEPT !.pc = "steps", !.actor = ActingUser(r)] \in Task
      BY <1>0, <3>1 DEF Task
    <3> QED
      BY <1>0, <2>2, <3>2
  <2> QED
    BY <1>1, <2>1, <2>2 DEF ReadRun
<1>2. CASE ReadSteps(t)
  <2>1. CASE Goto(t, "finish") \/ Goto(t, "failrun")
    BY <1>0, <2>1, TaskUpdateType
  <2>2. ASSUME NEW i \in Steps, Choose(t, i)
        PROVE  task' \in [Tasks -> Task]
    <3>0. i \in 0 .. StepCount
      BY StoreAssumption DEF Steps
    <3>1. CASE task' = [task EXCEPT ![t].pc = "pause", ![t].at = i]
      <4>1. [task[t] EXCEPT !.pc = "pause", !.at = i] \in Task
        BY <1>0, <3>0 DEF Task
      <4> QED
        BY <1>0, <3>1, <4>1
    <3>2. ASSUME NEW b \in BOOLEAN, NEW s \in StepStates,
                 task' = [task EXCEPT ![t].pc = "start", ![t].at = i, ![t].from = s,
                                      ![t].last = b]
          PROVE  task' \in [Tasks -> Task]
      <4>1. [task[t] EXCEPT !.pc = "start", !.at = i, !.from = s, !.last = b] \in Task
        BY <1>0, <3>0 DEF Task
      <4> QED
        BY <1>0, <3>2, <4>1
    <3>3. CASE task' = [task EXCEPT ![t].pc = "fail", ![t].at = i, ![t].out = "unknown"]
      <4>1. [task[t] EXCEPT !.pc = "fail", !.at = i, !.out = "unknown"] \in Task
        BY <1>0, <3>0 DEF Task
      <4> QED
        BY <1>0, <3>3, <4>1
    <3>4. CASE Goto(t, "failrun")
      BY <1>0, <3>4, TaskUpdateType
    <3>5. step[r][i] \in StepStates
      BY DEF TypeOK, DbTypeOK
    <3> QED
      BY <2>2, <3>1, <3>2, <3>3, <3>4, <3>5 DEF Choose
  <2> QED
    BY <1>2, <2>1, <2>2 DEF ReadSteps
<1> QED
  BY <1>1, <1>2

LEMMA TaskStepType ==
    ASSUME TypeOK, Knowledge, NEW t \in Tasks, TaskStep(t)
    PROVE  LocalTypeOK'
<1> DEFINE r == task[t].run  i == task[t].at  p == task[t].proc
<1>0. LocalTypeOK /\ task \in [Tasks -> Task] /\ faults \in 0 .. MaxFaults
  BY DEF TypeOK, LocalTypeOK
<1>a. /\ TaskPcs = {"none", "claim", "read", "steps", "pause", "start", "perform", "effect",
                    "succeed", "fail", "finish", "failrun", "exit"}
  BY DEF TaskPcs
<1>b. task[t].pc # "none" => r \in Runs /\ p \in Procs
  BY DEF Knowledge, TaskKnows
<1>c. task[t].pc \in {"perform", "effect"} => i \in Steps
  BY <1>b DEF Knowledge, TaskKnows, InHand
<1>1. CASE Claim(t)
  <2>1. task' \in [Tasks -> Task]
    BY <1>0, <1>1, <1>a, TaskUpdateType DEF Claim
  <2>2. active' \in [Procs -> [Runs -> Tasks \cup {Nobody}]]
    BY <1>0, <1>1, <1>b DEF Claim, LocalTypeOK
  <2> QED
    BY <1>0, <1>1, <2>1, <2>2 DEF Claim, LocalTypeOK, procVars
<1>2. CASE GiveUp(t)
  <2>1. task' \in [Tasks -> Task]
    BY <1>0, <1>2, TaskUpdateType DEF GiveUp
  <2> QED
    BY <1>0, <1>2, <2>1 DEF GiveUp, LocalTypeOK, procVars
<1>3. CASE ReadRun(t) \/ ReadSteps(t)
  <2>1. task' \in [Tasks -> Task]
    BY <1>3, <1>b, ReadsType DEF ReadRun, ReadSteps
  <2>2. faults' \in 0 .. MaxFaults
    BY <1>0, <1>3, FaultType DEF ReadRun, ReadSteps
  <2> QED
    BY <1>0, <1>3, <2>1, <2>2 DEF ReadRun, ReadSteps, LocalTypeOK, procVars
<1>4. CASE FinishWithoutStep(t) \/ Pause(t) \/ StartStep(t) \/ FailRun(t)
  <2>1. task' \in [Tasks -> Task]
    BY <1>0, <1>4, <1>a, TaskUpdateType DEF FinishWithoutStep, Pause, StartStep, FailRun
  <2>2. faults' \in 0 .. MaxFaults
    BY <1>0, <1>4, FaultType
       DEF FinishWithoutStep, Pause, StartStep, FailRun, Conflict, NoFault
  <2> QED
    BY <1>0, <1>4, <2>1, <2>2
       DEF FinishWithoutStep, Pause, StartStep, FailRun, LocalTypeOK, procVars
<1>5. CASE RecordSuccess(t) \/ RecordFailure(t)
  <2>1. task' \in [Tasks -> Task]
    BY <1>0, <1>5, <1>a, TaskUpdateType DEF RecordSuccess, RecordFailure
  <2>2. faults' \in 0 .. MaxFaults
    BY <1>0, <1>5, FaultType DEF RecordSuccess, RecordFailure, Conflict, NoFault
  <2> QED
    BY <1>0, <1>5, <2>1, <2>2 DEF RecordSuccess, RecordFailure, LocalTypeOK, procVars
<1>6. CASE Refuse(t) \/ Dispatch(t) \/ ReturnOk(t) \/ ReturnError(t)
  <2>1. task' \in [Tasks -> Task]
    BY <1>0, <1>6, <1>a, TaskUpdateType DEF Refuse, Dispatch, ReturnOk, ReturnError, Fail
  <2>2. fact' \in [Runs -> [Steps -> Facts]]
    BY <1>0, <1>6, <1>b, <1>c, FactType
       DEF Refuse, Dispatch, ReturnOk, ReturnError, LocalTypeOK, Facts
  <2> QED
    BY <1>0, <1>6, <2>1, <2>2
       DEF Refuse, Dispatch, ReturnOk, ReturnError, LocalTypeOK, procVars
<1>7. CASE Release(t)
  <2>1. task' \in [Tasks -> Task]
    BY <1>0, <1>7, TaskUpdateType DEF Release
  <2>2. active' \in [Procs -> [Runs -> Tasks \cup {Nobody}]]
    BY <1>0, <1>7, <1>b DEF Release, LocalTypeOK
  <2> QED
    BY <1>0, <1>7, <2>1, <2>2 DEF Release, LocalTypeOK, procVars
<1> QED
  BY <1>1, <1>2, <1>3, <1>4, <1>5, <1>6, <1>7 DEF TaskStep

(* The ways a request changes keep it well typed. *)
LEMMA RequestUpdateType ==
    ASSUME request \in [Readers -> PendingRequest], NEW c \in Readers
    PROVE  /\ Done(c) => request' \in [Readers -> PendingRequest]
           /\ \A pc \in {"spawn", "failshutdown", "cancel"} :
                request' = [request EXCEPT ![c].pc = pc]
                  => request' \in [Readers -> PendingRequest]
           /\ \A r \in Runs, p \in Procs, pc \in {"spawn", "cancel"} :
                Accepted(c, r, p, pc) => request' \in [Readers -> PendingRequest]
<1>1. NoRequest \in PendingRequest
  BY StoreAssumption DEF NoRequest, PendingRequest, Decisions
<1>2. ASSUME NEW pc \in {"spawn", "failshutdown", "cancel"}
      PROVE  [request[c] EXCEPT !.pc = pc] \in PendingRequest
  BY <1>2 DEF PendingRequest
<1>3. ASSUME NEW r \in Runs, NEW p \in Procs, NEW pc \in {"spawn", "cancel"}
      PROVE  [NoRequest EXCEPT !.pc = pc, !.run = r, !.proc = p] \in PendingRequest
  BY <1>1, <1>3 DEF PendingRequest
<1>4. Done(c) => request' \in [Readers -> PendingRequest]
  BY <1>1 DEF Done
<1>5. ASSUME NEW pc \in {"spawn", "failshutdown", "cancel"},
             request' = [request EXCEPT ![c].pc = pc]
      PROVE  request' \in [Readers -> PendingRequest]
  BY <1>2, <1>5
<1>6. ASSUME NEW r \in Runs, NEW p \in Procs, NEW pc \in {"spawn", "cancel"},
             Accepted(c, r, p, pc)
      PROVE  request' \in [Readers -> PendingRequest]
  BY <1>3, <1>6 DEF Accepted
<1> QED
  BY <1>4, <1>5, <1>6

LEMMA RequestStepType ==
    ASSUME TypeOK, Knowledge, NEW c \in Readers, RequestStep(c)
    PROVE  LocalTypeOK'
<1> DEFINE r == request[c].run  i == request[c].at
<1>0. LocalTypeOK /\ request \in [Readers -> PendingRequest] /\ task \in [Tasks -> Task]
      /\ faults \in 0 .. MaxFaults
  BY DEF TypeOK, LocalTypeOK
<1>b. request[c].pc # "none" => r \in Runs /\ request[c].proc \in Procs
  BY DEF Knowledge, RequestKnows
<1>1. CASE ResumeCommit(c)
  <2>1. request' \in [Readers -> PendingRequest]
    BY <1>0, <1>1, RequestUpdateType DEF ResumeCommit
  <2>2. fact' \in [Runs -> [Steps -> Facts]]
    <3>1. r \in Runs /\ (request[c].decision # "none" => i \in Steps)
      BY <1>1 DEF ResumeCommit, Knowledge, RequestKnows
    <3>2. SetFact(r, i, "vouched") /\ i \in Steps => fact' \in [Runs -> [Steps -> Facts]]
      BY <1>0, <3>1, FactType DEF LocalTypeOK, Facts
    <3>3. i \in Steps => [fact EXCEPT ![r][i] = IF @ \in {"sent", "done"} THEN "consented" ELSE @]
                            \in [Runs -> [Steps -> Facts]]
      <4> SUFFICES ASSUME i \in Steps
                   PROVE  [fact[r] EXCEPT ![i] = IF @ \in {"sent", "done"}
                             THEN "consented" ELSE @] \in [Steps -> Facts]
        BY <1>0, <3>1 DEF LocalTypeOK
      <4> QED
        BY <1>0, <3>1 DEF LocalTypeOK, Facts
    <3> QED
      BY <1>0, <1>1, <3>1, <3>2, <3>3 DEF ResumeCommit, LocalTypeOK
  <2>3. resumes' \in [Runs -> Nat]
    <3>1. r \in Runs /\ resumes \in [Runs -> Nat]
      BY <1>0, <1>1, <1>b DEF ResumeCommit, LocalTypeOK
    <3>2. resumes' = [resumes EXCEPT ![r] = @ + 1]
      BY <1>1 DEF ResumeCommit
    <3> QED
      BY <3>1, <3>2
  <2> QED
    BY <1>0, <1>1, <2>1, <2>2, <2>3 DEF ResumeCommit, LocalTypeOK, procVars
<1>2. CASE ResumeRefused(c) \/ SpawnRefused(c)
  <2>1. request' \in [Readers -> PendingRequest]
    BY <1>0, <1>2, RequestUpdateType DEF ResumeRefused, SpawnRefused
  <2> QED
    BY <1>0, <1>2, <2>1 DEF ResumeRefused, SpawnRefused, LocalTypeOK, procVars
<1>3. CASE FailShutdown(c)
  <2>1. request' \in [Readers -> PendingRequest]
    BY <1>0, <1>3, RequestUpdateType DEF FailShutdown
  <2>2. faults' \in 0 .. MaxFaults
    BY <1>0, <1>3, FaultType DEF FailShutdown, Conflict, NoFault
  <2> QED
    BY <1>0, <1>3, <2>1, <2>2 DEF FailShutdown, LocalTypeOK, procVars
<1>4. CASE CancelActive(c)
  <2>1. request' \in [Readers -> PendingRequest]
    BY <1>0, <1>4, RequestUpdateType DEF CancelActive
  <2>2. task' \in [Tasks -> Task]
    <3>1. \A t \in Tasks : [task[t] EXCEPT !.cancelled = TRUE] \in Task
      BY <1>0 DEF Task
    <3> QED
      BY <1>0, <1>4, <3>1 DEF CancelActive
  <2> QED
    BY <1>0, <1>4, <2>1, <2>2 DEF CancelActive, LocalTypeOK, procVars
<1>5. ASSUME NEW t \in Tasks, Spawn(c, t)
      PROVE  LocalTypeOK'
  <2>1. request' \in [Readers -> PendingRequest]
    BY <1>0, <1>5, RequestUpdateType DEF Spawn
  <2>2. task' \in [Tasks -> Task]
    <3>1. NoTask \in Task
      BY StoreAssumption DEF NoTask, Task, TaskPcs, StepStates
    <3>2. [NoTask EXCEPT !.pc = "claim", !.run = r, !.proc = request[c].proc] \in Task
      BY <1>5, <1>b, <3>1 DEF Spawn, Task, TaskPcs
    <3> QED
      BY <1>0, <1>5, <3>2 DEF Spawn
  <2> QED
    BY <1>0, <1>5, <2>1, <2>2 DEF Spawn, LocalTypeOK, procVars
<1> QED
  BY <1>1, <1>2, <1>3, <1>4, <1>5 DEF RequestStep

LEMMA UserStepType ==
    ASSUME TypeOK, UserAction \/ AnyUserAction
    PROVE  LocalTypeOK'
<1>0. LocalTypeOK /\ request \in [Readers -> PendingRequest]
  BY DEF TypeOK, LocalTypeOK
<1>1. ASSUME NEW p \in Procs, NEW r \in Runs, NEW u \in Users, NEW b \in Runbooks,
             NEW f \in Plans, Request(p, r, b, u, f)
      PROVE  LocalTypeOK'
  BY <1>0, <1>1 DEF Request, LocalTypeOK, procVars
<1>2. ASSUME NEW p \in Procs, NEW r \in Runs, NEW u \in Users, Reject(p, r, u)
      PROVE  LocalTypeOK'
  BY <1>0, <1>2 DEF Reject, LocalTypeOK, procVars
<1>3. ASSUME NEW c \in Readers, NEW p \in Procs, NEW r \in Runs, NEW u \in Users,
             Approve(c, p, r, u) \/ Cancel(c, p, r)
               \/ \E b \in Runbooks, f \in Plans : Start(c, p, r, b, u, f)
      PROVE  LocalTypeOK'
  <2>1. request' \in [Readers -> PendingRequest]
    BY <1>0, <1>3, RequestUpdateType DEF Start, Approve, Cancel
  <2> QED
    BY <1>0, <1>3, <2>1 DEF Start, Approve, Cancel, LocalTypeOK, procVars
<1>4. ASSUME NEW c \in Readers, NEW p \in Procs, NEW r \in Runs, Cancel(c, p, r)
      PROVE  LocalTypeOK'
  <2>1. request' \in [Readers -> PendingRequest]
    BY <1>0, <1>4, RequestUpdateType DEF Cancel
  <2> QED
    BY <1>0, <1>4, <2>1 DEF Cancel, LocalTypeOK, procVars
<1>5. ASSUME NEW c \in Readers, NEW p \in Procs, NEW r \in Runs, NEW i \in Steps,
             Confirm(c, p, r, i)
      PROVE  LocalTypeOK'
  <2>1. request' \in [Readers -> PendingRequest]
    BY <1>0, <1>5, RequestUpdateType DEF Confirm
  <2>2. fact' \in [Runs -> [Steps -> Facts]]
    BY <1>0, <1>5, FactType DEF Confirm, LocalTypeOK, Facts
  <2> QED
    BY <1>0, <1>5, <2>1, <2>2 DEF Confirm, LocalTypeOK, procVars
<1>6. ASSUME NEW c \in Readers, NEW p \in Procs, NEW r \in Runs, NEW u \in Users,
             NEW d \in Decisions, ResumeRead(c, p, r, u, d)
      PROVE  LocalTypeOK'
  <2>1. \A i \in 0 .. StepCount :
           [pc |-> "resume", run |-> r, proc |-> p, user |-> u, at |-> i, decision |-> d,
            saw |-> resumes[r]] \in PendingRequest
    BY <1>0 DEF LocalTypeOK, PendingRequest
  <2>2. 0 \in 0 .. StepCount /\ Steps \subseteq 0 .. StepCount
    BY StoreAssumption DEF Steps
  <2>3. request' \in [Readers -> PendingRequest]
    BY <1>0, <1>6, <2>1, <2>2 DEF ResumeRead
  <2> QED
    BY <1>0, <1>6, <2>3 DEF ResumeRead, LocalTypeOK, procVars
<1> QED
  BY <1>1, <1>2, <1>3, <1>4, <1>5, <1>6 DEF UserAction, AnyUserAction

LEMMA ProcStepType ==
    ASSUME TypeOK, (\E p \in Procs : ProcStep(p)) \/ Sweep
    PROVE  LocalTypeOK'
<1>0. LocalTypeOK
  BY DEF TypeOK, LocalTypeOK
<1>1. CASE Sweep
  BY <1>0, <1>1 DEF Sweep, LocalTypeOK, procVars
<1>2. ASSUME NEW p \in Procs, Boot(p) \/ Lead(p) \/ LoseLock(p) \/ NoticeLoss(p)
             \/ Signal(p) \/ Drain(p) \/ StopWork(p)
      PROVE  LocalTypeOK'
  BY <1>0, <1>2 DEF Boot, Lead, LoseLock, NoticeLoss, Signal, Drain, StopWork, ProcFrame,
                    LocalTypeOK
<1>3. ASSUME NEW p \in Procs, Exit(p)
      PROVE  LocalTypeOK'
  <2>1. NoTask \in Task
    BY StoreAssumption DEF NoTask, Task, TaskPcs, StepStates
  <2>2. NoRequest \in PendingRequest
    BY StoreAssumption DEF NoRequest, PendingRequest, Decisions
  <2> QED
    BY <1>0, <1>3, <2>1, <2>2 DEF Exit, LocalTypeOK
<1> QED
  BY <1>1, <1>2, <1>3 DEF ProcStep

LEMMA StepType ==
    ASSUME TypeOK, Knowledge, StepsInOrder, [Next]_vars
    PROVE  TypeOK'
<1>1. DbTypeOK'
  <2>1. StoreNext \/ UNCHANGED dbVars
    BY Implements DEF OrderedOrNot, OrderedNext, StoreNext
  <2> QED
    BY <2>1, StoreNextType DEF TypeOK, DbTypeOK, dbVars
<1>2. LocalTypeOK'
  <2>1. CASE Next
    BY <2>1, TaskStepType, RequestStepType, UserStepType, ProcStepType DEF Next
  <2>2. CASE UNCHANGED vars
    BY <2>2 DEF vars, TypeOK, LocalTypeOK, procVars
  <2> QED
    BY <2>1, <2>2
<1> QED
  BY <1>1, <1>2 DEF TypeOK, LocalTypeOK

-----------------------------------------------------------------------------
(* What a goroutine knows stays true while others write: a run does not    *)
(* become absent, its plan is frozen and its successes are final.          *)

LEMMA Stable ==
    ASSUME TypeOK, OrderedOrNot, NEW r \in Runs, row[r].state # "absent"
    PROVE  /\ row'[r].state # "absent"
           /\ row'[r].plan = row[r].plan
           /\ \A j \in Steps : step[r][j] = "succeeded" => step'[r][j] = "succeeded"
<1>1. CASE UNCHANGED dbVars
  BY <1>1 DEF dbVars
<1>2. CASE OrderedNext
  <2>1. Effect(r)
    BY <1>2, StoreEffect DEF OrderedNext, StoreNext, TypeOK
  <2> QED
    BY <2>1 DEF Effect, Created, Progressed, Deleted
<1> QED
  BY <1>1, <1>2 DEF OrderedOrNot

LEMMA PrefixStable ==
    ASSUME TypeOK, OrderedOrNot, NEW r \in Runs, row[r].state # "absent"
    PROVE  /\ \A i \in Steps : Prefix(r, i) => Prefix(r, i)'
           /\ AllSucceeded(r) => AllSucceeded(r)'
<1>1. \A i \in Steps : \A j \in 1 .. (i - 1) : j \in Steps
  BY StoreAssumption DEF Steps
<1> QED
  BY <1>1, Stable DEF Prefix, AllSucceeded

(* The pcs at which a goroutine holds nothing but its run. *)
EmptyHanded == {"claim", "read", "steps", "failrun", "exit"}

LEMMA TaskKnowsStable ==
    ASSUME TypeOK, OrderedOrNot, NEW t \in Tasks, TaskKnows(t),
           task'[t].run = task[t].run, task'[t].proc = task[t].proc,
           \/ /\ task'[t].pc = task[t].pc /\ task'[t].at = task[t].at
              /\ task'[t].from = task[t].from
           \/ task'[t].pc \in EmptyHanded
           \/ /\ task[t].pc \in InHand /\ task'[t].at = task[t].at
              /\ task'[t].pc \in {"perform", "effect", "succeed", "fail"}
    PROVE  TaskKnows(t)'
<1>1. PICK r \in Runs : r = task[t].run
  BY DEF TaskKnows
<1>2. PICK i : i = task[t].at
  OBVIOUS
<1>3. /\ task[t].proc \in Procs /\ row[r].state # "absent"
      /\ row'[r].state # "absent" /\ row'[r].plan = row[r].plan
  BY <1>1, Stable DEF TaskKnows
<1>4. (\A j \in Steps : Prefix(r, j) => Prefix(r, j)') /\ (AllSucceeded(r) => AllSucceeded(r)')
  BY <1>3, PrefixStable
<1>5. task[t].pc \in InHand => i \in Steps /\ Prefix(r, i)
  BY <1>1, <1>2 DEF TaskKnows
<1>6. CASE /\ task'[t].pc = task[t].pc /\ task'[t].at = task[t].at
           /\ task'[t].from = task[t].from
  <2>1. task'[t].pc \in InHand => i \in Steps /\ Prefix(r, i)'
    BY <1>4, <1>5, <1>6
  <2>2. task'[t].pc = "pause" => row'[r].plan[i] = "manual"
    BY <1>1, <1>2, <1>3, <1>6 DEF TaskKnows
  <2>3. task'[t].pc = "start" =>
          task'[t].from \in {"pending", "failed", "unknown"} /\ row'[r].plan[i] # "manual"
    BY <1>1, <1>2, <1>3, <1>6 DEF TaskKnows
  <2>4. task'[t].pc = "finish" => AllSucceeded(r)'
    BY <1>1, <1>4, <1>6 DEF TaskKnows
  <2> QED
    BY <1>1, <1>2, <1>3, <1>6, <2>1, <2>2, <2>3, <2>4 DEF TaskKnows
<1>7. CASE task'[t].pc \in EmptyHanded
  BY <1>1, <1>3, <1>7 DEF TaskKnows, EmptyHanded, InHand
<1>8. CASE /\ task[t].pc \in InHand /\ task'[t].at = task[t].at
           /\ task'[t].pc \in {"perform", "effect", "succeed", "fail"}
  <2>1. i \in Steps /\ Prefix(r, i)'
    BY <1>4, <1>5, <1>8
  <2> QED
    BY <1>1, <1>2, <1>3, <1>8, <2>1 DEF TaskKnows
<1> QED
  BY <1>6, <1>7, <1>8

LEMMA RequestKnowsStable ==
    ASSUME TypeOK, OrderedOrNot, NEW c \in Readers, RequestKnows(c),
           request'[c].run = request[c].run, request'[c].proc = request[c].proc,
           request'[c] = request[c] \/ request'[c].pc # "resume"
    PROVE  RequestKnows(c)'
BY Stable DEF RequestKnows

(* What Goto, Forget and Record leave of the goroutine that moves. *)
LEMMA MoveEffect ==
    ASSUME task \in [Tasks -> Task], NEW t \in Tasks
    PROVE  /\ \A pc : Goto(t, pc) => /\ task'[t].pc = pc /\ task'[t].run = task[t].run
                                     /\ task'[t].proc = task[t].proc
                                     /\ task'[t].at = task[t].at
           /\ \A pc : Forget(t, pc) => /\ task'[t].pc = pc /\ task'[t].run = task[t].run
                                       /\ task'[t].proc = task[t].proc
           /\ \A o : Record(t, o) => /\ task'[t].pc = "fail" /\ task'[t].run = task[t].run
                                     /\ task'[t].proc = task[t].proc
                                     /\ task'[t].at = task[t].at
<1>1. ASSUME NEW pc, Goto(t, pc)
      PROVE  /\ task'[t].pc = pc /\ task'[t].run = task[t].run
             /\ task'[t].proc = task[t].proc /\ task'[t].at = task[t].at
  BY <1>1 DEF Goto, Task
<1>2. ASSUME NEW pc, Forget(t, pc)
      PROVE  /\ task'[t].pc = pc /\ task'[t].run = task[t].run
             /\ task'[t].proc = task[t].proc
  BY <1>2 DEF Forget, NoTask
<1>3. ASSUME NEW o, Record(t, o)
      PROVE  /\ task'[t].pc = "fail" /\ task'[t].run = task[t].run
             /\ task'[t].proc = task[t].proc /\ task'[t].at = task[t].at
  BY <1>3 DEF Record, Task
<1> QED
  BY <1>1, <1>2, <1>3

(* Only the goroutine that moves changes. *)
LEMMA OthersKept ==
    ASSUME TypeOK, NEW t \in Tasks, TaskStep(t)
    PROVE  request' = request /\ \A s \in Tasks \ {t} : task'[s] = task[s]
<1>1. task \in [Tasks -> Task]
  BY DEF TypeOK
<1>2. CASE Claim(t) \/ GiveUp(t) \/ FinishWithoutStep(t) \/ Pause(t) \/ StartStep(t)
           \/ Refuse(t) \/ Dispatch(t) \/ ReturnOk(t) \/ ReturnError(t) \/ FailRun(t)
           \/ Release(t)
  BY <1>1, <1>2 DEF Claim, GiveUp, FinishWithoutStep, Pause, StartStep, Refuse, Dispatch,
                    ReturnOk, ReturnError, FailRun, Release, Goto, Forget, Record, Fail
<1>3. CASE RecordSuccess(t) \/ RecordFailure(t)
  BY <1>1, <1>3 DEF RecordSuccess, RecordFailure, Goto, Forget, Record
<1>4. CASE ReadRun(t)
  BY <1>1, <1>4 DEF ReadRun, Goto, Forget
<1>5. CASE ReadSteps(t)
  <2>1. \A i \in Steps : Choose(t, i) => \A s \in Tasks \ {t} : task'[s] = task[s]
    BY <1>1 DEF Choose, Goto
  <2> QED
    BY <1>1, <1>5, <2>1 DEF ReadSteps, Goto
<1> QED
  BY <1>2, <1>3, <1>4, <1>5 DEF TaskStep

LEMMA MoverKnows ==
    ASSUME TypeOK, Knowledge, NEW t \in Tasks, TaskStep(t), task'[t].pc # "none"
    PROVE  TaskKnows(t)'
<1>1. task \in [Tasks -> Task] /\ OrderedOrNot
  BY TaskImplements DEF TypeOK
<1>2. CASE Claim(t) \/ ReadRun(t) \/ FinishWithoutStep(t) \/ Pause(t) \/ FailRun(t)
  <2>1. TaskKnows(t)
    BY <1>2 DEF Knowledge, Claim, ReadRun, FinishWithoutStep, Pause, FailRun
  <2>2. /\ task'[t].pc \in EmptyHanded
        /\ task'[t].run = task[t].run /\ task'[t].proc = task[t].proc
    BY <1>1, <1>2, MoveEffect
       DEF Claim, ReadRun, FinishWithoutStep, Pause, FailRun, EmptyHanded, Task
  <2> QED
    BY <1>1, <2>1, <2>2, TaskKnowsStable
<1>3. CASE StartStep(t) \/ Refuse(t) \/ Dispatch(t) \/ ReturnOk(t) \/ ReturnError(t)
           \/ RecordSuccess(t) \/ RecordFailure(t)
  <2>1. TaskKnows(t) /\ task[t].pc \in InHand
    BY <1>3 DEF Knowledge, StartStep, Refuse, Dispatch, ReturnOk, ReturnError, RecordSuccess,
                RecordFailure, InHand
  <2>2. /\ task'[t].run = task[t].run /\ task'[t].proc = task[t].proc
        /\ \/ task'[t].pc \in EmptyHanded
           \/ /\ task'[t].at = task[t].at
              /\ task'[t].pc \in {"perform", "effect", "succeed", "fail"}
    BY <1>1, <1>3, MoveEffect
       DEF StartStep, Refuse, Dispatch, ReturnOk, ReturnError, RecordSuccess, RecordFailure,
           Fail, EmptyHanded
  <2> QED
    BY <1>1, <2>1, <2>2, TaskKnowsStable
<1>4. CASE ReadSteps(t)
  <2>0. PICK r \in Runs : r = task[t].run
    BY <1>4 DEF ReadSteps, Knowledge, TaskKnows
  <2>1. TaskKnows(t)
    BY <1>4 DEF Knowledge, ReadSteps
  <2>2. CASE Goto(t, "failrun")
    BY <1>1, <2>1, <2>2, MoveEffect, TaskKnowsStable DEF EmptyHanded
  <2>3. CASE AllSucceeded(r) /\ Goto(t, "finish") /\ UNCHANGED dbVars
    <3>1. AllSucceeded(r)'
      BY <2>3 DEF AllSucceeded, dbVars
    <3> QED
      BY <1>1, <2>0, <2>1, <2>3, <3>1, MoveEffect DEF TaskKnows, InHand, dbVars
  <2>4. ASSUME NEW i \in Steps, FirstUnfinished(r, i), Choose(t, i), UNCHANGED dbVars
        PROVE  TaskKnows(t)'
    <3>1. Prefix(r, i)'
      BY <2>4 DEF FirstUnfinished, Prefix, dbVars
    <3>2. CASE Goto(t, "failrun")
      BY <2>2, <3>2
    <3>3. CASE ~ Goto(t, "failrun")
      <4>1. /\ task'[t].run = r /\ task'[t].proc = task[t].proc /\ task'[t].at = i
            /\ task'[t].pc \in {"pause", "start", "fail"}
            /\ task'[t].pc = "pause" => row[r].plan[i] = "manual"
            /\ task'[t].pc = "start" => /\ task'[t].from \in {"pending", "failed", "unknown"}
                                        /\ row[r].plan[i] # "manual"
        BY <1>1, <2>0, <2>4, <3>3 DEF Choose, Startable, Task
      <4> QED
        BY <2>0, <2>1, <2>4, <3>1, <4>1 DEF TaskKnows, dbVars
    <3> QED
      BY <3>2, <3>3
  <2> QED
    BY <1>4, <2>0, <2>2, <2>3, <2>4 DEF ReadSteps
<1>5. CASE GiveUp(t) \/ Release(t)
  BY <1>1, <1>5 DEF GiveUp, Release, NoTask
<1> QED
  BY <1>2, <1>3, <1>4, <1>5 DEF TaskStep

LEMMA TaskKnowledge ==
    ASSUME TypeOK, Knowledge, NEW t \in Tasks, TaskStep(t)
    PROVE  Knowledge'
<1>1. OrderedOrNot
  BY TaskImplements
<1>2. ASSUME NEW s \in Tasks, task'[s].pc # "none"
      PROVE  TaskKnows(s)'
  <2>1. CASE s = t
    BY <1>2, <2>1, MoverKnows
  <2>2. CASE s # t
    <3>1. task'[s] = task[s] /\ TaskKnows(s)
      BY <1>2, <2>2, OthersKept DEF Knowledge
    <3> QED
      BY <1>1, <3>1, TaskKnowsStable
  <2> QED
    BY <2>1, <2>2
<1>3. ASSUME NEW c \in Readers, request'[c].pc # "none"
      PROVE  RequestKnows(c)'
  <2>1. request'[c] = request[c] /\ RequestKnows(c)
    BY <1>3, OthersKept DEF Knowledge
  <2> QED
    BY <1>1, <2>1, RequestKnowsStable
<1> QED
  BY <1>2, <1>3 DEF Knowledge

(* When the goroutines and the other requests stay as they are, it remains *)
(* to show what the changed request holds.                                 *)
LEMMA KnowledgeKept ==
    ASSUME TypeOK, Knowledge, OrderedOrNot,
           \A t \in Tasks : task'[t].pc # "none" =>
              \/ TaskKnows(t)'
              \/ /\ task'[t].pc = task[t].pc /\ task'[t].at = task[t].at
                 /\ task'[t].from = task[t].from /\ task'[t].run = task[t].run
                 /\ task'[t].proc = task[t].proc,
           \A c \in Readers : request'[c].pc # "none" =>
              RequestKnows(c)' \/ request'[c] = request[c]
    PROVE  Knowledge'
<1>1. ASSUME NEW t \in Tasks, task'[t].pc # "none"
      PROVE  TaskKnows(t)'
  BY <1>1, TaskKnowsStable DEF Knowledge
<1>2. ASSUME NEW c \in Readers, request'[c].pc # "none"
      PROVE  RequestKnows(c)'
  BY <1>2, RequestKnowsStable DEF Knowledge
<1> QED
  BY <1>1, <1>2 DEF Knowledge

LEMMA RequestKnowledge ==
    ASSUME TypeOK, Knowledge, NEW c \in Readers, RequestStep(c)
    PROVE  Knowledge'
<1>1. OrderedOrNot /\ request \in [Readers -> PendingRequest] /\ task \in [Tasks -> Task]
  BY RequestImplements DEF TypeOK
<1>2. RequestKnows(c)
  BY DEF RequestStep, ResumeCommit, ResumeRefused, SpawnRefused, FailShutdown, CancelActive,
         Spawn, Knowledge
<1>3. \A d \in Readers : request'[d].pc # "none" => RequestKnows(d)' \/ request'[d] = request[d]
  <2>1. \A d \in Readers \ {c} : request'[d] = request[d]
    BY <1>1 DEF RequestStep, ResumeCommit, ResumeRefused, SpawnRefused, FailShutdown,
                CancelActive, Spawn, Done
  <2>2. CASE ResumeCommit(c) \/ SpawnRefused(c)
    <3>1. /\ request'[c].pc \in {"spawn", "failshutdown"}
          /\ request'[c].run = request[c].run /\ request'[c].proc = request[c].proc
      BY <1>1, <2>2 DEF ResumeCommit, SpawnRefused, PendingRequest
    <3> QED
      BY <1>1, <1>2, <2>1, <3>1, RequestKnowsStable
  <2>3. CASE Done(c)
    BY <1>1, <2>1, <2>3 DEF Done, NoRequest
  <2> QED
    BY <2>2, <2>3 DEF RequestStep, ResumeRefused, FailShutdown, CancelActive, Spawn
<1>4. CASE ResumeCommit(c) \/ ResumeRefused(c) \/ SpawnRefused(c) \/ FailShutdown(c)
  <2>1. task' = task
    BY <1>4 DEF ResumeCommit, ResumeRefused, SpawnRefused, FailShutdown
  <2> QED
    BY <1>1, <1>3, <2>1, KnowledgeKept
<1>5. CASE CancelActive(c)
  <2>1. \A t \in Tasks : /\ task'[t].pc = task[t].pc /\ task'[t].at = task[t].at
                         /\ task'[t].from = task[t].from /\ task'[t].run = task[t].run
                         /\ task'[t].proc = task[t].proc
    BY <1>1, <1>5 DEF CancelActive, Task
  <2> QED
    BY <1>1, <1>3, <2>1, KnowledgeKept
<1>6. ASSUME NEW t \in Tasks, Spawn(c, t)
      PROVE  Knowledge'
  <2>1. /\ task'[t].pc = "claim" /\ task'[t].run = request[c].run
        /\ task'[t].proc = request[c].proc
    BY <1>1, <1>6 DEF Spawn, NoTask
  <2>2. row' = row
    BY <1>6 DEF Spawn, dbVars
  <2>3. TaskKnows(t)'
    BY <1>2, <2>1, <2>2 DEF TaskKnows, RequestKnows, InHand
  <2>4. \A q \in Tasks \ {t} : task'[q] = task[q]
    BY <1>1, <1>6 DEF Spawn
  <2> QED
    BY <1>1, <1>3, <2>3, <2>4, KnowledgeKept
<1> QED
  BY <1>4, <1>5, <1>6 DEF RequestStep

LEMMA UserKnowledge ==
    ASSUME TypeOK, Knowledge, StepsInOrder, UserAction \/ AnyUserAction
    PROVE  Knowledge'
<1>1. OrderedOrNot /\ request \in [Readers -> PendingRequest]
  BY UserImplements DEF TypeOK
<1>2. task' = task
  <2>1. CASE UserAction
    <3>1. ASSUME NEW p \in Procs, NEW r \in Runs, NEW u \in Users, NEW c \in Readers,
                 \/ \E b \in Runbooks, f \in Plans : Start(c, p, r, b, u, f)
                 \/ Approve(c, p, r, u) \/ \E d \in Decisions : ResumeRead(c, p, r, u, d)
          PROVE  task' = task
      BY <3>1 DEF Start, Approve, ResumeRead
    <3>2. ASSUME NEW p \in Procs, NEW r \in Runs, NEW u \in Users,
                 Reject(p, r, u) \/ \E b \in Runbooks, f \in Plans : Request(p, r, b, u, f)
          PROVE  task' = task
      BY <3>2 DEF Reject, Request
    <3> QED
      BY <2>1, <3>1, <3>2 DEF UserAction
  <2>2. CASE AnyUserAction
    BY <2>2 DEF AnyUserAction, Cancel, Confirm
  <2> QED
    BY <2>1, <2>2
<1>3. CASE request' = request
  BY <1>1, <1>2, <1>3, KnowledgeKept
<1>4. ASSUME NEW c \in Readers, NEW p \in Procs, NEW r \in Runs, NEW pc \in {"spawn", "cancel"},
             Accepted(c, r, p, pc), row'[r].state # "absent"
      PROVE  Knowledge'
  <2>1. RequestKnows(c)' /\ \A d \in Readers \ {c} : request'[d] = request[d]
    BY <1>1, <1>4 DEF Accepted, NoRequest, RequestKnows
  <2> QED
    BY <1>1, <1>2, <2>1, KnowledgeKept
<1>5. ASSUME NEW c \in Readers, NEW p \in Procs, NEW r \in Runs, NEW u \in Users,
             Approve(c, p, r, u) \/ \E b \in Runbooks, f \in Plans : Start(c, p, r, b, u, f)
      PROVE  Knowledge'
  <2>1. Accepted(c, r, p, "spawn")
    BY <1>5 DEF Start, Approve
  <2>2. CASE Approve(c, p, r, u)
    <3>1. row'[r].state # "absent"
      BY <2>2 DEF Approve, ApproveRunbookRun, TypeOK, DbTypeOK, Row
    <3> QED
      BY <1>4, <2>1, <3>1
  <2>3. ASSUME NEW b \in Runbooks, NEW f \in Plans, Start(c, p, r, b, u, f)
        PROVE  Knowledge'
    <3>1. row'[r].state # "absent"
      BY <2>3 DEF Start, CreateRunbookRun, NoRow, TypeOK, DbTypeOK
    <3> QED
      BY <1>4, <2>1, <3>1
  <2> QED
    BY <1>5, <2>2, <2>3
<1>6. ASSUME NEW c \in Readers, NEW p \in Procs, NEW r \in Runs, NEW u \in Users,
             NEW d \in Decisions, ResumeRead(c, p, r, u, d)
      PROVE  Knowledge'
  <2>1. row'[r].state # "absent"
    BY <1>6 DEF ResumeRead
  <2>2. PICK i \in Steps \cup {0} :
           /\ request' = [request EXCEPT ![c] =
                 [pc |-> "resume", run |-> r, proc |-> p, user |-> u,
                  at |-> i, decision |-> d, saw |-> resumes[r]]]
           /\ d # "none" => i \in Steps
    BY <1>6 DEF ResumeRead
  <2>3. RequestKnows(c)' /\ \A e \in Readers \ {c} : request'[e] = request[e]
    BY <1>1, <2>1, <2>2 DEF RequestKnows
  <2> QED
    BY <1>1, <1>2, <2>3, KnowledgeKept
<1>7. ASSUME NEW p \in Procs, NEW r \in Runs, NEW u \in Users,
             Reject(p, r, u) \/ \E b \in Runbooks, f \in Plans : Request(p, r, b, u, f)
      PROVE  Knowledge'
  BY <1>3, <1>7 DEF Reject, Request
<1>8. ASSUME NEW c \in Readers, NEW p \in Procs, NEW r \in Runs, Cancel(c, p, r)
      PROVE  Knowledge'
  <2>1. row'[r].state # "absent"
    BY <1>8 DEF Cancel, CancelRunbookRun, SetRun, TypeOK, DbTypeOK, Row
  <2> QED
    BY <1>4, <1>8, <2>1 DEF Cancel
<1>9. ASSUME NEW c \in Readers, NEW p \in Procs, NEW r \in Runs, NEW i \in Steps,
             Confirm(c, p, r, i)
      PROVE  Knowledge'
  <2>1. row'[r].state # "absent"
    BY <1>9 DEF Confirm, ConfirmRunbookRunStep, SetRun, TypeOK, DbTypeOK, Row
  <2> QED
    BY <1>4, <1>9, <2>1 DEF Confirm
<1> QED
  BY <1>5, <1>6, <1>7, <1>8, <1>9 DEF UserAction, AnyUserAction

LEMMA ProcKnowledge ==
    ASSUME TypeOK, Knowledge, (\E p \in Procs : ProcStep(p)) \/ Sweep
    PROVE  Knowledge'
<1>1. OrderedOrNot /\ request \in [Readers -> PendingRequest] /\ task \in [Tasks -> Task]
  BY ProcImplements DEF TypeOK
<1>2. CASE task' = task /\ request' = request
  BY <1>1, <1>2, KnowledgeKept
<1>3. ASSUME NEW p \in Procs, Exit(p)
      PROVE  Knowledge'
  BY <1>1, <1>3, KnowledgeKept DEF Exit, NoTask, NoRequest
<1>4. ASSUME NEW p \in Procs, Boot(p) \/ Lead(p) \/ LoseLock(p) \/ NoticeLoss(p)
             \/ Signal(p) \/ Drain(p) \/ StopWork(p)
      PROVE  task' = task /\ request' = request
  BY <1>4 DEF Boot, Lead, LoseLock, NoticeLoss, Signal, Drain, StopWork, ProcFrame
<1>5. CASE Sweep
  BY <1>2, <1>5 DEF Sweep
<1> QED
  BY <1>2, <1>3, <1>4, <1>5 DEF ProcStep

LEMMA StepKnowledge ==
    ASSUME TypeOK, Knowledge, StepsInOrder, [Next]_vars
    PROVE  Knowledge'
<1>1. CASE Next
  BY <1>1, TaskKnowledge, RequestKnowledge, UserKnowledge, ProcKnowledge DEF Next
<1>2. CASE UNCHANGED vars
  <2>1. OrderedOrNot /\ task' = task /\ request' = request
    BY <1>2 DEF vars, dbVars, OrderedOrNot
  <2> QED
    BY <2>1, KnowledgeKept
<1> QED
  BY <1>1, <1>2

-----------------------------------------------------------------------------
(* The order of the steps, and completeness.                               *)

Begun(r, j) == step[r][j] \notin {"pending", "skipped"}

SuccessesKept(r) == \A k \in Steps : step[r][k] = "succeeded" => step'[r][k] = "succeeded"

(* A write of the row begins no step, and drops successes only by creating *)
(* the run, with nothing begun.                                            *)
LEMMA RunWriteBegins ==
    ASSUME DbTypeOK, NEW r \in Runs, RunWrite(r), NEW j \in Steps, Begun(r, j)'
    PROVE  Begun(r, j) /\ SuccessesKept(r)
<1> USE DEF DbTypeOK, Begun, SuccessesKept
<1>1. CASE \E b \in Runbooks, u \in Users, p \in Plans, gate \in BOOLEAN :
             CreateRunbookRun(r, b, u, p, gate)
  BY <1>1 DEF CreateRunbookRun
<1>2. CASE RejectRunbookRun(r) \/ ExpireAwaitingApprovalRunbookRun(r)
  BY <1>2 DEF RejectRunbookRun, ExpireAwaitingApprovalRunbookRun, SkipPending
<1>3. CASE CancelRunbookRun(r) \/ ExpireOpenRunbookRun(r)
  <2>1. \A k \in Steps : step'[r][k] = Closed(step[r][k])
    BY <1>3 DEF CancelRunbookRun, ExpireOpenRunbookRun, CloseSteps
  <2> QED
    BY <2>1 DEF Closed
<1>4. CASE step' = step
  BY <1>4
<1> QED
  BY <1>1, <1>2, <1>3, <1>4
     DEF RunWrite, ApproveRunbookRun, UpdateRunbookRun, ResumeRunbookRun, PruneRunbookRun

LEMMA InterruptBegins ==
    ASSUME DbTypeOK, InterruptRunningRunbookRuns, NEW r \in Runs, NEW j \in Steps, Begun(r, j)'
    PROVE  Begun(r, j) /\ SuccessesKept(r)
BY DEF DbTypeOK, InterruptRunningRunbookRuns, Interrupted, Begun, SuccessesKept

(* A step write changes the step it names. *)
LEMMA StepWriteOne ==
    ASSUME DbTypeOK, NEW r \in Runs, NEW i \in Steps, StepWrite(r, i)
    PROVE  SuccessesKept(r) /\ \A j \in Steps \ {i} : step'[r][j] = step[r][j]
<1>1. SuccessesKept(r)
  BY StepWriteProgress DEF Progressed, SuccessesKept
<1>2. \E s : SetStep(r, i, s)
  BY DEF StepWrite, StartStepWrite, UpdateRunbookRunStep, PauseRunbookRunOnManualStep,
         FailRunbookRunStep, FinishRunbookRun, TransitionWithStep, ConfirmRunbookRunStep,
         ResumeRunbookRunMarkingStepDone
<1> QED
  BY <1>1, <1>2 DEF SetStep, DbTypeOK

LEMMA OrderKept ==
    ASSUME TypeOK, StepsInOrder, OrderedOrNot
    PROVE  StepsInOrder'
<1>0. DbTypeOK /\ \A i \in Steps : \A k \in 1 .. (i - 1) : k \in Steps
  BY StoreAssumption DEF TypeOK, Steps
<1> SUFFICES ASSUME NEW q \in Runs, NEW j \in Steps, Begun(q, j)', NEW k \in 1 .. (j - 1)
             PROVE  step'[q][k] = "succeeded"
  BY DEF StepsInOrder, Begun
<1>1. Begun(q, j) => step[q][k] = "succeeded"
  BY DEF StepsInOrder, Begun
<1>2. CASE step'[q] = step[q]
  BY <1>1, <1>2 DEF Begun
<1>3. CASE RunWrite(q) \/ InterruptRunningRunbookRuns
  BY <1>0, <1>1, <1>3, RunWriteBegins, InterruptBegins DEF SuccessesKept
<1>4. ASSUME NEW i \in Steps, StepWrite(q, i), Prefix(q, i)
      PROVE  step'[q][k] = "succeeded"
  <2>1. CASE j = i
    BY <1>0, <1>4, <2>1, StepWriteOne DEF Prefix, SuccessesKept
  <2>2. CASE j # i
    BY <1>0, <1>1, <1>4, <2>2, StepWriteOne DEF Begun, SuccessesKept
  <2> QED
    BY <2>1, <2>2
<1>5. ASSUME NEW r \in Runs, r # q, RunWrite(r) \/ \E i \in Steps : StepWrite(r, i)
      PROVE  step'[q] = step[q]
  BY <1>0, <1>5, OthersUntouched
<1> QED
  BY <1>2, <1>3, <1>4, <1>5 DEF OrderedOrNot, OrderedNext, dbVars

LEMMA CompleteKept ==
    ASSUME TypeOK, SucceededRunComplete, OrderedOrNot
    PROVE  SucceededRunComplete'
<1>0. DbTypeOK
  BY DEF TypeOK
<1> SUFFICES ASSUME NEW q \in Runs, row'[q].state = "succeeded"
             PROVE  AllSucceeded(q)'
  BY DEF SucceededRunComplete
<1>1. row[q].state = "succeeded" => AllSucceeded(q)
  BY DEF SucceededRunComplete
<1>2. AllSucceeded(q) /\ row[q].state # "absent" => AllSucceeded(q)'
  BY PrefixStable
<1>3. CASE row'[q] = row[q]
  BY <1>1, <1>2, <1>3
<1>4. CASE RunWrite(q) /\ (row[q].state = "succeeded" \/ AllSucceeded(q))
  <2>1. row[q].state # "absent" \/ row'[q].state # "succeeded"
    <3>1. ASSUME NEW b \in Runbooks, NEW u \in Users, NEW p \in Plans, NEW gate \in BOOLEAN,
                 CreateRunbookRun(q, b, u, p, gate)
          PROVE  row'[q].state # "succeeded"
      BY <1>0, <3>1 DEF CreateRunbookRun, NoRow, DbTypeOK
    <3>2. CASE \/ \E u \in Users : ApproveRunbookRun(q, u)
               \/ RejectRunbookRun(q) \/ CancelRunbookRun(q)
               \/ \E to \in {"failed", "succeeded"} : UpdateRunbookRun(q, to)
      BY <3>2 DEF ApproveRunbookRun, RejectRunbookRun, UpdateRunbookRun, CancelRunbookRun,
                  IsOpen, OpenStates
    <3>3. CASE \/ \E c \in Readers, u \in Users : ResumeRunbookRun(c, q, u)
               \/ ExpireOpenRunbookRun(q) \/ ExpireAwaitingApprovalRunbookRun(q)
               \/ PruneRunbookRun(q)
      BY <3>3 DEF ResumeRunbookRun, CanResume, ExpireOpenRunbookRun,
                  ExpireAwaitingApprovalRunbookRun, PruneRunbookRun, TerminalStates
    <3>4. CASE row' = row
      BY <3>4
    <3> QED
      BY <1>4, <3>1, <3>2, <3>3, <3>4 DEF RunWrite
  <2> QED
    BY <1>1, <1>2, <1>4, <2>1
<1>5. ASSUME NEW i \in Steps, StepWrite(q, i)
      PROVE  AllSucceeded(q)'
  <2>1. CASE FinishRunbookRun(q, i)
    <3>1. SetStep(q, i, "succeeded") /\ \A j \in Steps \ {i} : step[q][j] = "succeeded"
      BY <2>1 DEF FinishRunbookRun, CanFinish, TransitionWithStep
    <3> QED
      BY <1>0, <3>1 DEF SetStep, AllSucceeded, DbTypeOK
  <2>2. CASE ~ FinishRunbookRun(q, i)
    BY <1>0, <1>5, <2>2
       DEF StepWrite, StartStepWrite, UpdateRunbookRunStep, CanUpdateStep,
           PauseRunbookRunOnManualStep, FailRunbookRunStep, TransitionWithStep, SetRun,
           ConfirmRunbookRunStep, ResumeRunbookRunMarkingStepDone, CanMarkDone, CanResume,
           DbTypeOK, Row
  <2> QED
    BY <2>1, <2>2
<1>6. ASSUME NEW r \in Runs, r # q, RunWrite(r) \/ \E i \in Steps : StepWrite(r, i)
      PROVE  row'[q] = row[q]
  BY <1>0, <1>6, OthersUntouched
<1>7. CASE InterruptRunningRunbookRuns
  BY <1>0, <1>3, <1>7 DEF InterruptRunningRunbookRuns, Running, DbTypeOK, Row
<1> QED
  BY <1>3, <1>4, <1>5, <1>6, <1>7 DEF OrderedOrNot, OrderedNext, dbVars

-----------------------------------------------------------------------------
(* The slot registry.                                                      *)

(* A goroutine that neither claims nor stops keeps its run and its slot. *)
LEMMA DriverMoves ==
    ASSUME TypeOK, NEW t \in Tasks, TaskStep(t), ~ Claim(t), ~ GiveUp(t), ~ Release(t)
    PROVE  /\ Driving(t) /\ active' = active
           /\ task'[t].run = task[t].run /\ task'[t].proc = task[t].proc
<1>1. task \in [Tasks -> Task]
  BY DEF TypeOK
<1>2. CASE FinishWithoutStep(t) \/ Pause(t) \/ StartStep(t) \/ FailRun(t)
  BY <1>1, <1>2, MoveEffect DEF FinishWithoutStep, Pause, StartStep, FailRun, Driving
<1>3. CASE Refuse(t) \/ Dispatch(t) \/ ReturnOk(t) \/ ReturnError(t)
  BY <1>1, <1>3, MoveEffect DEF Refuse, Dispatch, ReturnOk, ReturnError, Fail, Driving
<1>4. CASE RecordSuccess(t) \/ RecordFailure(t)
  BY <1>1, <1>4, MoveEffect DEF RecordSuccess, RecordFailure, Driving
<1>5. CASE ReadRun(t)
  BY <1>1, <1>5, MoveEffect DEF ReadRun, Driving, Task
<1>6. CASE ReadSteps(t)
  <2>1. \A i \in Steps : Choose(t, i) =>
           task'[t].run = task[t].run /\ task'[t].proc = task[t].proc
    BY <1>1, MoveEffect DEF Choose, Task
  <2> QED
    BY <1>1, <1>6, <2>1, MoveEffect DEF ReadSteps, Driving
<1> QED
  BY <1>2, <1>3, <1>4, <1>5, <1>6 DEF TaskStep

LEMMA TaskDriver ==
    ASSUME TypeOK, Knowledge, OneDriver, NEW t \in Tasks, TaskStep(t)
    PROVE  OneDriver'
<1>1. /\ task \in [Tasks -> Task] /\ active \in [Procs -> [Runs -> Tasks \cup {Nobody}]]
      /\ \A s \in Tasks \ {t} : task'[s] = task[s]
  BY OthersKept DEF TypeOK
<1>2. \A s \in Tasks : task[s].pc # "none" => task[s].run \in Runs /\ task[s].proc \in Procs
  BY DEF Knowledge, TaskKnows
<1>3. CASE Claim(t)
  <2>1. PICK p \in Procs, r \in Runs : p = task[t].proc /\ r = task[t].run
    BY <1>2, <1>3 DEF Claim
  <2>2. active[p][r] = Nobody /\ active' = [active EXCEPT ![p][r] = t]
    BY <1>3, <2>1 DEF Claim
  <2>3. \A s \in Tasks \ {t} : Driving(s) => active'[task[s].proc][task[s].run] = s
    BY <1>1, <1>2, <2>2, ExecutorAssumption DEF OneDriver, Driving
  <2>4. active'[task'[t].proc][task'[t].run] = t
    BY <1>1, <1>3, <2>1, <2>2, MoveEffect DEF Claim
  <2> QED
    BY <1>1, <2>3, <2>4 DEF OneDriver, Driving
<1>4. CASE GiveUp(t)
  BY <1>1, <1>4 DEF GiveUp, OneDriver, Driving, NoTask
<1>5. CASE Release(t)
  <2>1. PICK p \in Procs, r \in Runs : p = task[t].proc /\ r = task[t].run
    BY <1>2, <1>5 DEF Release
  <2>2. active[p][r] = t /\ active' = [active EXCEPT ![p][r] = Nobody]
    BY <1>5, <2>1 DEF Release, OneDriver, Driving
  <2>3. \A s \in Tasks \ {t} : Driving(s) => active'[task[s].proc][task[s].run] = s
    BY <1>1, <1>2, <2>2 DEF OneDriver, Driving
  <2> QED
    BY <1>1, <1>5, <2>3 DEF OneDriver, Driving, Release, NoTask
<1>6. CASE ~ Claim(t) /\ ~ GiveUp(t) /\ ~ Release(t)
  BY <1>1, <1>6, DriverMoves DEF OneDriver, Driving
<1> QED
  BY <1>3, <1>4, <1>5, <1>6

LEMMA OtherDriver ==
    ASSUME TypeOK, OneDriver,
           \/ \E c \in Readers : RequestStep(c)
           \/ \E p \in Procs : ProcStep(p)
           \/ task' = task /\ active' = active
    PROVE  OneDriver'
<1>1. task \in [Tasks -> Task] /\ active \in [Procs -> [Runs -> Tasks \cup {Nobody}]]
  BY DEF TypeOK
<1>2. CASE task' = task /\ active' = active
  BY <1>2 DEF OneDriver, Driving
<1>3. ASSUME NEW c \in Readers, NEW t \in Tasks, Spawn(c, t)
      PROVE  OneDriver'
  BY <1>1, <1>3 DEF Spawn, OneDriver, Driving, NoTask
<1>4. ASSUME NEW c \in Readers, CancelActive(c)
      PROVE  OneDriver'
  <2>1. active' = active /\ \A t \in Tasks : /\ task'[t].pc = task[t].pc
                                             /\ task'[t].run = task[t].run
                                             /\ task'[t].proc = task[t].proc
    BY <1>1, <1>4 DEF CancelActive, Task
  <2> QED
    BY <2>1 DEF OneDriver, Driving
<1>5. ASSUME NEW c \in Readers, ResumeCommit(c) \/ ResumeRefused(c) \/ SpawnRefused(c)
             \/ FailShutdown(c)
      PROVE  OneDriver'
  BY <1>2, <1>5 DEF ResumeCommit, ResumeRefused, SpawnRefused, FailShutdown
<1>6. ASSUME NEW p \in Procs, Exit(p)
      PROVE  OneDriver'
  BY <1>1, <1>6 DEF Exit, OneDriver, Driving, NoTask
<1>7. ASSUME NEW p \in Procs, Boot(p) \/ Lead(p) \/ LoseLock(p) \/ NoticeLoss(p)
             \/ Signal(p) \/ Drain(p) \/ StopWork(p)
      PROVE  OneDriver'
  BY <1>2, <1>7 DEF Boot, Lead, LoseLock, NoticeLoss, Signal, Drain, StopWork, ProcFrame
<1> QED
  BY <1>2, <1>3, <1>4, <1>5, <1>6, <1>7 DEF RequestStep, ProcStep

(* What a user does directly concerns no goroutine and no slot. *)
LEMMA UsersElsewhere ==
    ASSUME UserAction \/ AnyUserAction \/ Sweep
    PROVE  task' = task /\ active' = active
<1>1. ASSUME NEW p \in Procs, NEW r \in Runs, NEW u \in Users, NEW c \in Readers,
             \/ \E b \in Runbooks, f \in Plans : Start(c, p, r, b, u, f)
             \/ Approve(c, p, r, u) \/ \E d \in Decisions : ResumeRead(c, p, r, u, d)
      PROVE  task' = task /\ active' = active
  BY <1>1 DEF Start, Approve, ResumeRead
<1>2. ASSUME NEW p \in Procs, NEW r \in Runs, NEW u \in Users,
             Reject(p, r, u) \/ \E b \in Runbooks, f \in Plans : Request(p, r, b, u, f)
      PROVE  task' = task /\ active' = active
  BY <1>2 DEF Reject, Request
<1>3. CASE AnyUserAction
  BY <1>3 DEF AnyUserAction, Cancel, Confirm
<1>4. CASE Sweep
  BY <1>4 DEF Sweep
<1> QED
  BY <1>1, <1>2, <1>3, <1>4 DEF UserAction

LEMMA DriverKept ==
    ASSUME TypeOK, Knowledge, OneDriver, [Next]_vars
    PROVE  OneDriver'
<1>1. CASE UNCHANGED vars
  BY <1>1, OtherDriver DEF vars
<1>2. CASE Next
  BY <1>2, TaskDriver, OtherDriver, UsersElsewhere DEF Next
<1> QED
  BY <1>1, <1>2

-----------------------------------------------------------------------------
(* The theorems.                                                           *)

(* The inductive invariant.  The order of the steps is needed to know that *)
(* a confirmed step is the first unfinished one, and what the goroutines   *)
(* know to see that their writes respect the order.                        *)
IInv == TypeOK /\ Knowledge /\ StepsInOrder /\ SucceededRunComplete /\ OneDriver

LEMMA InitIInv == Init => IInv
<1> SUFFICES ASSUME Init
             PROVE  IInv
  OBVIOUS
<1> USE StoreAssumption, ExecutorAssumption DEF Init, DbInit
<1>1. DbTypeOK
  BY DEF DbTypeOK, Row, NoRow, RunStates, OpenStates, TerminalStates, StepStates
<1>2. NoTask \in Task /\ NoRequest \in PendingRequest
  BY DEF NoTask, Task, TaskPcs, StepStates, NoRequest, PendingRequest, Decisions
<1>3. TypeOK
  BY <1>1, <1>2 DEF TypeOK, Facts
<1>4. Knowledge /\ OneDriver
  BY DEF Knowledge, OneDriver, Driving, NoTask, NoRequest
<1>5. StepsInOrder /\ SucceededRunComplete
  BY DEF StepsInOrder, SucceededRunComplete, NoRow
<1> QED
  BY <1>3, <1>4, <1>5 DEF IInv

LEMMA StepIInv == IInv /\ [Next]_vars => IInv'
<1> SUFFICES ASSUME IInv, [Next]_vars
             PROVE  IInv'
  OBVIOUS
<1>1. OrderedOrNot
  BY Implements DEF IInv
<1> QED
  BY <1>1, StepType, StepKnowledge, OrderKept, CompleteKept, DriverKept DEF IInv

THEOREM Invariance == Spec => []IInv
BY InitIInv, StepIInv, PTL DEF Spec

(* Every variable keeps its type, the fields that goroutines and handlers  *)
(* carry from one call to the next included.                               *)
THEOREM TypeCorrect == Spec => []TypeOK
<1>1. IInv => TypeOK
  BY DEF IInv
<1> QED
  BY <1>1, Invariance, PTL

(* No step of a run is begun before the earlier ones succeeded, for any    *)
(* number of processes, goroutines and requests, with or without leader    *)
(* election, crashes and failed store calls (the guarded step writes of    *)
(* runbook_run.go and the choice of the first unfinished step).            *)
THEOREM InOrder == Spec => []StepsInOrder
<1>1. IInv => StepsInOrder
  BY DEF IInv
<1> QED
  BY <1>1, Invariance, PTL

(* A run recorded as succeeded has no step that is not.                    *)
THEOREM Complete == Spec => []SucceededRunComplete
<1>1. IInv => SucceededRunComplete
  BY DEF IInv
<1> QED
  BY <1>1, Invariance, PTL

(* In a process at most one goroutine drives a run, and the registry holds *)
(* it (claim and the deferred release in spawn).                           *)
THEOREM SingleDriver == Spec => []OneDriver
<1>1. IInv => OneDriver
  BY DEF IInv
<1> QED
  BY <1>1, Invariance, PTL

(* The executor implements the store: whatever it does to the tables is    *)
(* one transaction of the store or nothing.                                *)
THEOREM Implementation == Spec => StoreSpec
<1>1. Init => DbInit
  BY DEF Init
<1>2. IInv /\ [Next]_vars => [StoreNext]_dbVars
  BY Implements DEF IInv, OrderedOrNot, OrderedNext, StoreNext
<1> QED
  BY <1>1, <1>2, Invariance, PTL DEF Spec, StoreSpec

(* So what the store promises holds of the executor: a finished run is     *)
(* history,                                                                *)
THEOREM RunFinishedFrozen == Spec => FinishedRunsAreFrozen
BY Implementation, FinishedFrozen, PTL

(* a success is never taken back,                                          *)
THEOREM RunSuccessKept == Spec => SuccessIsFinal
BY Implementation, SuccessKept, PTL

(* and a runbook has at most one open run.                                 *)
THEOREM RunOneOpen == Spec => []OneOpenRunPerRunbook
BY Implementation, OneOpenRun, PTL

=============================================================================
