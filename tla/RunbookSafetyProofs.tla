------------------------- MODULE RunbookSafetyProofs -------------------------
(***************************************************************************)
(* What holds of the executor for any number of processes and needs to     *)
(* know what becomes of a run between two calls: the two-person rule, the  *)
(* manual steps, and decisions about an outcome nobody knows.              *)
(*                                                                         *)
(* The first part says what one step of the system can do to one run; the  *)
(* invariants are then checked against that list.                          *)
(***************************************************************************)
EXTENDS RunbookRunProofs

Ended == TerminalStates \cup {"pruned"}

SameOwner(q) ==
    /\ row'[q].plan = row[q].plan /\ row'[q].gated = row[q].gated
    /\ row'[q].startedBy = row[q].startedBy /\ row'[q].approvedBy = row[q].approvedBy

(* The state of q goes from a to b, and nothing else of the row changes    *)
(* but the user who resumed it last.                                       *)
Turns(q, a, b) == row[q].state = a /\ row'[q].state = b /\ SameOwner(q)

OneStep(q, i, from, to) ==
    /\ step[q][i] = from /\ step'[q][i] = to
    /\ \A j \in Steps \ {i} : step'[q][j] = step[q][j]

AllSteps(q, F(_)) == \A j \in Steps : step'[q][j] = F(step[q][j])

Untouched(q) == row'[q] = row[q] /\ step'[q] = step[q]

Opens(q) ==
    /\ row[q].state = "absent"
    /\ row'[q].state = IF row'[q].gated THEN "awaiting_approval" ELSE "running"
    /\ row'[q].approvedBy = Nobody
    /\ \A j \in Steps : step'[q][j] = "pending"

IsApproved(q) ==
    /\ row[q].state = "awaiting_approval" /\ row'[q].state = "running"
    /\ row'[q].gated = row[q].gated /\ row'[q].plan = row[q].plan
    /\ row'[q].approvedBy \notin {Nobody, row'[q].startedBy}
    /\ row'[q].startedBy = row[q].startedBy
    /\ step'[q] = step[q]

Skipped(s) == IF s = "pending" THEN "skipped" ELSE s

(* The run ends, fails or goes on, and its steps with it. *)
RunTurns(q) ==
    \/ /\ \E b \in {"rejected", "expired"} : Turns(q, "awaiting_approval", b)
       /\ AllSteps(q, Skipped)
    \/ /\ \E a \in OpenStates, b \in {"cancelled", "expired"} : Turns(q, a, b)
       /\ AllSteps(q, Closed)
    \/ Turns(q, "running", "failed") /\ AllSteps(q, Interrupted)
    \/ /\ step'[q] = step[q]
       /\ \/ Turns(q, "running", "succeeded") \/ Turns(q, "running", "failed")
          \/ Turns(q, "failed", "running")
          \/ \E a \in TerminalStates : Turns(q, a, "pruned")

(* One step of it is begun, ends, waits, is confirmed or is called done. *)
StepTurns(q, i) ==
    \/ /\ Turns(q, "running", "running")
       /\ \/ \E s \in {"pending", "failed", "unknown"} : OneStep(q, i, s, "running")
             /\ row[q].plan[i] # "manual"
          \/ OneStep(q, i, "running", "succeeded")
    \/ /\ Turns(q, "running", "waiting_manual")
       /\ OneStep(q, i, "pending", "waiting") /\ row[q].plan[i] = "manual"
    \/ /\ Turns(q, "running", "failed")
       /\ \E s \in {"failed", "unknown"} : OneStep(q, i, "running", s)
    \/ Turns(q, "running", "succeeded") /\ OneStep(q, i, "running", "succeeded")
    \/ /\ Turns(q, "waiting_manual", "running")
       /\ OneStep(q, i, "waiting", "succeeded") /\ row[q].plan[i] = "manual"
    \/ Turns(q, "failed", "running") /\ OneStep(q, i, "unknown", "succeeded")

(* Everything a step of the system can do to run q. *)
RunMoves(q) ==
    \/ Untouched(q) \/ Opens(q) \/ IsApproved(q) \/ RunTurns(q)
    \/ \E i \in Steps : StepTurns(q, i)

(* A write of the state alone. *)
LEMMA SetRunTurns ==
    ASSUME DbTypeOK, NEW q \in Runs, NEW b, SetRun(q, b)
    PROVE  row'[q].state = b /\ SameOwner(q) /\ row'[q].resumedBy = row[q].resumedBy
BY DEF DbTypeOK, Row, SetRun, SameOwner

LEMMA SetStepOne ==
    ASSUME DbTypeOK, NEW q \in Runs, NEW i \in Steps, NEW s, SetStep(q, i, s)
    PROVE  step'[q][i] = s /\ \A j \in Steps \ {i} : step'[q][j] = step[q][j]
BY DEF DbTypeOK, SetStep

LEMMA RunWriteMoves ==
    ASSUME DbTypeOK, NEW q \in Runs, RunWrite(q), ByAnother(q)
    PROVE  RunMoves(q)
<1> USE DEF DbTypeOK
<1>1. ASSUME NEW b \in Runbooks, NEW u \in Users, NEW p \in Plans, NEW gate \in BOOLEAN,
             CreateRunbookRun(q, b, u, p, gate)
      PROVE  Opens(q)
  <2>1. /\ row'[q].state = IF gate THEN "awaiting_approval" ELSE "running"
        /\ row'[q].gated = gate /\ row'[q].approvedBy = Nobody
    BY <1>1 DEF CreateRunbookRun, NoRow
  <2>2. \A j \in Steps : step'[q][j] = "pending"
    BY <1>1 DEF CreateRunbookRun
  <2> QED
    BY <1>1, <2>1, <2>2 DEF CreateRunbookRun, Opens
<1>2. ASSUME NEW u \in Users, ApproveRunbookRun(q, u)
      PROVE  IsApproved(q)
  <2>1. row' = [row EXCEPT ![q].state = "running", ![q].approvedBy = u]
        /\ row[q].state = "awaiting_approval" /\ step' = step
    BY <1>2 DEF ApproveRunbookRun
  <2>2. /\ row'[q].state = "running" /\ row'[q].gated = row[q].gated
        /\ row'[q].plan = row[q].plan /\ row'[q].startedBy = row[q].startedBy
    BY <2>1 DEF Row
  <2> QED
    BY <2>1, <2>2 DEF ByAnother, IsApproved
<1>3. CASE RejectRunbookRun(q) \/ ExpireAwaitingApprovalRunbookRun(q)
  <2>1. \E b \in {"rejected", "expired"} : Turns(q, "awaiting_approval", b)
    BY <1>3, SetRunTurns DEF RejectRunbookRun, ExpireAwaitingApprovalRunbookRun, Turns
  <2>2. AllSteps(q, Skipped)
    BY <1>3 DEF RejectRunbookRun, ExpireAwaitingApprovalRunbookRun, SkipPending, AllSteps,
                Skipped
  <2> QED
    BY <2>1, <2>2 DEF RunTurns, RunMoves
<1>4. CASE CancelRunbookRun(q) \/ ExpireOpenRunbookRun(q)
  <2>1. \E a \in OpenStates, b \in {"cancelled", "expired"} : Turns(q, a, b)
    BY <1>4, SetRunTurns DEF CancelRunbookRun, ExpireOpenRunbookRun, Turns, IsOpen, OpenStates
  <2>2. AllSteps(q, Closed)
    BY <1>4 DEF CancelRunbookRun, ExpireOpenRunbookRun, CloseSteps, AllSteps
  <2> QED
    BY <2>1, <2>2 DEF RunTurns, RunMoves
<1>5. ASSUME NEW to \in {"failed", "succeeded"}, UpdateRunbookRun(q, to)
      PROVE  RunTurns(q)
  BY <1>5, SetRunTurns DEF UpdateRunbookRun, Turns, RunTurns
<1>6. ASSUME NEW c \in Readers, NEW u \in Users, ResumeRunbookRun(c, q, u)
      PROVE  RunTurns(q)
  <2>1. /\ row' = [row EXCEPT ![q].state = "running", ![q].resumedBy = u]
        /\ row[q].state = "failed" /\ step' = step
    BY <1>6 DEF ResumeRunbookRun, CanResume
  <2>2. row'[q].state = "running" /\ SameOwner(q)
    BY <2>1 DEF Row, SameOwner
  <2> QED
    BY <2>1, <2>2 DEF Turns, RunTurns
<1>7. CASE PruneRunbookRun(q)
  BY <1>7, SetRunTurns DEF PruneRunbookRun, Turns, RunTurns, RunMoves
<1>8. CASE \E c \in Readers : ReadRevision(c, q) /\ UNCHANGED <<row, step>>
  BY <1>8 DEF RunMoves, Untouched
<1> QED
  BY <1>1, <1>2, <1>3, <1>4, <1>5, <1>6, <1>7, <1>8 DEF RunWrite, RunMoves

LEMMA StepWriteMoves ==
    ASSUME DbTypeOK, NEW q \in Runs, NEW i \in Steps, StepWrite(q, i), FitsKind(q, i)
    PROVE  StepTurns(q, i)
<1>0. row \in [Runs -> Row] /\ \A s : SetStep(q, i, s) => FitsKind(q, i) /\ step'[q][i] = s
  BY SetStepOne DEF DbTypeOK
<1>1. ASSUME NEW from, NEW to, UpdateRunbookRunStep(q, i, from, to)
      PROVE  Turns(q, "running", "running") /\ OneStep(q, i, from, to)
  BY <1>1, SetStepOne
     DEF UpdateRunbookRunStep, CanUpdateStep, Turns, SameOwner, OneStep
<1>2. ASSUME NEW from, NEW to, NEW b, TransitionWithStep(q, i, from, to, b)
      PROVE  Turns(q, "running", b) /\ OneStep(q, i, from, to)
  BY <1>2, SetStepOne, SetRunTurns DEF TransitionWithStep, CanUpdateStep, Turns, OneStep
<1>3. CASE StartStepWrite(q, i)
  BY <1>1, <1>3 DEF StartStepWrite, OneStep, FitsKind, StepTurns
<1>4. CASE UpdateRunbookRunStep(q, i, "running", "succeeded")
  BY <1>1, <1>4 DEF StepTurns
<1>5. CASE PauseRunbookRunOnManualStep(q, i)
  BY <1>2, <1>5 DEF PauseRunbookRunOnManualStep, OneStep, FitsKind, StepTurns
<1>6. ASSUME NEW s \in {"failed", "unknown"}, FailRunbookRunStep(q, i, s)
      PROVE  StepTurns(q, i)
  BY <1>2, <1>6 DEF FailRunbookRunStep, StepTurns
<1>7. CASE FinishRunbookRun(q, i)
  BY <1>2, <1>7 DEF FinishRunbookRun, StepTurns
<1>8. CASE ConfirmRunbookRunStep(q, i)
  BY <1>8, SetStepOne, SetRunTurns DEF ConfirmRunbookRunStep, Turns, OneStep, StepTurns
<1>9. ASSUME NEW c \in Readers, NEW u \in Users, ResumeRunbookRunMarkingStepDone(c, q, i, u)
      PROVE  StepTurns(q, i)
  <2>1. /\ row' = [row EXCEPT ![q].state = "running", ![q].resumedBy = u]
        /\ row[q].state = "failed" /\ step[q][i] = "unknown" /\ SetStep(q, i, "succeeded")
    BY <1>9 DEF ResumeRunbookRunMarkingStepDone, CanMarkDone, CanResume
  <2>2. row'[q].state = "running" /\ SameOwner(q)
    BY <1>0, <2>1 DEF Row, SameOwner
  <2> QED
    BY <2>1, <2>2, SetStepOne DEF Turns, OneStep, StepTurns
<1> QED
  BY <1>3, <1>4, <1>5, <1>6, <1>7, <1>8, <1>9 DEF StepWrite

LEMMA Moves ==
    ASSUME TypeOK, OrderedOrNot, NEW q \in Runs
    PROVE  RunMoves(q)
<1>0. DbTypeOK
  BY DEF TypeOK
<1>1. CASE UNCHANGED dbVars
  BY <1>1 DEF dbVars, RunMoves, Untouched
<1>2. ASSUME NEW r \in Runs, r # q, RunWrite(r) \/ \E i \in Steps : StepWrite(r, i)
      PROVE  RunMoves(q)
  BY <1>0, <1>2, OthersUntouched DEF RunMoves, Untouched
<1>3. CASE RunWrite(q) /\ ByAnother(q)
  BY <1>0, <1>3, RunWriteMoves
<1>4. ASSUME NEW i \in Steps, StepWrite(q, i), FitsKind(q, i)
      PROVE  RunMoves(q)
  BY <1>0, <1>4, StepWriteMoves DEF RunMoves
<1>5. CASE InterruptRunningRunbookRuns
  <2>1. CASE q \in Running
    <3>1. Turns(q, "running", "failed") /\ AllSteps(q, Interrupted)
      BY <1>0, <1>5, <2>1
         DEF InterruptRunningRunbookRuns, Running, Turns, SameOwner, AllSteps, DbTypeOK, Row
    <3> QED
      BY <3>1 DEF RunTurns, RunMoves
  <2>2. CASE q \notin Running
    BY <1>5, <2>2 DEF InterruptRunningRunbookRuns, RunMoves, Untouched
  <2> QED
    BY <2>1, <2>2
<1> QED
  BY <1>1, <1>2, <1>3, <1>4, <1>5 DEF OrderedOrNot, OrderedNext

-----------------------------------------------------------------------------
(* The invariant of one run: who approved it, and which of its steps may   *)
(* wait, be skipped or have been touched at all.                           *)

Cleared(r) == row[r].gated => row[r].approvedBy \notin {Nobody, row[r].startedBy}

(* A run that needs approval is executed only with another user's, *)
ApprovedFirst(r) ==
    row[r].state \in {"running", "waiting_manual", "failed", "succeeded"} => Cleared(r)

(* a run waits only with a step that does, *)
HasWaiting(r) ==
    row[r].state = "waiting_manual" => \E i \in Steps : step[r][i] = "waiting"

(* and each step agrees with its run. *)
StepFits(r, i) ==
    /\ step[r][i] = "waiting" =>
          row[r].state = "waiting_manual" /\ row[r].plan[i] = "manual"
    /\ (row[r].state # "absent" /\ row[r].plan[i] = "manual") =>
          step[r][i] \in {"pending", "waiting", "succeeded", "skipped"}
    /\ step[r][i] = "skipped" => row[r].state \in Ended
    /\ (row[r].state = "absent" \/ ~ Cleared(r)) => step[r][i] \in {"pending", "skipped"}

RunFits(r) == ApprovedFirst(r) /\ HasWaiting(r) /\ \A i \in Steps : StepFits(r, i)

(* The owner of a run and its approval do not change once it is created,   *)
(* except that a run waiting for approval gets it.                         *)
LEMMA ClearedMoves ==
    ASSUME TypeOK, OrderedOrNot, NEW q \in Runs
    PROVE  /\ row[q].state # "absent" /\ Cleared(q) => Cleared(q)'
           /\ RunTurns(q) => Cleared(q)' = Cleared(q)
           /\ \A i \in Steps : StepTurns(q, i) => Cleared(q)' = Cleared(q)
<1>1. SameOwner(q) \/ Untouched(q) => Cleared(q)' = Cleared(q)
  BY DEF SameOwner, Untouched, Cleared
<1>2. RunTurns(q) => SameOwner(q)
  BY DEF RunTurns, Turns
<1>3. \A i \in Steps : StepTurns(q, i) => SameOwner(q)
  BY DEF StepTurns, Turns
<1>4. IsApproved(q) => Cleared(q)'
  BY DEF IsApproved, Cleared
<1>5. row[q].state # "absent" => ~ Opens(q)
  BY DEF Opens
<1> QED
  BY <1>1, <1>2, <1>3, <1>4, <1>5, Moves DEF RunMoves

LEMMA RunFitsKept ==
    ASSUME TypeOK, StepsInOrder, OrderedOrNot, NEW q \in Runs, RunFits(q)
    PROVE  RunFits(q)'
<1> USE DEF RunFits, ApprovedFirst, HasWaiting, StepFits
<1>0. /\ \A i \in Steps : step[q][i] \in StepStates
      /\ RunTurns(q) => Cleared(q)' = Cleared(q)
      /\ \A i \in Steps : StepTurns(q, i) => Cleared(q)' = Cleared(q)
  BY ClearedMoves DEF TypeOK, DbTypeOK
<1>1. CASE Untouched(q)
  BY <1>1 DEF Untouched, Cleared
<1>2. CASE Opens(q)
  BY <1>2 DEF Opens, Cleared
<1>3. CASE IsApproved(q)
  BY <1>3 DEF IsApproved, Cleared, Ended, TerminalStates
<1>4. CASE RunTurns(q)
  <2>1. ASSUME NEW b \in {"rejected", "expired"}, Turns(q, "awaiting_approval", b),
               AllSteps(q, Skipped)
        PROVE  RunFits(q)'
    BY <1>0, <1>4, <2>1 DEF Turns, SameOwner, AllSteps, Skipped, Ended, TerminalStates
  <2>2. ASSUME NEW a \in OpenStates, NEW b \in {"cancelled", "expired"}, Turns(q, a, b),
               AllSteps(q, Closed)
        PROVE  RunFits(q)'
    BY <1>0, <1>4, <2>2 DEF Turns, SameOwner, AllSteps, Closed, Ended, TerminalStates, OpenStates
  <2>3. CASE Turns(q, "running", "failed") /\ AllSteps(q, Interrupted)
    BY <1>0, <1>4, <2>3 DEF Turns, SameOwner, AllSteps, Interrupted, Ended, TerminalStates
  <2>4. CASE /\ step'[q] = step[q]
             /\ \/ Turns(q, "running", "succeeded") \/ Turns(q, "running", "failed")
                \/ Turns(q, "failed", "running")
                \/ \E a \in TerminalStates : Turns(q, a, "pruned")
    BY <1>0, <1>4, <2>4 DEF Turns, SameOwner, Ended, TerminalStates
  <2> QED
    BY <1>4, <2>1, <2>2, <2>3, <2>4 DEF RunTurns
<1>5. ASSUME NEW i \in Steps, StepTurns(q, i)
      PROVE  RunFits(q)'
  <2>1. \A j \in Steps : step[q][j] = "waiting" /\ step[q][i] = "waiting" => i = j
    BY StoreAssumption DEF StepsInOrder, Steps
  <2>2. CASE Turns(q, "running", "running")
    BY <1>0, <1>5, <2>2 DEF StepTurns, Turns, SameOwner, OneStep, Ended, TerminalStates
  <2>3. CASE Turns(q, "running", "waiting_manual")
    BY <1>0, <1>5, <2>3 DEF StepTurns, Turns, SameOwner, OneStep, Ended, TerminalStates
  <2>4. CASE Turns(q, "running", "failed") \/ Turns(q, "running", "succeeded")
    BY <1>0, <1>5, <2>4 DEF StepTurns, Turns, SameOwner, OneStep, Ended, TerminalStates
  <2>5. CASE Turns(q, "waiting_manual", "running")
    BY <1>0, <1>5, <2>1, <2>5 DEF StepTurns, Turns, SameOwner, OneStep, Ended, TerminalStates
  <2>6. CASE Turns(q, "failed", "running")
    BY <1>0, <1>5, <2>6 DEF StepTurns, Turns, SameOwner, OneStep, Ended, TerminalStates
  <2> QED
    BY <1>5, <2>2, <2>3, <2>4, <2>5, <2>6 DEF StepTurns
<1> QED
  BY <1>1, <1>2, <1>3, <1>4, <1>5, Moves DEF RunMoves

-----------------------------------------------------------------------------
(* Where goroutines and handlers come from, and what they change beside    *)
(* the tables.                                                             *)

(* A goroutine keeps its run, and a new one has that of a handler.         *)
TaskMoves(t) ==
    \/ task'[t].pc = "none"
    \/ task[t].pc # "none" /\ task'[t].run = task[t].run
    \/ \E c \in Readers : request[c].pc = "spawn" /\ task'[t].run = request[c].run

LEMMA TasksMove ==
    ASSUME TypeOK, [Next]_vars, NEW t \in Tasks
    PROVE  TaskMoves(t)
<1>0. task \in [Tasks -> Task]
  BY DEF TypeOK
<1> USE DEF TaskMoves
<1>1. CASE task' = task
  BY <1>1
<1>2. ASSUME NEW s \in Tasks, TaskStep(s)
      PROVE  TaskMoves(t)
  <2>1. CASE s # t
    BY <1>2, <2>1, OthersKept
  <2>2. CASE Claim(t)
    BY <1>0, <2>2, MoveEffect DEF Claim
  <2>3. CASE GiveUp(t) \/ Release(t)
    BY <1>0, <2>3 DEF GiveUp, Release, NoTask
  <2>4. CASE s = t /\ ~ Claim(t) /\ ~ GiveUp(t) /\ ~ Release(t)
    BY <1>2, <2>4, DriverMoves DEF Driving
  <2> QED
    BY <1>2, <2>1, <2>2, <2>3, <2>4
<1>3. ASSUME NEW c \in Readers, NEW s \in Tasks, Spawn(c, s)
      PROVE  TaskMoves(t)
  <2>1. CASE s = t
    BY <1>0, <1>3, <2>1 DEF Spawn, NoTask
  <2>2. CASE s # t
    BY <1>0, <1>3, <2>2 DEF Spawn
  <2> QED
    BY <2>1, <2>2
<1>4. ASSUME NEW c \in Readers, CancelActive(c)
      PROVE  TaskMoves(t)
  <2>1. task'[t].pc = task[t].pc /\ task'[t].run = task[t].run
    BY <1>0, <1>4 DEF CancelActive, Task
  <2> QED
    BY <2>1
<1>5. ASSUME NEW c \in Readers, ResumeCommit(c) \/ ResumeRefused(c) \/ SpawnRefused(c)
             \/ FailShutdown(c)
      PROVE  task' = task
  BY <1>5 DEF ResumeCommit, ResumeRefused, SpawnRefused, FailShutdown
<1>6. ASSUME NEW p \in Procs, Exit(p)
      PROVE  TaskMoves(t)
  BY <1>0, <1>6 DEF Exit, NoTask
<1>7. ASSUME NEW p \in Procs, Boot(p) \/ Lead(p) \/ LoseLock(p) \/ NoticeLoss(p)
             \/ Signal(p) \/ Drain(p) \/ StopWork(p)
      PROVE  task' = task
  BY <1>7 DEF Boot, Lead, LoseLock, NoticeLoss, Signal, Drain, StopWork, ProcFrame
<1>8. CASE UserAction \/ AnyUserAction \/ Sweep
  BY <1>1, <1>8, UsersElsewhere
<1>9. CASE UNCHANGED vars
  BY <1>1, <1>9 DEF vars
<1> QED
  BY <1>1, <1>2, <1>3, <1>4, <1>5, <1>6, <1>7, <1>8, <1>9 DEF Next, RequestStep, ProcStep

(* A handler that waits to spawn a goroutine has made its run run.         *)
RequestMoves(c) ==
    \/ request'[c] = request[c]
    \/ request'[c].pc \in {"none", "cancel"}
    \/ /\ request[c].pc = "spawn" /\ request'[c].pc = "failshutdown"
       /\ request'[c].run = request[c].run /\ row' = row
    \/ /\ request[c].pc = "none" /\ request'[c].pc = "spawn" /\ request'[c].run \in Runs
       /\ row[request'[c].run].state \in {"absent", "awaiting_approval", "waiting_manual"}
       /\ row'[request'[c].run].state = "running"
    \/ ResumeCommit(c)
    \/ \E p \in Procs, r \in Runs, u \in Users, d \in Decisions : ResumeRead(c, p, r, u, d)

(* The steps of users, and whose request they are. *)
LEMMA UserMoves ==
    ASSUME TypeOK, UserAction \/ AnyUserAction \/ Sweep, NEW c \in Readers
    PROVE  RequestMoves(c)
<1>0. request \in [Readers -> PendingRequest] /\ DbTypeOK
  BY DEF TypeOK
<1> USE DEF RequestMoves
<1>1. ASSUME NEW e \in Readers, NEW p \in Procs, NEW r \in Runs, NEW pc,
             Idle(e), Accepted(e, r, p, pc),
             \/ pc = "cancel"
             \/ /\ pc = "spawn" /\ row'[r].state = "running"
                /\ row[r].state \in {"absent", "awaiting_approval", "waiting_manual"}
      PROVE  RequestMoves(c)
  <2>1. CASE e # c
    BY <1>0, <1>1, <2>1 DEF Accepted
  <2>2. CASE e = c
    <3>1. request'[c].pc = pc /\ request'[c].run = r
      BY <1>0, <1>1, <2>2 DEF Accepted, NoRequest
    <3> QED
      BY <1>1, <2>2, <3>1 DEF Idle
  <2> QED
    BY <2>1, <2>2
<1>2. ASSUME NEW e \in Readers, NEW p \in Procs, NEW r \in Runs, NEW b \in Runbooks,
             NEW u \in Users, NEW f \in Plans, Start(e, p, r, b, u, f)
      PROVE  RequestMoves(c)
  <2>1. row[r].state = "absent" /\ row'[r].state = "running"
    BY <1>0, <1>2 DEF Start, CreateRunbookRun, NoRow, DbTypeOK
  <2> QED
    BY <1>1, <1>2, <2>1 DEF Start
<1>3. ASSUME NEW e \in Readers, NEW p \in Procs, NEW r \in Runs, NEW u \in Users,
             Approve(e, p, r, u)
      PROVE  RequestMoves(c)
  <2>1. row[r].state = "awaiting_approval" /\ row'[r].state = "running"
    BY <1>0, <1>3 DEF Approve, ApproveRunbookRun, DbTypeOK
  <2> QED
    BY <1>1, <1>3, <2>1 DEF Approve
<1>4. ASSUME NEW e \in Readers, NEW p \in Procs, NEW r \in Runs, NEW i \in Steps,
             Confirm(e, p, r, i)
      PROVE  RequestMoves(c)
  <2>1. row[r].state = "waiting_manual" /\ row'[r].state = "running"
    BY <1>0, <1>4 DEF Confirm, ConfirmRunbookRunStep, SetRun, DbTypeOK
  <2> QED
    BY <1>1, <1>4, <2>1 DEF Confirm
<1>5. ASSUME NEW e \in Readers, NEW p \in Procs, NEW r \in Runs, Cancel(e, p, r)
      PROVE  RequestMoves(c)
  BY <1>1, <1>5 DEF Cancel
<1>6. ASSUME NEW e \in Readers, NEW p \in Procs, NEW r \in Runs, NEW u \in Users,
             NEW d \in Decisions, ResumeRead(e, p, r, u, d)
      PROVE  RequestMoves(c)
  <2>1. CASE e = c
    BY <1>6, <2>1
  <2>2. CASE e # c
    BY <1>0, <1>6, <2>2 DEF ResumeRead
  <2> QED
    BY <2>1, <2>2
<1>7. ASSUME NEW p \in Procs, NEW r \in Runs, NEW u \in Users,
             Reject(p, r, u) \/ \E b \in Runbooks, f \in Plans : Request(p, r, b, u, f)
      PROVE  request' = request
  BY <1>7 DEF Reject, Request
<1>8. CASE Sweep
  BY <1>8 DEF Sweep
<1> QED
  BY <1>2, <1>3, <1>4, <1>5, <1>6, <1>7, <1>8 DEF UserAction, AnyUserAction

LEMMA RequestsMove ==
    ASSUME TypeOK, [Next]_vars, NEW c \in Readers
    PROVE  RequestMoves(c)
<1>0. request \in [Readers -> PendingRequest]
  BY DEF TypeOK
<1>1. ASSUME NEW t \in Tasks, TaskStep(t)
      PROVE  request' = request
  BY <1>1, OthersKept
<1>2. ASSUME NEW e \in Readers, RequestStep(e)
      PROVE  RequestMoves(c)
  <2>1. CASE e # c
    BY <1>0, <1>2, <2>1
       DEF RequestMoves, RequestStep, ResumeCommit, ResumeRefused, SpawnRefused, FailShutdown,
           CancelActive, Spawn, Done
  <2>2. CASE Done(c)
    BY <1>0, <2>2 DEF Done, NoRequest, RequestMoves
  <2>3. CASE SpawnRefused(c)
    <3>1. request' = [request EXCEPT ![c].pc = "failshutdown"] /\ request[c].pc = "spawn"
          /\ row' = row
      BY <2>3 DEF SpawnRefused, dbVars
    <3>2. request'[c].pc = "failshutdown" /\ request'[c].run = request[c].run
      BY <1>0, <3>1 DEF PendingRequest
    <3> QED
      BY <3>1, <3>2 DEF RequestMoves
  <2> QED
    BY <1>2, <2>1, <2>2, <2>3
       DEF RequestMoves, RequestStep, ResumeRefused, FailShutdown, CancelActive, Spawn
<1>3. ASSUME NEW p \in Procs, Exit(p)
      PROVE  RequestMoves(c)
  BY <1>0, <1>3 DEF Exit, NoRequest, RequestMoves
<1>4. ASSUME NEW p \in Procs, Boot(p) \/ Lead(p) \/ LoseLock(p) \/ NoticeLoss(p)
             \/ Signal(p) \/ Drain(p) \/ StopWork(p)
      PROVE  request' = request
  BY <1>4 DEF Boot, Lead, LoseLock, NoticeLoss, Signal, Drain, StopWork, ProcFrame
<1>5. CASE UNCHANGED vars
  BY <1>5 DEF vars, RequestMoves
<1> QED
  BY <1>1, <1>2, <1>3, <1>4, <1>5, UserMoves DEF Next, ProcStep, RequestMoves

(* Users ask and do not touch what happened or how often runs resumed,     *)
(* except that who confirms a step vouches for it.                         *)
LEMMA UsersAsk ==
    ASSUME UserAction \/ Sweep \/ (\E c \in Readers, p \in Procs, r \in Runs : Cancel(c, p, r))
    PROVE  fact' = fact /\ resumes' = resumes
<1>1. ASSUME NEW p \in Procs, NEW r \in Runs, NEW u \in Users, NEW c \in Readers,
             \/ \E b \in Runbooks, f \in Plans : Start(c, p, r, b, u, f)
             \/ Approve(c, p, r, u) \/ \E d \in Decisions : ResumeRead(c, p, r, u, d)
      PROVE  fact' = fact /\ resumes' = resumes
  BY <1>1 DEF Start, Approve, ResumeRead
<1>2. ASSUME NEW p \in Procs, NEW r \in Runs, NEW u \in Users,
             Reject(p, r, u) \/ \E b \in Runbooks, f \in Plans : Request(p, r, b, u, f)
      PROVE  fact' = fact /\ resumes' = resumes
  BY <1>2 DEF Reject, Request
<1>3. ASSUME NEW c \in Readers, NEW p \in Procs, NEW r \in Runs, Cancel(c, p, r)
      PROVE  fact' = fact /\ resumes' = resumes
  BY <1>3 DEF Cancel
<1>4. CASE Sweep
  BY <1>4 DEF Sweep
<1> QED
  BY <1>1, <1>2, <1>3, <1>4 DEF UserAction

LEMMA ProcsElsewhere ==
    ASSUME NEW p \in Procs, ProcStep(p)
    PROVE  fact' = fact /\ resumes' = resumes
BY DEF ProcStep, Boot, Lead, LoseLock, NoticeLoss, Signal, Drain, StopWork, Exit, ProcFrame

(* What happened to an operation changes when its goroutine hands it over  *)
(* or gets the answer, and when a user vouches for it.                     *)
FactMoves(r) ==
    \/ fact'[r] = fact[r]
    \/ \E t \in Tasks : task[t].pc \in {"perform", "effect"} /\ task[t].run = r
    \/ row[r].state = "waiting_manual"
    \/ \E c \in Readers : request[c].pc = "resume" /\ request[c].run = r

LEMMA FactsMove ==
    ASSUME TypeOK, [Next]_vars, NEW r \in Runs
    PROVE  FactMoves(r)
<1>0. fact \in [Runs -> [Steps -> Facts]]
  BY DEF TypeOK
<1> USE DEF FactMoves
<1>1. ASSUME NEW q, NEW i, NEW f, SetFact(q, i, f)
      PROVE  q = r \/ fact'[r] = fact[r]
  BY <1>0, <1>1 DEF SetFact
<1>2. ASSUME NEW t \in Tasks, Dispatch(t) \/ ReturnOk(t) \/ ReturnError(t)
      PROVE  FactMoves(r)
  BY <1>1, <1>2 DEF Dispatch, ReturnOk, ReturnError
<1>3. ASSUME NEW t \in Tasks, Claim(t) \/ GiveUp(t) \/ ReadRun(t) \/ ReadSteps(t)
             \/ FinishWithoutStep(t) \/ Pause(t) \/ StartStep(t) \/ Refuse(t)
             \/ RecordSuccess(t) \/ RecordFailure(t) \/ FailRun(t) \/ Release(t)
      PROVE  fact' = fact
  BY <1>3 DEF Claim, GiveUp, ReadRun, ReadSteps, FinishWithoutStep, Pause, StartStep, Refuse,
              RecordSuccess, RecordFailure, FailRun, Release
<1>4. ASSUME NEW c \in Readers, ResumeCommit(c)
      PROVE  FactMoves(r)
  <2>1. CASE request[c].run = r
    BY <1>4, <2>1 DEF ResumeCommit
  <2>2. CASE request[c].run # r
    BY <1>0, <1>4, <2>2 DEF ResumeCommit, SetFact
  <2> QED
    BY <2>1, <2>2
<1>5. ASSUME NEW c \in Readers, ResumeRefused(c) \/ SpawnRefused(c) \/ FailShutdown(c)
             \/ CancelActive(c) \/ \E t \in Tasks : Spawn(c, t)
      PROVE  fact' = fact
  BY <1>5 DEF ResumeRefused, SpawnRefused, FailShutdown, CancelActive, Spawn
<1>6. ASSUME NEW c \in Readers, NEW p \in Procs, NEW q \in Runs, NEW i \in Steps,
             Confirm(c, p, q, i)
      PROVE  FactMoves(r)
  BY <1>1, <1>6 DEF Confirm, ConfirmRunbookRunStep
<1>7. CASE UNCHANGED vars
  BY <1>7 DEF vars
<1> QED
  BY <1>2, <1>3, <1>4, <1>5, <1>6, <1>7, UsersAsk, ProcsElsewhere
     DEF Next, TaskStep, RequestStep, AnyUserAction

(* Only a resume counts as one, and it leaves no revision current. *)
LEMMA ResumesMove ==
    ASSUME TypeOK, Knowledge, [Next]_vars, NEW r \in Runs
    PROVE  resumes'[r] = resumes[r] \/ readers'[r] = {}
<1>1. ASSUME NEW c \in Readers, ResumeCommit(c)
      PROVE  resumes'[r] = resumes[r] \/ readers'[r] = {}
  <2>1. /\ request[c].run \in Runs /\ Touch(request[c].run)
        /\ resumes' = [resumes EXCEPT ![request[c].run] = @ + 1]
    BY <1>1 DEF ResumeCommit, ResumeRunbookRun, ResumeRunbookRunMarkingStepDone, Knowledge,
                RequestKnows
  <2> QED
    BY <2>1 DEF Touch, TypeOK, DbTypeOK
<1>2. ASSUME NEW t \in Tasks, TaskStep(t)
      PROVE  resumes' = resumes
  BY <1>2 DEF TaskStep, Claim, GiveUp, ReadRun, ReadSteps, FinishWithoutStep, Pause,
              StartStep, Refuse, Dispatch, ReturnOk, ReturnError, RecordSuccess,
              RecordFailure, FailRun, Release
<1>3. ASSUME NEW c \in Readers, ResumeRefused(c) \/ SpawnRefused(c) \/ FailShutdown(c)
             \/ CancelActive(c) \/ \E t \in Tasks : Spawn(c, t)
      PROVE  resumes' = resumes
  BY <1>3 DEF ResumeRefused, SpawnRefused, FailShutdown, CancelActive, Spawn
<1>4. ASSUME NEW c \in Readers, NEW p \in Procs, NEW q \in Runs, NEW i \in Steps,
             Confirm(c, p, q, i)
      PROVE  resumes' = resumes
  BY <1>4 DEF Confirm
<1>5. CASE UNCHANGED vars
  BY <1>5 DEF vars
<1> QED
  BY <1>1, <1>2, <1>3, <1>4, <1>5, UsersAsk, ProcsElsewhere
     DEF Next, RequestStep, AnyUserAction

(* A handler at work that still holds the revision held it before, and     *)
(* nobody wrote since.                                                     *)
LEMMA ReadersMove ==
    ASSUME TypeOK, OrderedOrNot, NEW q \in Runs, NEW c \in Readers, c \in readers'[q],
           request[c].pc # "none"
    PROVE  c \in readers[q] /\ Untouched(q)
<1>0. DbTypeOK /\ readers \in [Runs -> SUBSET Readers]
  BY DEF TypeOK, DbTypeOK
<1>1. CASE UNCHANGED dbVars
  BY <1>1 DEF dbVars, Untouched
<1>2. ASSUME NEW r \in Runs, RunWrite(r) /\ FreshReaders(r)
      PROVE  c \in readers[q] /\ Untouched(q)
  <2>1. CASE Touch(r)
    BY <1>0, <1>2, <2>1, OthersUntouched DEF Touch, Untouched
  <2>2. CASE \E e \in Readers : ReadRevision(e, r) /\ UNCHANGED <<row, step>>
    BY <1>0, <1>2, <2>2 DEF ReadRevision, Untouched, FreshReaders
  <2> QED
    BY <1>2, <2>1, <2>2
       DEF RunWrite, CreateRunbookRun, ApproveRunbookRun, RejectRunbookRun, UpdateRunbookRun,
           CancelRunbookRun, ResumeRunbookRun, ExpireOpenRunbookRun,
           ExpireAwaitingApprovalRunbookRun, PruneRunbookRun
<1>3. ASSUME NEW r \in Runs, NEW i \in Steps, StepWrite(r, i)
      PROVE  c \in readers[q] /\ Untouched(q)
  <2>1. Touch(r)
    BY <1>3 DEF StepWrite, StartStepWrite, UpdateRunbookRunStep, PauseRunbookRunOnManualStep,
                FailRunbookRunStep, FinishRunbookRun, TransitionWithStep,
                ConfirmRunbookRunStep, ResumeRunbookRunMarkingStepDone
  <2> QED
    BY <1>0, <1>3, <2>1, OthersUntouched DEF Touch, Untouched
<1>4. CASE InterruptRunningRunbookRuns
  BY <1>0, <1>4 DEF InterruptRunningRunbookRuns, Running, Untouched
<1> QED
  BY <1>1, <1>2, <1>3, <1>4 DEF OrderedOrNot, OrderedNext

-----------------------------------------------------------------------------
(* The invariant of the executor.                                          *)

(* Nothing reached a connector of a run that does not exist or still needs *)
(* an approval, *)
FactFits(r) ==
    (row[r].state = "absent" \/ ~ Cleared(r)) => \A i \in Steps : fact[r][i] = "none"

(* nobody is at work on one, *)
ClearedTask(t) == task[t].pc # "none" => Cleared(task[t].run)
ClearedRequest(c) ==
    request[c].pc \in {"resume", "spawn", "failshutdown"} => Cleared(request[c].run)

(* and a user who resumes a run decides about the run as it is, as long as *)
(* its revision is the one that was read.                                  *)
SeenRun(c) ==
    LET r == request[c].run  i == request[c].at IN
    (request[c].pc = "resume" /\ c \in readers[r]) =>
        /\ row[r].state = "failed" /\ request[c].saw = resumes[r]
        /\ IF request[c].decision = "none"
             THEN ~ \E j \in Steps : FirstUnfinished(r, j) /\ DecisionRequired(r, j)
             ELSE FirstUnfinished(r, i) /\ DecisionRequired(r, i)

Fitting ==
    /\ \A r \in Runs : RunFits(r) /\ FactFits(r)
    /\ \A t \in Tasks : ClearedTask(t)
    /\ \A c \in Readers : ClearedRequest(c) /\ SeenRun(c)

SafeInv == IInv /\ Fitting

(* Everybody at work is at work on a run that needs no further approval.   *)
LEMMA AtWorkCleared ==
    ASSUME SafeInv, NEW r \in Runs, FactMoves(r)
    PROVE  fact'[r] = fact[r] \/ (row[r].state # "absent" /\ Cleared(r))
<1>1. ASSUME NEW t \in Tasks, task[t].pc \in {"perform", "effect"}, task[t].run = r
      PROVE  row[r].state # "absent" /\ Cleared(r)
  BY <1>1 DEF SafeInv, IInv, Knowledge, TaskKnows, Fitting, ClearedTask
<1>2. ASSUME NEW c \in Readers, request[c].pc = "resume", request[c].run = r
      PROVE  row[r].state # "absent" /\ Cleared(r)
  BY <1>2 DEF SafeInv, IInv, Knowledge, RequestKnows, Fitting, ClearedRequest
<1>3. row[r].state = "waiting_manual" => Cleared(r)
  BY DEF SafeInv, Fitting, RunFits, ApprovedFirst
<1> QED
  BY <1>1, <1>2, <1>3 DEF FactMoves

LEMMA FactFitsKept ==
    ASSUME SafeInv, [Next]_vars, NEW r \in Runs
    PROVE  FactFits(r)'
<1>1. TypeOK /\ OrderedOrNot /\ FactFits(r)
  BY Implements DEF SafeInv, IInv, Fitting
<1>2. row[r].state # "absent" /\ Cleared(r) => row'[r].state # "absent" /\ Cleared(r)'
  BY <1>1, ClearedMoves, Stable
<1> QED
  BY <1>1, <1>2, FactsMove, AtWorkCleared DEF FactFits

LEMMA TaskClearedKept ==
    ASSUME SafeInv, [Next]_vars, NEW t \in Tasks
    PROVE  ClearedTask(t)'
<1>1. TypeOK /\ OrderedOrNot /\ TaskMoves(t)
  BY Implements, TasksMove DEF SafeInv, IInv
<1>2. CASE task[t].pc # "none" /\ task'[t].run = task[t].run
  <2>1. task[t].run \in Runs /\ row[task[t].run].state # "absent" /\ Cleared(task[t].run)
    BY <1>2 DEF SafeInv, IInv, Knowledge, TaskKnows, Fitting, ClearedTask
  <2> QED
    BY <1>1, <1>2, <2>1, ClearedMoves DEF ClearedTask, Cleared
<1>3. ASSUME NEW c \in Readers, request[c].pc = "spawn", task'[t].run = request[c].run
      PROVE  ClearedTask(t)'
  <2>1. /\ request[c].run \in Runs /\ row[request[c].run].state # "absent"
        /\ Cleared(request[c].run)
    BY <1>3 DEF SafeInv, IInv, Knowledge, RequestKnows, Fitting, ClearedRequest
  <2> QED
    BY <1>1, <1>3, <2>1, ClearedMoves DEF ClearedTask, Cleared
<1> QED
  BY <1>1, <1>2, <1>3 DEF TaskMoves, ClearedTask

LEMMA RequestClearedKept ==
    ASSUME SafeInv, [Next]_vars, NEW c \in Readers, \A r \in Runs : RunFits(r)'
    PROVE  ClearedRequest(c)'
<1>1. /\ TypeOK /\ OrderedOrNot /\ RequestMoves(c) /\ ClearedRequest(c)
      /\ request \in [Readers -> PendingRequest]
  BY Implements, RequestsMove DEF SafeInv, IInv, Fitting, TypeOK
<1>2. ASSUME request'[c].run = request[c].run,
             request[c].pc \in {"resume", "spawn", "failshutdown"}
      PROVE  ClearedRequest(c)'
  <2>1. /\ request[c].run \in Runs /\ row[request[c].run].state # "absent"
        /\ Cleared(request[c].run)
    BY <1>1, <1>2 DEF SafeInv, IInv, Knowledge, RequestKnows, ClearedRequest
  <2> QED
    BY <1>1, <1>2, <2>1, ClearedMoves DEF ClearedRequest, Cleared
<1>3. CASE /\ request[c].pc = "none" /\ request'[c].pc = "spawn" /\ request'[c].run \in Runs
           /\ row'[request'[c].run].state = "running"
  <2>1. PICK r \in Runs : r = request'[c].run
    BY <1>3
  <2>2. Cleared(r)'
    BY <1>3, <2>1 DEF RunFits, ApprovedFirst
  <2> QED
    BY <2>1, <2>2 DEF ClearedRequest, Cleared
<1>4. CASE ResumeCommit(c)
  <2>1. request[c].pc = "resume" /\ request'[c].run = request[c].run
    BY <1>1, <1>4 DEF ResumeCommit, PendingRequest
  <2> QED
    BY <1>2, <2>1
<1>5. ASSUME NEW p \in Procs, NEW r \in Runs, NEW u \in Users, NEW d \in Decisions,
             ResumeRead(c, p, r, u, d)
      PROVE  ClearedRequest(c)'
  <2>1. request'[c].run = r /\ row' = row /\ row[r].state = "failed"
    BY <1>1, <1>5 DEF ResumeRead
  <2>2. Cleared(r)
    BY <2>1 DEF SafeInv, Fitting, RunFits, ApprovedFirst
  <2> QED
    BY <2>1, <2>2 DEF ClearedRequest, Cleared
<1>6. CASE request'[c] = request[c]
  BY <1>2, <1>6 DEF ClearedRequest
<1>7. CASE request'[c].pc \in {"none", "cancel"}
  BY <1>7 DEF ClearedRequest
<1> QED
  BY <1>1, <1>2, <1>3, <1>4, <1>5, <1>6, <1>7 DEF RequestMoves

LEMMA SeenKept ==
    ASSUME SafeInv, [Next]_vars, NEW c \in Readers
    PROVE  SeenRun(c)'
<1>1. /\ TypeOK /\ OrderedOrNot /\ RequestMoves(c) /\ SeenRun(c) /\ Knowledge
      /\ request \in [Readers -> PendingRequest]
  BY Implements, RequestsMove DEF SafeInv, IInv, Fitting, TypeOK
<1>2. CASE request'[c] = request[c]
  <2> SUFFICES ASSUME request[c].pc = "resume", c \in readers'[request[c].run]
               PROVE  SeenRun(c)'
    BY <1>2 DEF SeenRun
  <2>1. PICK r \in Runs : r = request[c].run
    BY <1>1 DEF Knowledge, RequestKnows
  <2>2. c \in readers[r] /\ Untouched(r)
    BY <1>1, <2>1, ReadersMove
  <2>3. resumes'[r] = resumes[r]
    BY <1>1, <2>1, ResumesMove
  <2> QED
    BY <1>1, <1>2, <2>1, <2>2, <2>3
       DEF SeenRun, Untouched, FirstUnfinished, DecisionRequired
<1>3. ASSUME NEW p \in Procs, NEW r \in Runs, NEW u \in Users, NEW d \in Decisions,
             ResumeRead(c, p, r, u, d)
      PROVE  SeenRun(c)'
  <2>1. row[r].state = "failed" /\ row' = row /\ step' = step /\ resumes' = resumes
    BY <1>3 DEF ResumeRead
  <2>2. ASSUME NEW i \in Steps, FirstUnfinished(r, i), DecisionRequired(r, i), d # "none",
               request' = [request EXCEPT ![c] =
                  [pc |-> "resume", run |-> r, proc |-> p, user |-> u,
                   at |-> i, decision |-> d, saw |-> resumes[r]]]
        PROVE  SeenRun(c)'
    BY <1>1, <2>1, <2>2 DEF SeenRun, FirstUnfinished, DecisionRequired
  <2>3. CASE /\ ~ \E i \in Steps : FirstUnfinished(r, i) /\ DecisionRequired(r, i)
             /\ request' = [request EXCEPT ![c] =
                  [pc |-> "resume", run |-> r, proc |-> p, user |-> u,
                   at |-> 0, decision |-> "none", saw |-> resumes[r]]]
    BY <1>1, <2>1, <2>3 DEF SeenRun, FirstUnfinished, DecisionRequired
  <2> QED
    BY <1>3, <2>2, <2>3 DEF ResumeRead
<1>4. CASE request'[c].pc # "resume"
  BY <1>4 DEF SeenRun
<1>5. ResumeCommit(c) => request'[c].pc = "spawn"
  BY <1>1 DEF ResumeCommit
<1> QED
  BY <1>1, <1>2, <1>3, <1>4, <1>5 DEF RequestMoves

LEMMA InitSafe == Init => SafeInv
<1> SUFFICES ASSUME Init
             PROVE  Fitting
  BY InitIInv DEF SafeInv
<1>1. \A r \in Runs : row[r] = NoRow /\ \A i \in Steps : step[r][i] = "pending" /\ fact[r][i] = "none"
  BY DEF Init, DbInit
<1>2. \A r \in Runs : RunFits(r) /\ FactFits(r)
  BY <1>1 DEF RunFits, ApprovedFirst, HasWaiting, StepFits, FactFits, NoRow
<1>3. \A t \in Tasks : ClearedTask(t)
  BY DEF Init, NoTask, ClearedTask
<1>4. \A c \in Readers : ClearedRequest(c) /\ SeenRun(c)
  BY DEF Init, NoRequest, ClearedRequest, SeenRun
<1> QED
  BY <1>2, <1>3, <1>4 DEF Fitting

LEMMA StepSafe == SafeInv /\ [Next]_vars => SafeInv'
<1> SUFFICES ASSUME SafeInv, [Next]_vars
             PROVE  SafeInv'
  OBVIOUS
<1>1. IInv' /\ OrderedOrNot /\ TypeOK /\ StepsInOrder
  BY StepIInv, Implements DEF SafeInv, IInv
<1>2. \A r \in Runs : RunFits(r)'
  BY <1>1, RunFitsKept DEF SafeInv, Fitting
<1> QED
  BY <1>1, <1>2, FactFitsKept, TaskClearedKept, RequestClearedKept, SeenKept
     DEF SafeInv, Fitting

THEOREM SafeInvariance == Spec => []SafeInv
BY InitSafe, StepSafe, PTL DEF Spec

(* A run waits for a user exactly while one of its steps does, and that    *)
(* one is manual, in any number of processes: the pause writes both in one *)
(* transaction, and so does everything that ends the wait (runbook_run.go, *)
(* transitionRunbookRunWithStep, ConfirmRunbookRunStep and the closing of  *)
(* unfinished steps).                                                      *)
THEOREM ManualPause == Spec => []PausedOnManualStep
<1>1. SafeInv => PausedOnManualStep
  BY DEF SafeInv, Fitting, RunFits, HasWaiting, StepFits, PausedOnManualStep
<1> QED
  BY <1>1, SafeInvariance, PTL

(* The two-person rule, for any number of processes, goroutines and        *)
(* requests: of a run that needs approval no step is begun and no          *)
(* operation is handed to a connector unless another user approved it      *)
(* (approvalRun's check and the guard of ApproveRunbookRun).               *)
THEOREM TwoPersonRule == Spec => []ApprovalGate
<1>1. ASSUME SafeInv
      PROVE  ApprovalGate
  <2>1. ASSUME NEW r \in Runs, NEW i \in Steps, row[r].gated,
               fact[r][i] # "none" \/ step[r][i] \notin {"pending", "skipped"}
        PROVE  row[r].approvedBy \notin {Nobody, row[r].startedBy}
    BY <1>1, <2>1 DEF SafeInv, Fitting, RunFits, StepFits, FactFits, Cleared
  <2> QED
    BY <2>1 DEF ApprovalGate
<1> QED
  BY <1>1, SafeInvariance, PTL

(* A user's decision about an outcome nobody knows is applied only to the  *)
(* attempt that user looked at (the revision compared inside the           *)
(* transaction of resumeRunbookRun).                                       *)
THEOREM DecisionFits == Spec => DecisionOnSeenRevision
<1>1. ASSUME SafeInv, Next, NEW c \in Readers, request[c].pc = "resume",
             request'[c].pc = "spawn", request[c].decision # "none"
      PROVE  /\ request[c].saw = resumes[request[c].run]
             /\ FirstUnfinished(request[c].run, request[c].at)
  <2>1. ResumeCommit(c)
    <3>1. RequestMoves(c)
      BY <1>1, RequestsMove DEF SafeInv, IInv
    <3>2. \A p \in Procs, r \in Runs, u \in Users, d \in Decisions : ~ ResumeRead(c, p, r, u, d)
      BY <1>1 DEF ResumeRead, Idle
    <3> QED
      BY <1>1, <3>1, <3>2 DEF RequestMoves
  <2>2. c \in readers[request[c].run] /\ FirstUnfinished(request[c].run, request[c].at)
    BY <1>1, <2>1 DEF ResumeCommit, ResumeRunbookRun, ResumeRunbookRunMarkingStepDone,
                      CanMarkDone, CanResume
  <2> QED
    BY <1>1, <2>2 DEF SafeInv, Fitting, SeenRun
<1>2. SafeInv /\ [Next]_vars =>
        [\A c \in Readers :
           (request[c].pc = "resume" /\ request'[c].pc = "spawn"
              /\ request[c].decision # "none")
           => /\ request[c].saw = resumes[request[c].run]
              /\ FirstUnfinished(request[c].run, request[c].at)]_vars
  BY <1>1
<1> QED
  BY <1>2, SafeInvariance, PTL DEF Spec, DecisionOnSeenRevision

=============================================================================
