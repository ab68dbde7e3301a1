-------------------------- MODULE RunbookSoloProofs --------------------------
(***************************************************************************)
(* What holds of the executor when one process drives the runs, which is   *)
(* how it is deployed: between the write that makes a run run and the one  *)
(* that ends that, exactly one handler or goroutine is in charge of it.    *)
(* Everything the goroutine read is still so when it acts on it, unless    *)
(* the run was cancelled under it, and no run is left running with nobody  *)
(* in charge.  With a second process none of this is true: its recovery    *)
(* fails the runs of the first.                                            *)
(***************************************************************************)
EXTENDS RunbookSafetyProofs

OneProcess == \A p, q \in Procs : p = q

(* Who is in charge of run r: the goroutine that has not stopped with it,  *)
(* or the handler that is about to spawn one.                              *)
Drives(t, r) == task[t].run = r /\ task[t].pc \notin {"none", "exit"}
Brings(c, r) == request[c].run = r /\ request[c].pc \in {"spawn", "failshutdown"}

-----------------------------------------------------------------------------
(* The invariant.                                                          *)

(* One at a time, and only for a run that runs or has ended since. *)
Sole(r) ==
    /\ Driven(r) => row[r].state \in Ended \cup {"running"}
    /\ \A s, t \in Tasks : Drives(s, r) /\ Drives(t, r) => s = t
    /\ \A c, d \in Readers : Brings(c, r) /\ Brings(d, r) => c = d
    /\ \A t \in Tasks, c \in Readers : ~ (Drives(t, r) /\ Brings(c, r))

(* The slots name goroutines at work with their run. *)
Registered(p, r) ==
    LET t == active[p][r] IN
    t # Nobody => Driving(t) /\ task[t].run = r /\ task[t].proc = p

(* Goroutines and handlers live in a process that serves or stops. *)
AliveTask(t) == task[t].pc # "none" => proc[task[t].proc] \notin {"down", "standby"}
AliveRequest(c) ==
    /\ request[c].pc # "none" => proc[request[c].proc] \notin {"down", "standby"}
    /\ request[c].pc = "failshutdown" => proc[request[c].proc] = "stopping"
    /\ request[c].pc = "cancel" => row[request[c].run].state \in Ended

IsAction(r, i) == row[r].plan[i] = "connector_action"

MaybeDone == {"sent", "done"}

(* What a goroutine knows of the step in hand, of the user it acts for and *)
(* of what happened to the operation.                                      *)
TaskHolds(t) ==
    LET r == task[t].run  i == task[t].at  pc == task[t].pc
        runs == row[r].state = "running" IN
    pc # "none" =>
        /\ pc = "start" /\ runs => step[r][i] = task[t].from
        /\ pc = "pause" /\ runs => step[r][i] = "pending"
        /\ pc = "fail" /\ runs => step[r][i] = "running"
        /\ pc \in {"perform", "effect", "succeed"} =>
              step[r][i] = IF runs THEN "running" ELSE "unknown"
        /\ pc \in {"steps", "start", "perform", "effect"} => task[t].actor = ActingUser(r)
        /\ pc = "perform" /\ IsAction(r, i) => fact[r][i] \notin MaybeDone
        /\ pc = "fail" /\ task[t].out = "failed" /\ IsAction(r, i) => fact[r][i] \notin MaybeDone
        /\ pc = "succeed" => fact[r][i] = "done"
        /\ pc = "failrun" /\ runs => faults >= 1
        /\ task[t].cancelled => row[r].state \in Ended

(* The record of a step against what happened to its operation. *)
Truth(r, i) ==
    LET s == step[r][i]  f == fact[r][i] IN
    /\ s = "succeeded" => f \in {"done", "vouched"}
    /\ s \in {"pending", "waiting", "skipped"} => f = "none"
    /\ s = "failed" /\ IsAction(r, i) => f \notin MaybeDone
    /\ (/\ s = "unknown" /\ IsAction(r, i)
        /\ row[r].state \in {"running", "waiting_manual", "awaiting_approval"})
          => f \notin MaybeDone

(* No process serves that has not been told to stop. *)
Stopping == \A p \in Procs : proc[p] # "up" \/ baseDone[p]

(* A run that runs with nobody in charge: its process stops, or store      *)
(* calls failed.                                                           *)
NotLost(r) ==
    row[r].state = "running" =>
        Driven(r) \/ (AllSucceeded(r) /\ faults >= 1) \/ faults > 1 \/ Stopping

Charge ==
    /\ \A r \in Runs : Sole(r)
    /\ \A p \in Procs, r \in Runs : Registered(p, r)
    /\ \A t \in Tasks : AliveTask(t)
    /\ \A c \in Readers : AliveRequest(c)
    /\ \A p \in Procs : proc[p] = "standby" => Running = {}

SoloInv ==
    /\ SafeInv /\ Charge
    /\ \A t \in Tasks : TaskHolds(t)
    /\ \A r \in Runs, i \in Steps : Truth(r, i)
    /\ \A r \in Runs : NotLost(r)

-----------------------------------------------------------------------------
(* What a step leaves of the runs it is not about.                         *)

LEMMA Elsewhere ==
    ASSUME DbTypeOK, NEW r \in Runs, NEW q \in Runs, q # r
    PROVE  /\ \A s : SetRun(r, s) => row'[q] = row[q]
           /\ \A i, s : SetStep(r, i, s) => step'[q] = step[q]
           /\ \A i, s : SetFact(r, i, s) /\ fact \in [Runs -> [Steps -> Facts]] => fact'[q] = fact[q]
BY DEF DbTypeOK, SetRun, SetStep, SetFact

LEMMA TaskElsewhere ==
    ASSUME TypeOK, Knowledge, NEW t \in Tasks, TaskStep(t), NEW q \in Runs, q # task[t].run
    PROVE  Untouched(q) /\ fact'[q] = fact[q]
<1> DEFINE r == task[t].run  i == task[t].at
<1>0. /\ DbTypeOK /\ fact \in [Runs -> [Steps -> Facts]] /\ r \in Runs
  BY DEF TypeOK, Knowledge, TaskKnows, TaskStep, Claim, GiveUp, ReadRun, ReadSteps,
         FinishWithoutStep, Pause, StartStep, Refuse, Dispatch, ReturnOk, ReturnError,
         RecordSuccess, RecordFailure, FailRun, Release
<1> HIDE DEF r, i
<1>1. CASE UNCHANGED dbVars /\ fact' = fact
  BY <1>1 DEF dbVars, Untouched
<1>2. CASE fact' = fact /\ \E to : UpdateRunbookRun(r, to)
  BY <1>0, <1>2, Elsewhere DEF UpdateRunbookRun, Untouched, r
<1>3. CASE fact' = fact /\ \E from, to : UpdateRunbookRunStep(r, i, from, to)
  BY <1>0, <1>3, Elsewhere DEF UpdateRunbookRunStep, Untouched, r
<1>4. CASE fact' = fact /\ \E from, to, b : TransitionWithStep(r, i, from, to, b)
  BY <1>0, <1>4, Elsewhere DEF TransitionWithStep, Untouched, r
<1>5. CASE UNCHANGED dbVars /\ \E f : SetFact(r, i, f)
  BY <1>0, <1>5, Elsewhere DEF dbVars, Untouched, r
<1>6. CASE Claim(t) \/ GiveUp(t) \/ ReadRun(t) \/ ReadSteps(t) \/ Refuse(t) \/ Release(t)
  BY <1>1, <1>6 DEF Claim, GiveUp, ReadRun, ReadSteps, StoreError, Refuse, Release
<1>7. CASE FinishWithoutStep(t) \/ FailRun(t)
  BY <1>1, <1>2, <1>7 DEF FinishWithoutStep, FailRun, StoreError, Conflict, r
<1>8. CASE Pause(t) \/ StartStep(t) \/ RecordFailure(t)
  BY <1>1, <1>3, <1>4, <1>8
     DEF Pause, StartStep, RecordFailure, StoreError, Conflict, PauseRunbookRunOnManualStep,
         FailRunbookRunStep, r, i
<1>9. CASE RecordSuccess(t)
  BY <1>1, <1>3, <1>4, <1>9 DEF RecordSuccess, StoreError, Conflict, FinishRunbookRun, r, i
<1>10. CASE Dispatch(t) \/ ReturnOk(t) \/ ReturnError(t)
  BY <1>1, <1>5, <1>10 DEF Dispatch, ReturnOk, ReturnError, r, i
<1> QED
  BY <1>6, <1>7, <1>8, <1>9, <1>10 DEF TaskStep

(* A goroutine that writes the row stops with it. *)
LEMMA WriteStops ==
    ASSUME TypeOK, NEW t \in Tasks, TaskStep(t)
    PROVE  row' = row \/ task'[t].pc = "exit"
<1>0. task \in [Tasks -> Task]
  BY DEF TypeOK
<1>1. CASE FinishWithoutStep(t) \/ FailRun(t)
  BY <1>0, <1>1, MoveEffect DEF FinishWithoutStep, FailRun
<1>2. CASE Pause(t) \/ RecordFailure(t) \/ RecordSuccess(t)
  BY <1>0, <1>2, MoveEffect
     DEF Pause, RecordFailure, RecordSuccess, UpdateRunbookRunStep, Conflict, StoreError, dbVars
<1>3. CASE StartStep(t)
  BY <1>3 DEF StartStep, UpdateRunbookRunStep, Conflict, StoreError, dbVars
<1>4. CASE Claim(t) \/ GiveUp(t) \/ ReadRun(t) \/ ReadSteps(t) \/ Refuse(t) \/ Release(t)
           \/ Dispatch(t) \/ ReturnOk(t) \/ ReturnError(t)
  BY <1>4 DEF Claim, GiveUp, ReadRun, ReadSteps, StoreError, Refuse, Release, Dispatch,
              ReturnOk, ReturnError, dbVars
<1> QED
  BY <1>1, <1>2, <1>3, <1>4 DEF TaskStep

(* What a goroutine that moves keeps of itself. *)
LEMMA MoveKeeps ==
    ASSUME task \in [Tasks -> Task], NEW t \in Tasks
    PROVE  /\ \A pc : Goto(t, pc) => /\ task'[t].cancelled = task[t].cancelled
                                     /\ task'[t].actor = task[t].actor
           /\ \A pc : Forget(t, pc) => task'[t].cancelled = task[t].cancelled
           /\ \A o : Record(t, o) => task'[t].cancelled = task[t].cancelled /\ task'[t].out = o
<1>1. ASSUME NEW pc, Goto(t, pc)
      PROVE  task'[t].cancelled = task[t].cancelled /\ task'[t].actor = task[t].actor
  BY <1>1 DEF Goto, Task
<1>2. ASSUME NEW pc, Forget(t, pc)
      PROVE  task'[t].cancelled = task[t].cancelled
  BY <1>2 DEF Forget, NoTask
<1>3. ASSUME NEW o, Record(t, o)
      PROVE  task'[t].cancelled = task[t].cancelled /\ task'[t].out = o
  BY <1>3 DEF Record, Task
<1> QED
  BY <1>1, <1>2, <1>3

(* What Fail does: the outcome is recorded next, or the goroutine stops. *)
LEMMA FailEffect ==
    ASSUME task \in [Tasks -> Task], NEW t \in Tasks, NEW o, Fail(t, o)
    PROVE  /\ task'[t].run = task[t].run /\ task'[t].proc = task[t].proc
           /\ task'[t].cancelled = task[t].cancelled
           /\ IF CtxDone(t) THEN task'[t].pc = "exit"
              ELSE task'[t].pc = "fail" /\ task'[t].at = task[t].at /\ task'[t].out = o
BY MoveEffect, MoveKeeps DEF Fail

LEMMA TaskFrame ==
    ASSUME TypeOK, Knowledge, NEW t \in Tasks, TaskStep(t)
    PROVE  /\ task[t].pc # "none" /\ TaskKnows(t)
           /\ proc' = proc /\ baseDone' = baseDone
           /\ IF GiveUp(t) \/ Release(t) THEN task'[t] = NoTask
              ELSE /\ task'[t].run = task[t].run /\ task'[t].proc = task[t].proc
                   /\ task'[t].cancelled = task[t].cancelled
                   /\ task'[t].pc \notin {"none", "claim"}
<1>0. task \in [Tasks -> Task]
  BY DEF TypeOK
<1>1. task[t].pc # "none"
  BY DEF TaskStep, Claim, GiveUp, ReadRun, ReadSteps, FinishWithoutStep, Pause, StartStep,
         Refuse, Dispatch, ReturnOk, ReturnError, RecordSuccess, RecordFailure, FailRun, Release
<1>2. proc' = proc /\ baseDone' = baseDone
  BY DEF TaskStep, Claim, GiveUp, ReadRun, ReadSteps, FinishWithoutStep, Pause, StartStep,
         Refuse, Dispatch, ReturnOk, ReturnError, RecordSuccess, RecordFailure, FailRun, Release,
         procVars
<1> DEFINE Kept == /\ task'[t].run = task[t].run /\ task'[t].proc = task[t].proc
                   /\ task'[t].cancelled = task[t].cancelled
                   /\ task'[t].pc \notin {"none", "claim"}
<1>3. CASE GiveUp(t) \/ Release(t)
  <2>1. task'[t] = NoTask
    BY <1>0, <1>3 DEF GiveUp, Release
  <2> QED
    BY <1>1, <1>2, <1>3, <2>1 DEF Knowledge
<1>4. CASE Claim(t) \/ FinishWithoutStep(t) \/ Pause(t) \/ StartStep(t) \/ FailRun(t)
           \/ RecordSuccess(t) \/ RecordFailure(t)
  <2>1. Kept
    BY <1>0, <1>4, MoveEffect, MoveKeeps
       DEF Claim, FinishWithoutStep, Pause, StartStep, FailRun, RecordSuccess, RecordFailure
  <2> QED
    BY <1>1, <1>2, <2>1, <1>4 DEF Knowledge, GiveUp, Release, Claim, FinishWithoutStep, Pause,
       StartStep, FailRun, RecordSuccess, RecordFailure, NoTask
<1>5. CASE Refuse(t) \/ Dispatch(t) \/ ReturnOk(t) \/ ReturnError(t)
  <2>1. Kept
    BY <1>0, <1>5, MoveEffect, MoveKeeps, FailEffect
       DEF Refuse, Dispatch, ReturnOk, ReturnError
  <2> QED
    BY <1>1, <1>2, <2>1, <1>5 DEF Knowledge, GiveUp, Release, Refuse, Dispatch, ReturnOk,
       ReturnError
<1>6. CASE ReadRun(t)
  <2>1. Kept
    BY <1>0, <1>6, MoveEffect, MoveKeeps DEF ReadRun, Task
  <2> QED
    BY <1>1, <1>2, <2>1, <1>6 DEF Knowledge, GiveUp, Release, ReadRun
<1>7. CASE ReadSteps(t)
  <2>1. \A i \in Steps : Choose(t, i) => Kept
    BY <1>0, MoveEffect, MoveKeeps DEF Choose, Task
  <2>2. Kept
    BY <1>0, <1>7, <2>1, MoveEffect, MoveKeeps DEF ReadSteps
  <2> QED
    BY <1>1, <1>2, <2>2, <1>7 DEF Knowledge, GiveUp, Release, ReadSteps
<1> QED
  BY <1>3, <1>4, <1>5, <1>6, <1>7 DEF TaskStep

(* A run that ended is only ever pruned. *)
LEMMA EndedStays ==
    ASSUME TypeOK, OrderedOrNot, NEW r \in Runs, row[r].state \in Ended
    PROVE  row'[r].state \in Ended /\ step'[r] = step[r]
<1>1. ~ Opens(r) /\ ~ IsApproved(r) /\ \A i \in Steps : ~ StepTurns(r, i)
  BY DEF Opens, IsApproved, StepTurns, Turns, Ended, TerminalStates
<1>2. RunTurns(r) => step'[r] = step[r] /\ row'[r].state = "pruned"
  BY DEF RunTurns, Turns, Ended, TerminalStates, OpenStates
<1> QED
  BY <1>1, <1>2, Moves DEF RunMoves, Untouched, Ended

(* Failed calls are only counted up. *)
LEMMA FaultsGrow ==
    ASSUME TypeOK, [Next]_vars
    PROVE  faults' \in Nat /\ faults \in Nat /\ faults' >= faults
<1>0. faults \in Nat
  BY ExecutorAssumption DEF TypeOK
<1>1. StoreError \/ NoFault \/ (\E can \in BOOLEAN : Conflict(can)) => faults' \in {faults, faults + 1}
  BY <1>0 DEF StoreError, NoFault, Conflict
<1>2. ASSUME NEW t \in Tasks, TaskStep(t)
      PROVE  faults' \in {faults, faults + 1}
  BY <1>2
     DEF TaskStep, Claim, GiveUp, ReadRun, ReadSteps, FinishWithoutStep, Pause, StartStep,
         Refuse, Dispatch, ReturnOk, ReturnError, RecordSuccess, RecordFailure, FailRun, Release,
         StoreError, NoFault, Conflict
<1>3. ASSUME NEW c \in Readers, RequestStep(c)
      PROVE  faults' \in {faults, faults + 1}
  BY <1>3
     DEF RequestStep, ResumeCommit, ResumeRefused, SpawnRefused, FailShutdown, CancelActive, Spawn,
         StoreError, NoFault, Conflict
<1>4. ASSUME NEW p \in Procs, NEW r \in Runs, NEW u \in Users, NEW c \in Readers,
             \/ \E b \in Runbooks, f \in Plans : Start(c, p, r, b, u, f)
             \/ Approve(c, p, r, u) \/ \E d \in Decisions : ResumeRead(c, p, r, u, d)
      PROVE  faults' = faults
  BY <1>4 DEF Start, Approve, ResumeRead
<1>5. ASSUME NEW p \in Procs, NEW r \in Runs, NEW u \in Users,
             Reject(p, r, u) \/ \E b \in Runbooks, f \in Plans : Request(p, r, b, u, f)
      PROVE  faults' = faults
  BY <1>5 DEF Reject, Request
<1>6. ASSUME NEW c \in Readers, NEW p \in Procs, NEW r \in Runs,
             Cancel(c, p, r) \/ \E i \in Steps : Confirm(c, p, r, i)
      PROVE  faults' = faults
  BY <1>6 DEF Cancel, Confirm
<1>7. ASSUME NEW p \in Procs, ProcStep(p)
      PROVE  faults' = faults
  BY <1>7 DEF ProcStep, Boot, Lead, LoseLock, NoticeLoss, Signal, Drain, StopWork, Exit, ProcFrame
<1>8. ASSUME Sweep \/ UNCHANGED vars
      PROVE  faults' = faults
  BY <1>8 DEF Sweep, vars
<1>9. faults' \in {faults, faults + 1}
  BY <1>2, <1>3, <1>4, <1>5, <1>6, <1>7, <1>8 DEF Next, UserAction, AnyUserAction
<1> QED
  BY <1>0, <1>9

-----------------------------------------------------------------------------
(* Charge is kept.                                                         *)

(* Nobody new: whoever is in charge was so before. *)
LEMMA SoleKept ==
    ASSUME NEW r \in Runs, Sole(r),
           \A t \in Tasks : Drives(t, r)' => Drives(t, r),
           \A c \in Readers : Brings(c, r)' => Brings(c, r),
           Driven(r) /\ Driven(r)' => row'[r].state \in Ended \cup {"running"}
    PROVE  Sole(r)'
<1>1. Driven(r) <=> (\E t \in Tasks : Drives(t, r)) \/ (\E c \in Readers : Brings(c, r))
  BY DEF Driven, Drives, Brings
<1>2. Driven(r)' <=> (\E t \in Tasks : Drives(t, r)') \/ (\E c \in Readers : Brings(c, r)')
  BY DEF Driven, Drives, Brings
<1>3. Driven(r)' => Driven(r)
  BY <1>1, <1>2
<1> QED
  BY <1>3 DEF Sole

(* A handler takes charge of a run nobody was in charge of. *)
LEMMA SoleNew ==
    ASSUME NEW r \in Runs, ~ Driven(r), row'[r].state = "running", task' = task,
           NEW c \in Readers, \A d \in Readers \ {c} : request'[d] = request[d]
    PROVE  Sole(r)'
<1>1. \A t \in Tasks : ~ Drives(t, r)'
  BY DEF Driven, Drives
<1>2. \A d \in Readers : Brings(d, r)' => d = c
  BY DEF Driven, Brings
<1> QED
  BY <1>1, <1>2 DEF Sole

(* A goroutine that does not hold a run is not in charge of it. *)
LEMMA TaskSole ==
    ASSUME TypeOK, Knowledge, OrderedOrNot, \A q \in Runs : Sole(q),
           NEW t \in Tasks, TaskStep(t), NEW r \in Runs
    PROVE  Sole(r)'
<1>1. /\ request' = request /\ \A s \in Tasks \ {t} : task'[s] = task[s]
      /\ \A c \in Readers : Brings(c, r)' = Brings(c, r)
      /\ \A s \in Tasks \ {t} : Drives(s, r)' = Drives(s, r)
  BY OthersKept DEF Brings, Drives
<1>2. Drives(t, r)' => task[t].run = r /\ task[t].pc # "none"
  BY TaskFrame DEF Drives, NoTask
<1>3. task[t].pc = "exit" => Release(t)
  BY DEF TaskStep, Claim, GiveUp, ReadRun, ReadSteps, FinishWithoutStep, Pause, StartStep,
         Refuse, Dispatch, ReturnOk, ReturnError, RecordSuccess, RecordFailure, FailRun
<1>4. Release(t) => ~ Drives(t, r)' /\ row' = row
  BY TaskFrame DEF Drives, NoTask, Release, dbVars
<1>5. Drives(t, r)' => Drives(t, r)
  BY <1>2, <1>3, <1>4 DEF Drives
<1>6. ASSUME Driven(r), Driven(r)'
      PROVE  row'[r].state \in Ended \cup {"running"}
  <2>1. CASE row'[r] = row[r]
    BY <1>6, <2>1 DEF Sole
  <2>2. CASE task[t].run # r
    BY <2>1, <2>2, TaskElsewhere DEF Untouched
  <2>3. CASE task[t].run = r /\ row' # row
    <3>1. Drives(t, r) /\ task'[t].pc = "exit"
      BY <1>3, <1>4, <2>3, WriteStops, TaskFrame DEF Drives
    <3>2. ~ Driven(r)'
      BY <1>1, <3>1 DEF Sole, Driven, Drives, Brings
    <3> QED
      BY <1>6, <3>2
  <2> QED
    BY <2>1, <2>2, <2>3
<1> QED
  BY <1>1, <1>5, <1>6, SoleKept

LEMMA TaskRegistered ==
    ASSUME TypeOK, Knowledge, OneDriver, \A p \in Procs, r \in Runs : Registered(p, r),
           NEW t \in Tasks, TaskStep(t), NEW p \in Procs, NEW r \in Runs
    PROVE  Registered(p, r)'
<1>1. /\ task \in [Tasks -> Task] /\ active \in [Procs -> [Runs -> Tasks \cup {Nobody}]]
      /\ \A s \in Tasks \ {t} : task'[s] = task[s]
      /\ task[t].run \in Runs /\ task[t].proc \in Procs
  BY OthersKept, TaskFrame DEF TypeOK, TaskKnows
<1>2. CASE Claim(t)
  <2>1. /\ active' = [active EXCEPT ![task[t].proc][task[t].run] = t] /\ ~ Driving(t)
    BY <1>2 DEF Claim, Driving
  <2>2. task'[t].run = task[t].run /\ task'[t].proc = task[t].proc /\ Driving(t)'
    BY <1>1, <1>2, MoveEffect DEF Claim, Driving
  <2>3. CASE p = task[t].proc /\ r = task[t].run
    BY <1>1, <2>1, <2>2, <2>3 DEF Registered
  <2>4. CASE ~ (p = task[t].proc /\ r = task[t].run)
    <3>1. active'[p][r] = active[p][r]
      BY <1>1, <2>1, <2>4
    <3> QED
      BY <1>1, <2>1, <3>1 DEF Registered, Driving
  <2> QED
    BY <2>3, <2>4
<1>3. CASE GiveUp(t)
  <2>1. active' = active /\ ~ Driving(t)
    BY <1>3 DEF GiveUp, Driving
  <2> QED
    BY <1>1, <2>1 DEF Registered, Driving
<1>4. CASE Release(t)
  <2>1. active' = [active EXCEPT ![task[t].proc][task[t].run] = Nobody]
    BY <1>4 DEF Release
  <2>2. CASE p = task[t].proc /\ r = task[t].run
    BY <1>1, <2>1, <2>2 DEF Registered
  <2>3. CASE ~ (p = task[t].proc /\ r = task[t].run)
    <3>1. active'[p][r] = active[p][r]
      BY <1>1, <2>1, <2>3
    <3> QED
      BY <1>1, <2>3, <3>1 DEF Registered, Driving
  <2> QED
    BY <2>2, <2>3
<1>5. CASE ~ Claim(t) /\ ~ GiveUp(t) /\ ~ Release(t)
  <2>1. /\ active' = active /\ Driving(t)'
        /\ task'[t].run = task[t].run /\ task'[t].proc = task[t].proc
    BY <1>5, DriverMoves, TaskFrame DEF Driving
  <2> QED
    BY <1>1, <2>1 DEF Registered, Driving
<1> QED
  BY <1>2, <1>3, <1>4, <1>5

LEMMA TaskCharge ==
    ASSUME OneProcess, SoloInv, NEW t \in Tasks, TaskStep(t)
    PROVE  Charge'
<1>1. TypeOK /\ Knowledge /\ OneDriver /\ OrderedOrNot /\ Charge
  BY Implements DEF SoloInv, SafeInv, IInv, Next
<1>2. /\ request' = request /\ proc' = proc /\ \A s \in Tasks \ {t} : task'[s] = task[s]
      /\ task[t].proc \in Procs /\ proc[task[t].proc] \notin {"down", "standby"}
  BY <1>1, OthersKept, TaskFrame DEF TaskKnows, Charge, AliveTask
<1>3. \A r \in Runs : Sole(r)'
  BY <1>1, TaskSole DEF Charge
<1>4. \A p \in Procs, r \in Runs : Registered(p, r)'
  BY <1>1, TaskRegistered DEF Charge
<1>5. \A s \in Tasks : AliveTask(s)'
  BY <1>1, <1>2, TaskFrame DEF Charge, AliveTask, NoTask
<1>6. \A c \in Readers : AliveRequest(c)'
  <2> SUFFICES ASSUME NEW c \in Readers, request[c].pc = "cancel"
               PROVE  row'[request[c].run].state \in Ended
    BY <1>1, <1>2 DEF Charge, AliveRequest
  <2>1. request[c].run \in Runs /\ row[request[c].run].state \in Ended
    BY <1>1 DEF Charge, AliveRequest, Knowledge, RequestKnows
  <2> QED
    BY <1>1, <2>1, EndedStays
<1>7. \A p \in Procs : proc'[p] # "standby"
  BY <1>2 DEF OneProcess
<1> QED
  BY <1>3, <1>4, <1>5, <1>6, <1>7 DEF Charge

(* What a handler's step leaves alone. *)
LEMMA RequestFrame ==
    ASSUME TypeOK, Knowledge, NEW c \in Readers, RequestStep(c)
    PROVE  /\ proc' = proc /\ baseDone' = baseDone /\ active' = active
           /\ request[c].pc # "none" /\ request[c].run \in Runs /\ request[c].proc \in Procs
           /\ \A d \in Readers \ {c} : request'[d] = request[d]
           /\ \/ request'[c].pc = "none"
              \/ /\ request'[c].pc # "cancel"
                 /\ request'[c].run = request[c].run /\ request'[c].proc = request[c].proc
           /\ \A t \in Tasks : Spawn(c, t) \/ /\ task'[t].pc = task[t].pc
                                              /\ task'[t].run = task[t].run
                                              /\ task'[t].proc = task[t].proc
<1>0. request \in [Readers -> PendingRequest] /\ task \in [Tasks -> Task]
  BY DEF TypeOK
<1> DEFINE Kept == \/ request'[c].pc = "none"
                   \/ /\ request'[c].pc # "cancel"
                      /\ request'[c].run = request[c].run /\ request'[c].proc = request[c].proc
<1>1. /\ proc' = proc /\ baseDone' = baseDone /\ active' = active /\ request[c].pc # "none"
  BY DEF RequestStep, ResumeCommit, ResumeRefused, SpawnRefused, FailShutdown, CancelActive,
         Spawn, procVars
<1>2. request[c].run \in Runs /\ request[c].proc \in Procs
  BY <1>1 DEF Knowledge, RequestKnows
<1>3. /\ \A d \in Readers \ {c} : request'[d] = request[d]
      /\ Kept
  <2>1. CASE Done(c)
    BY <1>0, <2>1 DEF Done, NoRequest
  <2>2. ASSUME NEW pc, request' = [request EXCEPT ![c].pc = pc], pc # "cancel"
        PROVE  (\A d \in Readers \ {c} : request'[d] = request[d]) /\ Kept
    BY <1>0, <2>2 DEF PendingRequest
  <2> QED
    BY <2>1, <2>2
       DEF RequestStep, ResumeCommit, ResumeRefused, SpawnRefused, FailShutdown, CancelActive,
           Spawn
<1>4. ASSUME NEW t \in Tasks, ~ Spawn(c, t)
      PROVE  /\ task'[t].pc = task[t].pc /\ task'[t].run = task[t].run
             /\ task'[t].proc = task[t].proc
  <2>1. CASE CancelActive(c)
    BY <1>0, <2>1 DEF CancelActive, Task
  <2>2. ASSUME NEW s \in Tasks, Spawn(c, s)
        PROVE  task'[t] = task[t]
    BY <1>0, <1>4, <2>2 DEF Spawn
  <2>3. CASE ResumeCommit(c) \/ ResumeRefused(c) \/ SpawnRefused(c) \/ FailShutdown(c)
    BY <2>3 DEF ResumeCommit, ResumeRefused, SpawnRefused, FailShutdown
  <2> QED
    BY <2>1, <2>2, <2>3 DEF RequestStep
<1> QED
  BY <1>1, <1>2, <1>3, <1>4

LEMMA SpawnEffect ==
    ASSUME TypeOK, NEW c \in Readers, NEW t \in Tasks, Spawn(c, t)
    PROVE  /\ task[t].pc = "none" /\ request[c].pc = "spawn" /\ request'[c].pc = "none"
           /\ task'[t].pc = "claim" /\ task'[t].run = request[c].run
           /\ task'[t].proc = request[c].proc /\ task'[t].cancelled = FALSE
           /\ row' = row /\ \A s \in Tasks \ {t} : task'[s] = task[s]
BY DEF TypeOK, Spawn, Done, NoTask, NoRequest, dbVars

LEMMA RequestSole ==
    ASSUME TypeOK, Knowledge, \A q \in Runs : Sole(q),
           NEW c \in Readers, RequestStep(c), NEW q \in Runs
    PROVE  Sole(q)'
<1> DEFINE r == request[c].run
<1>1. DbTypeOK /\ request \in [Readers -> PendingRequest] /\ r \in Runs
  BY RequestFrame DEF TypeOK
<1>2. ASSUME NEW t \in Tasks
      PROVE  Drives(t, q)' => Drives(t, q) \/ (Spawn(c, t) /\ q = r)
  <2>1. CASE Spawn(c, t)
    <3>1. task'[t].run = r
      BY <2>1, SpawnEffect
    <3> QED
      BY <2>1, <3>1 DEF Drives
  <2>2. CASE ~ Spawn(c, t)
    <3>1. task'[t].pc = task[t].pc /\ task'[t].run = task[t].run
      BY <2>2, RequestFrame
    <3> QED
      BY <3>1 DEF Drives
  <2> QED
    BY <2>1, <2>2
<1>3. \A d \in Readers \ {c} : Brings(d, q)' = Brings(d, q)
  BY RequestFrame DEF Brings
<1>4. CASE ResumeCommit(c)
  <2>1. /\ row[r].state = "failed" /\ task' = task
        /\ row' = [row EXCEPT ![r].state = "running", ![r].resumedBy = request[c].user]
    BY <1>4 DEF ResumeCommit, ResumeRunbookRun, ResumeRunbookRunMarkingStepDone, CanMarkDone,
                CanResume
  <2>2. CASE q = r
    <3>1. row'[q].state = "running"
      BY <1>1, <2>1, <2>2 DEF DbTypeOK
    <3>2. ~ Driven(q)
      BY <2>1, <2>2 DEF Sole, Ended, TerminalStates
    <3> QED
      BY <2>1, <3>1, <3>2, RequestFrame, SoleNew
  <2>3. CASE q # r
    <3>1. row'[q] = row[q] /\ ~ Brings(c, q)'
      BY <1>1, <2>1, <2>3, RequestFrame DEF DbTypeOK, Brings
    <3>2. \A t \in Tasks : Drives(t, q)' => Drives(t, q)
      BY <1>2, <2>3
    <3>3. Driven(q) => row'[q].state \in Ended \cup {"running"}
      BY <3>1 DEF Sole
    <3> QED
      BY <1>3, <3>1, <3>2, <3>3, SoleKept
  <2> QED
    BY <2>2, <2>3
<1>5. ASSUME NEW t \in Tasks, Spawn(c, t)
      PROVE  Sole(q)'
  <2>0. /\ row' = row /\ \A s \in Tasks \ {t} : task'[s] = task[s]
        /\ task'[t].run = r
    BY <1>5, SpawnEffect
  <2>1. row' = row /\ \A s \in Tasks \ {t} : Drives(s, q)' <=> Drives(s, q)
    BY <2>0 DEF Drives
  <2>a. ~ Brings(c, q)' /\ Brings(c, r)
    BY <1>5, SpawnEffect DEF Brings
  <2>2. CASE q # r
    <3>1. \A s \in Tasks : Drives(s, q)' => Drives(s, q)
      BY <2>0, <2>1, <2>2 DEF Drives
    <3>2. Driven(q) => row'[q].state \in Ended \cup {"running"}
      BY <2>1 DEF Sole
    <3> QED
      BY <1>3, <2>1, <2>a, <3>1, <3>2, SoleKept
  <2>3. CASE q = r
    <3>1. row'[q].state \in Ended \cup {"running"} /\ \A s \in Tasks \ {t} : ~ Drives(s, q)'
      BY <2>1, <2>a, <2>3 DEF Sole, Driven, Brings
    <3>2. \A d \in Readers : ~ Brings(d, q)'
      BY <1>3, <2>a, <2>3 DEF Sole
    <3> QED
      BY <3>1, <3>2 DEF Sole
  <2> QED
    BY <2>2, <2>3
<1>6. CASE FailShutdown(c)
  <2>1. /\ ~ Brings(c, q)' /\ Brings(c, r) /\ task' = task
        /\ row' = row \/ SetRun(r, "failed")
    BY <1>1, <1>6 DEF FailShutdown, Done, NoRequest, Brings, UpdateRunbookRun, StoreError, Conflict, dbVars
  <2>2. \A s \in Tasks : Drives(s, q)' => Drives(s, q)
    BY <2>1 DEF Drives
  <2>3. CASE q # r
    <3>1. row'[q] = row[q]
      BY <1>1, <2>1, <2>3, Elsewhere
    <3>2. Driven(q) => row'[q].state \in Ended \cup {"running"}
      BY <3>1 DEF Sole
    <3> QED
      BY <1>3, <2>1, <2>2, <3>2, SoleKept
  <2>4. CASE q = r
    <3>1. ~ Driven(q)'
      BY <1>3, <2>1, <2>2, <2>4 DEF Sole, Driven, Drives, Brings
    <3> QED
      BY <1>3, <2>1, <2>2, <3>1, SoleKept
  <2> QED
    BY <2>3, <2>4
<1>7. CASE ResumeRefused(c) \/ SpawnRefused(c) \/ CancelActive(c)
  <2>1. /\ row' = row /\ \A t \in Tasks : ~ Spawn(c, t)
        /\ Brings(c, q)' => Brings(c, q)
    BY <1>1, <1>7 DEF ResumeRefused, SpawnRefused, CancelActive, Spawn, Done, NoRequest, Brings,
                dbVars, PendingRequest
  <2>2. Driven(q) => row'[q].state \in Ended \cup {"running"}
    BY <2>1 DEF Sole
  <2>3. \A t \in Tasks : Drives(t, q)' => Drives(t, q)
    BY <1>2, <2>1
  <2> QED
    BY <1>3, <2>1, <2>2, <2>3, SoleKept
<1> QED
  BY <1>4, <1>5, <1>6, <1>7 DEF RequestStep

(* Only a goroutine at work is registered, so one that is born is not. *)
LEMMA SlotsKept ==
    ASSUME TypeOK, \A p \in Procs, r \in Runs : Registered(p, r), active' = active,
           \A t \in Tasks : \/ task[t].pc = "none"
                            \/ /\ task'[t].pc = task[t].pc /\ task'[t].run = task[t].run
                               /\ task'[t].proc = task[t].proc
    PROVE  \A p \in Procs, r \in Runs : Registered(p, r)'
<1> SUFFICES ASSUME NEW p \in Procs, NEW r \in Runs, active[p][r] # Nobody
             PROVE  Registered(p, r)'
  BY DEF Registered
<1>1. PICK t \in Tasks : t = active[p][r]
  BY DEF TypeOK
<1>2. Driving(t) /\ task[t].run = r /\ task[t].proc = p
  BY <1>1 DEF Registered
<1> QED
  BY <1>1, <1>2 DEF Registered, Driving

LEMMA RequestCharge ==
    ASSUME OneProcess, SoloInv, NEW c \in Readers, RequestStep(c)
    PROVE  Charge'
<1>1. TypeOK /\ Knowledge /\ OrderedOrNot /\ Charge
  BY Implements DEF SoloInv, SafeInv, IInv, Next
<1>2. /\ proc' = proc /\ request[c].proc \in Procs
      /\ proc[request[c].proc] \notin {"down", "standby"}
      /\ \A t \in Tasks, s \in Tasks : Spawn(c, t) => task[t].pc = "none"
  BY <1>1, RequestFrame, SpawnEffect DEF Charge, AliveRequest
<1>3. \A r \in Runs : Sole(r)'
  BY <1>1, RequestSole DEF Charge
<1>4. \A p \in Procs, r \in Runs : Registered(p, r)'
  <2>0. TypeOK /\ Knowledge
    BY <1>1
  <2>1. active' = active
    BY <2>0, RequestFrame
  <2>2. ASSUME NEW t \in Tasks, task[t].pc # "none"
        PROVE  /\ task'[t].pc = task[t].pc /\ task'[t].run = task[t].run
               /\ task'[t].proc = task[t].proc
    <3>1. ~ Spawn(c, t)
      BY <1>2, <2>2
    <3> QED
      BY <2>0, <3>1, RequestFrame
  <2>3. \A p \in Procs, r \in Runs : Registered(p, r)
    BY <1>1 DEF Charge
  <2> QED
    BY <1>1, <2>1, <2>2, <2>3, SlotsKept
<1>5. ASSUME NEW t \in Tasks
      PROVE  AliveTask(t)'
  <2>1. CASE Spawn(c, t)
    BY <1>1, <1>2, <2>1, SpawnEffect DEF AliveTask
  <2>2. CASE ~ Spawn(c, t)
    BY <1>1, <1>2, <2>2, RequestFrame DEF Charge, AliveTask
  <2> QED
    BY <2>1, <2>2
<1>6. ASSUME NEW d \in Readers
      PROVE  AliveRequest(d)'
  <2>1. request[d].pc = "cancel" => row'[request[d].run].state \in Ended
    <3> SUFFICES ASSUME request[d].pc = "cancel"
                 PROVE  row'[request[d].run].state \in Ended
      OBVIOUS
    <3>1. request[d].run \in Runs /\ row[request[d].run].state \in Ended
      BY <1>1 DEF Charge, AliveRequest, Knowledge, RequestKnows
    <3> QED
      BY <1>1, <3>1, EndedStays
  <2>2. CASE d # c
    BY <1>1, <1>2, <2>1, <2>2, RequestFrame DEF Charge, AliveRequest
  <2>3. request'[c].pc = "failshutdown" => proc[request[c].proc] = "stopping"
    <3>0. request \in [Readers -> PendingRequest]
      BY <1>1 DEF TypeOK
    <3>1. CASE Done(c)
      BY <3>0, <3>1 DEF Done, NoRequest
    <3>2. CASE ResumeCommit(c)
      BY <3>0, <3>2 DEF ResumeCommit
    <3> QED
      BY <3>1, <3>2
         DEF RequestStep, ResumeRefused, SpawnRefused, FailShutdown, CancelActive, Spawn
  <2>4. CASE d = c
    BY <1>1, <1>2, <2>3, <2>4, RequestFrame DEF AliveRequest
  <2> QED
    BY <2>2, <2>4
<1>7. \A p \in Procs : proc'[p] # "standby"
  BY <1>2 DEF OneProcess
<1> QED
  BY <1>3, <1>4, <1>5, <1>6, <1>7 DEF Charge

(* A user makes a run run, and the handler takes charge of it, *)
Launches(c, p, r) ==
    /\ Idle(c) /\ Serving(p)
    /\ row[r].state \in {"absent", "awaiting_approval", "waiting_manual"}
    /\ row'[r].state = "running" /\ \A q \in Runs \ {r} : row'[q] = row[q]
    /\ Accepted(c, r, p, "spawn")

(* cancels a run that is open, *)
Cancels(c, p, r) ==
    /\ Idle(c) /\ Serving(p)
    /\ row[r].state \in OpenStates
    /\ row'[r].state = "cancelled" /\ \A q \in Runs \ {r} : row'[q] = row[q]
    /\ Accepted(c, r, p, "cancel")

(* looks at a failed one, *)
Looks(c, p, r) ==
    /\ Idle(c) /\ Serving(p) /\ row' = row
    /\ \A d \in Readers \ {c} : request'[d] = request[d]
    /\ request'[c].pc = "resume" /\ request'[c].run = r /\ request'[c].proc = p

(* or asks for a run, refuses it or, by its age, ends it. *)
Alters(r) ==
    /\ row[r].state \notin Ended \cup {"running"} \/ row'[r].state \in Ended
    /\ row'[r].state # "running" /\ \A q \in Runs \ {r} : row'[q] = row[q]
    /\ request' = request

(* Sweeps are counted with what users do. *)
UserEffect ==
    \/ \E c \in Readers, p \in Procs, r \in Runs :
          Launches(c, p, r) \/ Cancels(c, p, r) \/ Looks(c, p, r)
    \/ \E p \in Procs, r \in Runs : proc[p] \in {"up", "draining"} /\ Alters(r)

LEMMA UserEffects ==
    ASSUME TypeOK, UserAction \/ AnyUserAction \/ Sweep
    PROVE  UserEffect /\ proc' = proc /\ baseDone' = baseDone
<1>0. DbTypeOK /\ request \in [Readers -> PendingRequest]
  BY DEF TypeOK
<1> USE DEF UserEffect
<1>1. ASSUME NEW c \in Readers, NEW p \in Procs, NEW r \in Runs, NEW b \in Runbooks,
             NEW u \in Users, NEW f \in Plans, Start(c, p, r, b, u, f)
      PROVE  Launches(c, p, r) /\ proc' = proc /\ baseDone' = baseDone
  <2>1. row[r].state = "absent" /\ row'[r].state = "running" /\ \A q \in Runs \ {r} : row'[q] = row[q]
    BY <1>0, <1>1 DEF Start, CreateRunbookRun, NoRow, DbTypeOK
  <2> QED
    BY <1>1, <2>1 DEF Start, Launches, procVars
<1>2. ASSUME NEW c \in Readers, NEW p \in Procs, NEW r \in Runs, NEW u \in Users,
             Approve(c, p, r, u)
      PROVE  Launches(c, p, r) /\ proc' = proc /\ baseDone' = baseDone
  <2>1. /\ row[r].state = "awaiting_approval"
        /\ row' = [row EXCEPT ![r].state = "running", ![r].approvedBy = u]
    BY <1>2 DEF Approve, ApproveRunbookRun
  <2>2. row'[r].state = "running" /\ \A q \in Runs \ {r} : row'[q] = row[q]
    BY <1>0, <2>1 DEF DbTypeOK
  <2> QED
    BY <1>2, <2>1, <2>2 DEF Approve, Launches, procVars
<1>3. ASSUME NEW c \in Readers, NEW p \in Procs, NEW r \in Runs, NEW i \in Steps,
             Confirm(c, p, r, i)
      PROVE  Launches(c, p, r) /\ proc' = proc /\ baseDone' = baseDone
  <2>1. row[r].state = "waiting_manual" /\ SetRun(r, "running")
    BY <1>3 DEF Confirm, ConfirmRunbookRunStep
  <2>2. row'[r].state = "running" /\ \A q \in Runs \ {r} : row'[q] = row[q]
    BY <1>0, <2>1 DEF DbTypeOK, SetRun
  <2> QED
    BY <1>3, <2>1, <2>2 DEF Confirm, Launches, procVars
<1>4. ASSUME NEW c \in Readers, NEW p \in Procs, NEW r \in Runs, Cancel(c, p, r)
      PROVE  Cancels(c, p, r) /\ proc' = proc /\ baseDone' = baseDone
  <2>1. row[r].state \in OpenStates /\ SetRun(r, "cancelled")
    BY <1>4 DEF Cancel, CancelRunbookRun, IsOpen
  <2>2. row'[r].state = "cancelled" /\ \A q \in Runs \ {r} : row'[q] = row[q]
    BY <1>0, <2>1 DEF DbTypeOK, SetRun
  <2> QED
    BY <1>4, <2>1, <2>2 DEF Cancel, Cancels, procVars
<1>5. ASSUME NEW c \in Readers, NEW p \in Procs, NEW r \in Runs, NEW u \in Users,
             NEW d \in Decisions, ResumeRead(c, p, r, u, d)
      PROVE  Looks(c, p, r) /\ proc' = proc /\ baseDone' = baseDone
  <2>1. \E i : request' = [request EXCEPT ![c] =
                  [pc |-> "resume", run |-> r, proc |-> p, user |-> u,
                   at |-> i, decision |-> d, saw |-> resumes[r]]]
    BY <1>5 DEF ResumeRead
  <2>2. /\ \A e \in Readers \ {c} : request'[e] = request[e]
        /\ request'[c].pc = "resume" /\ request'[c].run = r /\ request'[c].proc = p
    BY <1>0, <2>1
  <2> QED
    BY <1>5, <2>2 DEF ResumeRead, Looks, procVars
<1>6. ASSUME NEW p \in Procs, NEW r \in Runs, NEW u \in Users,
             Reject(p, r, u) \/ \E b \in Runbooks, f \in Plans : Request(p, r, b, u, f)
      PROVE  Alters(r) /\ proc[p] = "up" /\ proc' = proc /\ baseDone' = baseDone
  <2>1. CASE Reject(p, r, u)
    <3>1. row[r].state = "awaiting_approval" /\ SetRun(r, "rejected") /\ request' = request
      BY <2>1 DEF Reject, RejectRunbookRun
    <3>2. row'[r].state = "rejected" /\ \A q \in Runs \ {r} : row'[q] = row[q]
      BY <1>0, <3>1 DEF DbTypeOK, SetRun
    <3> QED
      BY <2>1, <3>1, <3>2 DEF Alters, Ended, TerminalStates, Reject, Serving, procVars
  <2>2. ASSUME NEW b \in Runbooks, NEW f \in Plans, Request(p, r, b, u, f)
        PROVE  Alters(r) /\ proc[p] = "up" /\ proc' = proc /\ baseDone' = baseDone
    <3>1. /\ row[r].state = "absent" /\ row'[r].state = "awaiting_approval"
          /\ \A q \in Runs \ {r} : row'[q] = row[q]
      BY <1>0, <2>2 DEF Request, CreateRunbookRun, NoRow, DbTypeOK
    <3> QED
      BY <2>2, <3>1 DEF Alters, Ended, TerminalStates, Request, Serving, procVars
  <2> QED
    BY <1>6, <2>1, <2>2
<1>7. CASE Sweep
  <2>1. PICK p \in Procs : proc[p] \in {"up", "draining"}
    BY <1>7 DEF Sweep
  <2>2. PICK r \in Runs : \/ ExpireOpenRunbookRun(r) \/ ExpireAwaitingApprovalRunbookRun(r)
                          \/ PruneRunbookRun(r)
    BY <1>7 DEF Sweep
  <2>3. PICK s \in {"expired", "pruned"} : SetRun(r, s)
    BY <2>2 DEF ExpireOpenRunbookRun, ExpireAwaitingApprovalRunbookRun, PruneRunbookRun
  <2>4. row'[r].state = s /\ \A q \in Runs \ {r} : row'[q] = row[q]
    BY <1>0, <2>3 DEF DbTypeOK, SetRun
  <2> QED
    BY <1>7, <2>1, <2>4 DEF Sweep, Alters, Ended, TerminalStates, procVars
<1> QED
  BY <1>1, <1>2, <1>3, <1>4, <1>5, <1>6, <1>7 DEF UserAction, AnyUserAction

LEMMA AcceptedEffect ==
    ASSUME TypeOK, NEW c \in Readers, NEW p, NEW r, NEW pc, Accepted(c, r, p, pc)
    PROVE  /\ request'[c].pc = pc /\ request'[c].run = r /\ request'[c].proc = p
           /\ \A d \in Readers \ {c} : request'[d] = request[d]
<1>1. request' = [request EXCEPT ![c] = [NoRequest EXCEPT !.pc = pc, !.run = r, !.proc = p]]
  BY DEF Accepted
<1>2. request \in [Readers -> PendingRequest]
  BY DEF TypeOK
<1> QED
  BY <1>1, <1>2 DEF NoRequest

LEMMA UserSole ==
    ASSUME TypeOK, \A q \in Runs : Sole(q), UserEffect, task' = task, NEW q \in Runs
    PROVE  Sole(q)'
<1>1. \A t \in Tasks : Drives(t, q)' => Drives(t, q)
  BY DEF Drives
<1>3. ASSUME NEW c \in Readers, NEW p \in Procs, NEW r \in Runs,
             Launches(c, p, r) \/ Cancels(c, p, r) \/ Looks(c, p, r)
      PROVE  Sole(q)'
  <2>1. \A d \in Readers \ {c} : request'[d] = request[d]
    BY <1>3, AcceptedEffect DEF Launches, Cancels, Looks
  <2>2. CASE Launches(c, p, r) /\ q = r
    <3>1. ~ Driven(q)
      BY <2>2 DEF Launches, Sole, Ended, TerminalStates
    <3> QED
      BY <2>1, <2>2, <3>1, SoleNew DEF Launches
  <2>3. CASE ~ (Launches(c, p, r) /\ q = r)
    <3>1. \A d \in Readers : Brings(d, q)' => Brings(d, q)
      <4>1. ~ Brings(c, q)'
        <5>1. request'[c].run = r /\ (request'[c].pc \in {"cancel", "resume"} \/ q # r)
          BY <1>3, <2>3, AcceptedEffect DEF Launches, Cancels, Looks
        <5> QED
          BY <5>1 DEF Brings
      <4>2. \A d \in Readers \ {c} : Brings(d, q)' => Brings(d, q)
        BY <2>1 DEF Brings
      <4> QED
        BY <4>1, <4>2
    <3>2. Driven(q) => row'[q].state \in Ended \cup {"running"}
      BY <1>3, <2>3 DEF Launches, Cancels, Looks, Sole, Ended, TerminalStates
    <3> QED
      BY <1>1, <3>1, <3>2, SoleKept
  <2> QED
    BY <2>2, <2>3
<1>4. ASSUME NEW r \in Runs, Alters(r)
      PROVE  Sole(q)'
  <2>1. \A d \in Readers : Brings(d, q)' => Brings(d, q)
    BY <1>4 DEF Alters, Brings
  <2>2. Driven(q) => row'[q].state \in Ended \cup {"running"}
    BY <1>4 DEF Alters, Sole
  <2> QED
    BY <1>1, <2>1, <2>2, SoleKept
<1> QED
  BY <1>3, <1>4 DEF UserEffect

LEMMA UserCharge ==
    ASSUME OneProcess, SoloInv, UserAction \/ AnyUserAction \/ Sweep
    PROVE  Charge'
<1>1. TypeOK /\ Knowledge /\ OrderedOrNot /\ Charge
  BY Implements DEF SoloInv, SafeInv, IInv, Next
<1>2. UserEffect /\ proc' = proc /\ task' = task /\ active' = active
  BY <1>1, UserEffects, UsersElsewhere
<1>3. \A r \in Runs : Sole(r)'
  BY <1>1, <1>2, UserSole DEF Charge
<1>4. \A p \in Procs, r \in Runs : Registered(p, r)'
  BY <1>1, <1>2, SlotsKept DEF Charge
<1>5. \A t \in Tasks : AliveTask(t)'
  BY <1>1, <1>2 DEF Charge, AliveTask
<1>6. ASSUME NEW d \in Readers
      PROVE  AliveRequest(d)'
  <2>1. request[d].pc = "cancel" => row'[request[d].run].state \in Ended
    <3> SUFFICES ASSUME request[d].pc = "cancel"
                 PROVE  row'[request[d].run].state \in Ended
      OBVIOUS
    <3>1. request[d].run \in Runs /\ row[request[d].run].state \in Ended
      BY <1>1 DEF Charge, AliveRequest, Knowledge, RequestKnows
    <3> QED
      BY <1>1, <3>1, EndedStays
  <2>2. CASE request'[d] = request[d]
    BY <1>1, <1>2, <2>1, <2>2 DEF Charge, AliveRequest
  <2>3. ASSUME NEW p \in Procs, NEW r \in Runs,
               Launches(d, p, r) \/ Cancels(d, p, r) \/ Looks(d, p, r)
        PROVE  AliveRequest(d)'
    <3>1. /\ proc[p] = "up" /\ request'[d].run = r /\ request'[d].proc = p
          /\ \/ request'[d].pc \in {"spawn", "resume"}
             \/ request'[d].pc = "cancel" /\ row'[r].state = "cancelled"
      BY <1>1, <2>3, AcceptedEffect DEF Launches, Cancels, Looks, Serving
    <3> QED
      BY <1>2, <3>1 DEF AliveRequest, Ended, TerminalStates
  <2>4. ASSUME NEW c \in Readers \ {d}, NEW p \in Procs, NEW r \in Runs,
               Launches(c, p, r) \/ Cancels(c, p, r) \/ Looks(c, p, r)
        PROVE  request'[d] = request[d]
    BY <1>1, <2>4, AcceptedEffect DEF Launches, Cancels, Looks
  <2> QED
    BY <1>2, <2>2, <2>3, <2>4 DEF UserEffect, Alters
<1>7. \A p \in Procs : proc'[p] # "standby"
  BY <1>2 DEF OneProcess, UserEffect, Launches, Cancels, Looks, Serving
<1> QED
  BY <1>3, <1>4, <1>5, <1>6, <1>7 DEF Charge

(* While the only process is down or on standby, nobody is at work. *)
LEMMA NobodyAtWork ==
    ASSUME OneProcess, Knowledge, Charge, NEW p \in Procs, proc[p] \in {"down", "standby"}
    PROVE  /\ \A t \in Tasks : task[t].pc = "none"
           /\ \A c \in Readers : request[c].pc = "none"
<1>1. \A t \in Tasks : task[t].pc # "none" => task[t].proc = p
  BY DEF OneProcess, Knowledge, TaskKnows
<1>2. \A c \in Readers : request[c].pc # "none" => request[c].proc = p
  BY DEF OneProcess, Knowledge, RequestKnows
<1> QED
  BY <1>1, <1>2 DEF Charge, AliveTask, AliveRequest

(* The processes' steps other than the first and the last of a life. *)
LEMMA ProcFrames ==
    ASSUME TypeOK, NEW p \in Procs,
           Lead(p) \/ LoseLock(p) \/ NoticeLoss(p) \/ Signal(p) \/ Drain(p) \/ StopWork(p)
    PROVE  /\ UNCHANGED dbVars /\ task' = task /\ active' = active /\ request' = request
           /\ faults' = faults /\ fact' = fact
           /\ \A q \in Procs \ {p} : proc'[q] = proc[q]
           /\ \/ proc'[p] = proc[p]
              \/ /\ proc[p] \in {"standby", "up", "draining"}
                 /\ proc'[p] \in {"up", "draining", "stopping"}
BY DEF TypeOK, Lead, LoseLock, NoticeLoss, Signal, Drain, StopWork, ProcFrame

(* The only process is gone, and all the work with it. *)
LEMMA ExitEffect ==
    ASSUME OneProcess, TypeOK, Knowledge, NEW p \in Procs, Exit(p)
    PROVE  /\ UNCHANGED dbVars /\ faults' = faults /\ fact' = fact
           /\ \A q \in Procs : proc'[q] = "down" /\ \A r \in Runs : active'[q][r] = Nobody
           /\ \A t \in Tasks : task'[t].pc = "none"
           /\ \A c \in Readers : request'[c].pc = "none"
<1>1. \A t \in Tasks : task[t].pc # "none" => task[t].proc = p
  BY DEF OneProcess, Knowledge, TaskKnows
<1>2. \A c \in Readers : request[c].pc # "none" => request[c].proc = p
  BY DEF OneProcess, Knowledge, RequestKnows
<1>3. \A t \in Tasks : task'[t].pc = "none"
  BY <1>1 DEF Exit, NoTask
<1>4. \A c \in Readers : request'[c].pc = "none"
  BY <1>2 DEF Exit, NoRequest
<1>5. \A q \in Procs : proc'[q] = "down" /\ \A r \in Runs : active'[q][r] = Nobody
  BY DEF OneProcess, Exit, TypeOK
<1> QED
  BY <1>3, <1>4, <1>5 DEF Exit

LEMMA BootEffect ==
    ASSUME TypeOK, NEW p \in Procs, Boot(p)
    PROVE  /\ task' = task /\ active' = active /\ request' = request
           /\ faults' = faults /\ fact' = fact /\ InterruptRunningRunbookRuns
           /\ \A r \in Runs : row'[r].state # "running"
BY DEF TypeOK, DbTypeOK, Row, Boot, ProcFrame, InterruptRunningRunbookRuns, Running

LEMMA ProcCharge ==
    ASSUME OneProcess, SoloInv, NEW p \in Procs, ProcStep(p)
    PROVE  Charge'
<1>1. TypeOK /\ Knowledge /\ Charge
  BY DEF SoloInv, SafeInv, IInv
<1>2. ASSUME NEW q \in Procs, \A t \in Tasks : task'[t].pc = "none",
             \A c \in Readers : request'[c].pc = "none",
             \A u \in Procs, r \in Runs : Registered(u, r)',
             \A u \in Procs : proc'[u] = "standby" => Running' = {}
      PROVE  Charge'
  BY <1>2 DEF Charge, Sole, Driven, Drives, Brings, AliveTask, AliveRequest
<1>3. CASE Exit(p)
  <2>1. \A u \in Procs, r \in Runs : Registered(u, r)'
    BY <1>1, <1>3, ExitEffect DEF Registered
  <2> QED
    BY <1>1, <1>2, <1>3, <2>1, ExitEffect
<1>4. CASE Boot(p)
  <2>1. /\ \A t \in Tasks : task[t].pc = "none"
        /\ \A c \in Readers : request[c].pc = "none"
    BY <1>1, <1>4, NobodyAtWork DEF Boot
  <2>2. \A u \in Procs, r \in Runs : Registered(u, r)'
    BY <1>1, <1>4, <2>1, BootEffect, SlotsKept DEF Charge
  <2>3. Running' = {}
    BY <1>1, <1>4, BootEffect DEF Running
  <2> QED
    BY <1>1, <1>2, <1>4, <2>1, <2>2, <2>3, BootEffect
<1>5. CASE Lead(p) \/ LoseLock(p) \/ NoticeLoss(p) \/ Signal(p) \/ Drain(p) \/ StopWork(p)
  <2>1. /\ row' = row /\ task' = task /\ active' = active /\ request' = request
        /\ \/ proc'[p] = proc[p]
           \/ /\ proc[p] \in {"standby", "up", "draining"}
              /\ proc'[p] \in {"up", "draining", "stopping"}
    BY <1>1, <1>5, ProcFrames DEF dbVars
  <2>2. \A u \in Procs : u = p
    BY DEF OneProcess
  <2>3. \A r \in Runs : Sole(r)'
    BY <1>1, <2>1 DEF Charge, Sole, Driven, Drives, Brings
  <2>4. \A u \in Procs, r \in Runs : Registered(u, r)'
    BY <1>1, <2>1, SlotsKept DEF Charge
  <2>5. \A t \in Tasks : AliveTask(t)'
    BY <1>1, <2>1, <2>2 DEF Charge, AliveTask, Knowledge, TaskKnows
  <2>6. \A c \in Readers : AliveRequest(c)'
    BY <1>1, <2>1, <2>2 DEF Charge, AliveRequest, Knowledge, RequestKnows
  <2>7. \A u \in Procs : proc'[u] = "standby" => Running' = {}
    BY <1>1, <2>1, <2>2 DEF Charge, Running
  <2> QED
    BY <2>3, <2>4, <2>5, <2>6, <2>7 DEF Charge
<1> QED
  BY <1>3, <1>4, <1>5 DEF ProcStep

LEMMA ChargeKept ==
    ASSUME OneProcess, SoloInv, [Next]_vars
    PROVE  Charge'
<1>1. CASE UNCHANGED vars
  BY <1>1 DEF SoloInv, vars, Charge, Sole, Driven, Drives, Brings, Registered, Driving, AliveTask,
              AliveRequest, Running
<1> QED
  BY <1>1, TaskCharge, RequestCharge, UserCharge, ProcCharge DEF Next

-----------------------------------------------------------------------------
(* What the goroutine in charge of a run knows of it.                      *)

(* To a run in charge of somebody who does not move, nothing happens but   *)
(* that a user cancels it or the retention job prunes it.                  *)
Calm(r) ==
    /\ fact'[r] = fact[r]
    /\ row'[r].plan = row[r].plan
    /\ row'[r].startedBy = row[r].startedBy /\ row'[r].resumedBy = row[r].resumedBy
    /\ \/ row'[r].state = row[r].state /\ step'[r] = step[r]
       \/ row[r].state = "running" /\ row'[r].state \in Ended /\ AllSteps(r, Closed)
       \/ row[r].state \in Ended /\ row'[r].state \in Ended /\ step'[r] = step[r]

LEMMA CalmUsers ==
    ASSUME TypeOK, NEW r \in Runs, row[r].state \in Ended \cup {"running"},
           UserAction \/ AnyUserAction \/ Sweep
    PROVE  Calm(r)
<1>0. DbTypeOK /\ fact \in [Runs -> [Steps -> Facts]]
  BY DEF TypeOK
<1>1. Untouched(r) /\ fact'[r] = fact[r] => Calm(r)
  BY DEF Untouched, Calm
<1>2. ASSUME NEW q \in Runs, q # r, RunWrite(q) \/ \E i \in Steps : StepWrite(q, i)
      PROVE  Untouched(r)
  BY <1>0, <1>2, OthersUntouched DEF Untouched
<1>3. ASSUME NEW p \in Procs, NEW q \in Runs, NEW b \in Runbooks, NEW u \in Users,
             NEW f \in Plans,
             Request(p, q, b, u, f) \/ \E c \in Readers : Start(c, p, q, b, u, f)
      PROVE  Calm(r)
  <2>1. row[q].state = "absent" /\ RunWrite(q) /\ fact' = fact
    BY <1>3 DEF Start, Request, CreateRunbookRun, RunWrite
  <2> QED
    BY <1>1, <1>2, <2>1 DEF Ended, TerminalStates
<1>4. ASSUME NEW p \in Procs, NEW q \in Runs, NEW u \in Users,
             Reject(p, q, u) \/ \E c \in Readers : Approve(c, p, q, u)
      PROVE  Calm(r)
  <2>1. row[q].state = "awaiting_approval" /\ RunWrite(q) /\ fact' = fact
    BY <1>4 DEF Approve, Reject, ApproveRunbookRun, RejectRunbookRun, RunWrite
  <2> QED
    BY <1>1, <1>2, <2>1 DEF Ended, TerminalStates
<1>5. ASSUME NEW c \in Readers, NEW p \in Procs, NEW q \in Runs, NEW u \in Users,
             NEW d \in Decisions, ResumeRead(c, p, q, u, d)
      PROVE  Calm(r)
  BY <1>1, <1>5 DEF ResumeRead, Untouched
<1>6. ASSUME NEW c \in Readers, NEW p \in Procs, NEW q \in Runs, NEW i \in Steps,
             Confirm(c, p, q, i)
      PROVE  Calm(r)
  <2>1. row[q].state = "waiting_manual" /\ StepWrite(q, i) /\ SetFact(q, i, "vouched")
    BY <1>6 DEF Confirm, ConfirmRunbookRunStep, StepWrite
  <2>2. q # r
    BY <2>1 DEF Ended, TerminalStates
  <2> QED
    BY <1>0, <1>1, <1>2, <2>1, <2>2, Elsewhere
<1>7. ASSUME NEW c \in Readers, NEW p \in Procs, NEW q \in Runs, Cancel(c, p, q)
      PROVE  Calm(r)
  <2>1. CancelRunbookRun(q) /\ fact' = fact
    BY <1>7 DEF Cancel
  <2>2. CASE q # r
    BY <1>1, <1>2, <2>1, <2>2 DEF RunWrite
  <2>3. CASE q = r
    <3>1. IsOpen(r) /\ SetRun(r, "cancelled") /\ AllSteps(r, Closed)
      BY <2>1, <2>3, <1>0 DEF CancelRunbookRun, CloseSteps, AllSteps, DbTypeOK
    <3>2. row'[r].state = "cancelled" /\ row[r].state = "running"
      BY <1>0, <3>1, SetRunTurns DEF IsOpen, OpenStates, Ended, TerminalStates
    <3> QED
      BY <1>0, <2>1, <3>1, <3>2, SetRunTurns DEF Calm, SameOwner, Ended, TerminalStates
  <2> QED
    BY <2>2, <2>3
<1>8. CASE Sweep
  <2>1. PICK q \in Runs : \/ ExpireOpenRunbookRun(q) \/ ExpireAwaitingApprovalRunbookRun(q)
                          \/ PruneRunbookRun(q)
    BY <1>8 DEF Sweep
  <2>2. fact' = fact /\ RunWrite(q)
    BY <1>8, <2>1 DEF Sweep, RunWrite
  <2>3. CASE q # r
    BY <1>1, <1>2, <2>2, <2>3
  <2>4. CASE q = r
    <3>1. SetRun(r, "pruned") /\ row[r].state \in TerminalStates /\ step' = step
      BY <2>1, <2>4 DEF ExpireOpenRunbookRun, ExpireAwaitingApprovalRunbookRun,
                        PruneRunbookRun, Ended, TerminalStates
    <3> QED
      BY <1>0, <2>2, <3>1, SetRunTurns DEF Calm, SameOwner, Ended
  <2> QED
    BY <2>3, <2>4
<1> QED
  BY <1>3, <1>4, <1>5, <1>6, <1>7, <1>8 DEF UserAction, AnyUserAction

LEMMA CalmWhileDriven ==
    ASSUME OneProcess, SoloInv, [Next]_vars, NEW t \in Tasks, NEW r \in Runs, Drives(t, r),
           ~ TaskStep(t)
    PROVE  Calm(r)
<1>0. /\ TypeOK /\ Knowledge /\ Charge /\ DbTypeOK /\ fact \in [Runs -> [Steps -> Facts]]
      /\ Sole(r)
  BY DEF SoloInv, SafeInv, IInv, TypeOK, Charge
<1>1. row[r].state \in Ended \cup {"running"}
  BY <1>0 DEF Sole, Driven, Drives
<1>2. Untouched(r) /\ fact'[r] = fact[r] => Calm(r)
  BY DEF Untouched, Calm
<1>3. ASSUME UNCHANGED dbVars, fact' = fact
      PROVE  Calm(r)
  BY <1>2, <1>3 DEF dbVars, Untouched
<1>4. ASSUME NEW s \in Tasks, TaskStep(s)
      PROVE  Calm(r)
  <2>1. CASE task[s].run # r
    BY <1>0, <1>2, <1>4, <2>1, TaskElsewhere
  <2>2. CASE task[s].run = r
    <3>1. task[s].pc = "exit"
      <4>1. ~ Drives(s, r)
        BY <1>0, <1>4 DEF Sole
      <4> QED
        BY <1>0, <1>4, <2>2, <4>1, TaskFrame DEF Drives
    <3>2. Release(s)
      BY <1>4, <3>1 DEF TaskStep, Claim, GiveUp, ReadRun, ReadSteps, FinishWithoutStep, Pause,
         StartStep, Refuse, Dispatch, ReturnOk, ReturnError, RecordSuccess, RecordFailure, FailRun
    <3> QED
      BY <1>3, <3>2 DEF Release
  <2> QED
    BY <2>1, <2>2
<1>5. ASSUME NEW c \in Readers, RequestStep(c)
      PROVE  Calm(r)
  <2>1. CASE ResumeCommit(c)
    <3>1. /\ request[c].run \in Runs /\ row[request[c].run].state = "failed"
          /\ row' = [row EXCEPT ![request[c].run].state = "running",
                                ![request[c].run].resumedBy = request[c].user]
          /\ step' = step \/ SetStep(request[c].run, request[c].at, "succeeded")
      BY <1>0, <1>5, <2>1, RequestFrame
         DEF ResumeCommit, ResumeRunbookRun, ResumeRunbookRunMarkingStepDone, CanMarkDone,
             CanResume
    <3>2. r # request[c].run
      BY <1>1, <3>1 DEF Ended, TerminalStates
    <3>3. fact'[r] = fact[r]
      BY <1>0, <2>1, <3>2 DEF ResumeCommit, SetFact
    <3>4. row'[r] = row[r] /\ step'[r] = step[r]
      BY <1>0, <3>1, <3>2, Elsewhere DEF DbTypeOK
    <3> QED
      BY <1>2, <3>3, <3>4 DEF Untouched
  <2>2. CASE FailShutdown(c)
    <3>1. Brings(c, request[c].run) /\ request[c].run \in Runs
      BY <1>0, <1>5, <2>2, RequestFrame DEF FailShutdown, Brings
    <3>2. r # request[c].run
      BY <1>0, <3>1 DEF Sole
    <3>3. UNCHANGED dbVars \/ (SetRun(request[c].run, "failed") /\ step' = step)
      BY <2>2 DEF FailShutdown, UpdateRunbookRun, StoreError, Conflict
    <3> QED
      BY <1>0, <1>2, <2>2, <3>1, <3>2, <3>3, Elsewhere DEF FailShutdown, Untouched, dbVars
  <2>3. CASE ResumeRefused(c) \/ SpawnRefused(c) \/ CancelActive(c) \/ \E s \in Tasks : Spawn(c, s)
    BY <1>3, <2>3 DEF ResumeRefused, SpawnRefused, CancelActive, Spawn
  <2> QED
    BY <1>5, <2>1, <2>2, <2>3 DEF RequestStep
<1>6. ASSUME NEW p \in Procs, ProcStep(p)
      PROVE  Calm(r)
  <2>1. ~ Boot(p)
    BY <1>0, NobodyAtWork DEF Boot, Drives
  <2> QED
    BY <1>0, <1>3, <1>6, <2>1, ExitEffect, ProcFrames DEF ProcStep
<1>7. CASE UNCHANGED vars
  BY <1>3, <1>7 DEF vars, dbVars
<1> QED
  BY <1>0, <1>1, <1>4, <1>5, <1>6, <1>7, CalmUsers DEF Next

(* A goroutine that does not move ends with its process, is born, or is    *)
(* told that its run was cancelled.                                        *)
Told(t) ==
    /\ row[task[t].run].state \in Ended
    /\ task'[t] = [task[t] EXCEPT !.cancelled = TRUE]

LEMMA TaskStill ==
    ASSUME TypeOK, Knowledge, Charge, [Next]_vars, NEW t \in Tasks, ~ TaskStep(t)
    PROVE  \/ task'[t].pc = "none"
           \/ task[t].pc = "none" /\ task'[t].pc = "claim" /\ ~ task'[t].cancelled
           \/ task'[t] = task[t]
           \/ Told(t)
<1>0. task \in [Tasks -> Task]
  BY DEF TypeOK
<1>1. ASSUME NEW s \in Tasks, TaskStep(s)
      PROVE  task'[t] = task[t]
  BY <1>1, OthersKept
<1>2. ASSUME NEW c \in Readers, CancelActive(c)
      PROVE  task'[t] = task[t] \/ Told(t)
  <2>1. /\ request[c].run \in Runs /\ request[c].proc \in Procs
        /\ row[request[c].run].state \in Ended
    BY <1>2 DEF CancelActive, Knowledge, RequestKnows, Charge, AliveRequest
  <2>2. CASE t = active[request[c].proc][request[c].run]
    <3>1. task[t].run = request[c].run
      BY <2>1, <2>2, ExecutorAssumption DEF Charge, Registered
    <3> QED
      BY <1>2, <2>1, <2>2, <3>1 DEF CancelActive, Told
  <2>3. CASE t # active[request[c].proc][request[c].run]
    BY <1>2, <2>3 DEF CancelActive
  <2> QED
    BY <2>2, <2>3
<1>3. ASSUME NEW c \in Readers, NEW s \in Tasks, Spawn(c, s)
      PROVE  \/ task[t].pc = "none" /\ task'[t].pc = "claim" /\ ~ task'[t].cancelled
             \/ task'[t] = task[t]
  BY <1>3, SpawnEffect
<1>4. ASSUME NEW c \in Readers, ResumeCommit(c) \/ ResumeRefused(c) \/ SpawnRefused(c)
             \/ FailShutdown(c)
      PROVE  task' = task
  BY <1>4 DEF ResumeCommit, ResumeRefused, SpawnRefused, FailShutdown
<1>5. ASSUME NEW p \in Procs, Exit(p)
      PROVE  task'[t].pc = "none" \/ task'[t] = task[t]
  BY <1>0, <1>5 DEF Exit, NoTask
<1>6. ASSUME NEW p \in Procs, Boot(p) \/ Lead(p) \/ LoseLock(p) \/ NoticeLoss(p)
             \/ Signal(p) \/ Drain(p) \/ StopWork(p)
      PROVE  task' = task
  BY <1>6 DEF Boot, Lead, LoseLock, NoticeLoss, Signal, Drain, StopWork, ProcFrame
<1>7. CASE UNCHANGED vars
  BY <1>7 DEF vars
<1> QED
  BY <1>1, <1>2, <1>3, <1>4, <1>5, <1>6, <1>7, UsersElsewhere DEF Next, RequestStep, ProcStep

LEMMA StillHolds ==
    ASSUME OneProcess, SoloInv, [Next]_vars, NEW t \in Tasks, ~ TaskStep(t)
    PROVE  TaskHolds(t)'
<1>0. /\ TypeOK /\ Knowledge /\ Charge /\ OrderedOrNot /\ TaskHolds(t)
      /\ task \in [Tasks -> Task]
  BY Implements DEF SoloInv, SafeInv, IInv, TypeOK
<1>1. CASE task'[t].pc = "none"
  BY <1>1 DEF TaskHolds
<1>2. CASE task'[t].pc = "claim" /\ ~ task'[t].cancelled
  BY <1>2 DEF TaskHolds
<1>3. ASSUME task[t].pc # "none", task'[t] = task[t] \/ Told(t)
      PROVE  TaskHolds(t)'
  <2>1. PICK r \in Runs : r = task[t].run
    BY <1>0, <1>3 DEF Knowledge, TaskKnows
  <2>2. /\ task'[t].pc = task[t].pc /\ task'[t].run = r /\ task'[t].at = task[t].at
        /\ task'[t].from = task[t].from /\ task'[t].actor = task[t].actor
        /\ task'[t].out = task[t].out
        /\ task'[t].cancelled => task[t].cancelled \/ row[r].state \in Ended
    BY <1>0, <1>3, <2>1 DEF Told, Task
  <2>3. task'[t].cancelled => row'[r].state \in Ended
    BY <1>0, <1>3, <2>1, <2>2, EndedStays DEF TaskHolds
  <2>4. CASE task[t].pc = "exit"
    BY <2>2, <2>3, <2>4 DEF TaskHolds
  <2>5. CASE task[t].pc # "exit"
    <3>1. Calm(r)
      BY <1>3, <2>1, <2>5, CalmWhileDriven DEF Drives
    <3>2. PICK i : i = task[t].at
      OBVIOUS
    <3>3. task[t].pc \in {"perform", "effect", "succeed"} => i \in Steps
      BY <1>0, <2>1, <3>2 DEF Knowledge, TaskKnows, InHand
    <3>4. ActingUser(r)' = ActingUser(r) /\ IsAction(r, i)' = IsAction(r, i)
      BY <3>1 DEF Calm, ActingUser, IsAction
    <3>5. /\ row'[r].state = "running" => row[r].state = "running" /\ step'[r] = step[r]
          /\ row'[r].state # "running" =>
                \/ row[r].state = "running" /\ AllSteps(r, Closed)
                \/ row[r].state # "running" /\ step'[r] = step[r]
      BY <3>1 DEF Calm, Ended, TerminalStates
    <3>6. (i \in Steps /\ row[r].state = "running" /\ step[r][i] = "running" /\ AllSteps(r, Closed))
            => step'[r][i] = "unknown"
      BY DEF AllSteps, Closed
    <3>7. faults >= 1 => faults' >= 1
      BY <1>0, FaultsGrow
    <3>8. fact'[r] = fact[r]
      BY <3>1 DEF Calm
    <3>9. task'[t].pc \in {"perform", "effect", "succeed"} =>
             step'[r][i] = IF row'[r].state = "running" THEN "running" ELSE "unknown"
      BY <1>0, <1>3, <2>1, <2>2, <3>2, <3>3, <3>5, <3>6 DEF TaskHolds
    <3> QED
      BY <1>0, <1>3, <2>1, <2>2, <2>3, <3>2, <3>4, <3>5, <3>7, <3>8, <3>9 DEF TaskHolds
  <2> QED
    BY <2>4, <2>5
<1>4. task[t].pc = "none" /\ Told(t) => task'[t].pc = "none"
  BY <1>0 DEF Told, Task
<1> QED
  BY <1>0, <1>1, <1>2, <1>3, <1>4, TaskStill

(* The clauses of TaskHolds that matter at each pc, after the step. *)
LEMMA HoldsAt ==
    ASSUME NEW t \in Tasks, NEW r, NEW i, task'[t].run = r, task'[t].at = i,
           task'[t].cancelled => row'[r].state \in Ended
    PROVE  /\ task'[t].pc \in {"none", "claim", "read", "exit", "finish"} => TaskHolds(t)'
           /\ task'[t].pc = "failrun" /\ (row'[r].state # "running" \/ faults' >= 1)
                => TaskHolds(t)'
           /\ (/\ task'[t].pc = "fail"
               /\ row'[r].state = "running" => step'[r][i] = "running"
               /\ \/ task'[t].out = "unknown" \/ row'[r].plan[i] # "connector_action"
                  \/ fact'[r][i] \notin MaybeDone)
                => TaskHolds(t)'
           /\ task'[t].pc = "steps" /\ task'[t].actor = ActingUser(r)' => TaskHolds(t)'
           /\ (/\ task'[t].pc \in {"perform", "effect"} /\ task'[t].actor = ActingUser(r)'
               /\ step'[r][i] = IF row'[r].state = "running" THEN "running" ELSE "unknown"
               /\ \/ task'[t].pc = "effect" \/ row'[r].plan[i] # "connector_action"
                  \/ fact'[r][i] \notin MaybeDone)
                => TaskHolds(t)'
<1>1. task'[t].pc \in {"none", "claim", "read", "exit", "finish"} => TaskHolds(t)'
  BY DEF TaskHolds
<1>2. task'[t].pc = "failrun" /\ (row'[r].state # "running" \/ faults' >= 1) => TaskHolds(t)'
  BY DEF TaskHolds
<1>3. (/\ task'[t].pc = "fail"
       /\ row'[r].state = "running" => step'[r][i] = "running"
       /\ \/ task'[t].out = "unknown" \/ row'[r].plan[i] # "connector_action"
          \/ fact'[r][i] \notin MaybeDone)
        => TaskHolds(t)'
  BY DEF TaskHolds, IsAction
<1>4. task'[t].pc = "steps" /\ task'[t].actor = ActingUser(r)' => TaskHolds(t)'
  BY DEF TaskHolds
<1>5. (/\ task'[t].pc \in {"perform", "effect"} /\ task'[t].actor = ActingUser(r)'
       /\ step'[r][i] = IF row'[r].state = "running" THEN "running" ELSE "unknown"
       /\ \/ task'[t].pc = "effect" \/ row'[r].plan[i] # "connector_action"
          \/ fact'[r][i] \notin MaybeDone)
        => TaskHolds(t)'
  BY DEF TaskHolds, IsAction
<1> QED
  BY <1>1, <1>2, <1>3, <1>4, <1>5

(* A failed call is counted. *)
LEMMA FaultCounted == ASSUME TypeOK, StoreError PROVE faults' >= 1
BY ExecutorAssumption DEF TypeOK, StoreError

(* What the reads find. *)
LEMMA ReadsHold ==
    ASSUME SoloInv, NEW t \in Tasks, ReadRun(t) \/ ReadSteps(t)
    PROVE  TaskHolds(t)'
<1> DEFINE r == task[t].run
<1>0. /\ TypeOK /\ Knowledge /\ OrderedOrNot /\ TaskHolds(t) /\ TaskStep(t)
      /\ task \in [Tasks -> Task] /\ task[t] \in Task
  BY Implements DEF SoloInv, SafeInv, IInv, TypeOK, TaskStep, Next
<1>1. /\ r \in Runs /\ task'[t].run = r
      /\ task'[t].cancelled => row'[r].state \in Ended
  <2>1. r \in Runs /\ task'[t].run = r /\ task'[t].cancelled = task[t].cancelled /\ task[t].pc # "none"
    BY <1>0, TaskFrame DEF TaskKnows, ReadRun, ReadSteps, GiveUp, Release
  <2> QED
    BY <1>0, <2>1, EndedStays DEF TaskHolds
<1>2. CASE ReadRun(t)
  <2>1. CASE Forget(t, "exit")
    BY <1>0, <1>1, <2>1, MoveEffect, HoldsAt
  <2>2. CASE StoreError /\ Goto(t, "failrun")
    BY <1>0, <1>1, <2>2, MoveEffect, HoldsAt, FaultCounted
  <2>3. CASE /\ task' = [task EXCEPT ![t].pc = "steps", ![t].actor = ActingUser(r)]
             /\ UNCHANGED dbVars
    <3>1. task'[t].pc = "steps" /\ task'[t].actor = ActingUser(r)
      BY <1>0, <2>3 DEF Task
    <3>2. ActingUser(r)' = ActingUser(r)
      BY <1>1, <2>3 DEF dbVars, ActingUser
    <3> QED
      BY <1>1, <3>1, <3>2, HoldsAt
  <2> QED
    BY <1>2, <2>1, <2>2, <2>3 DEF ReadRun
<1>3. CASE ReadSteps(t)
  <2>1. CASE Goto(t, "finish")
    BY <1>0, <1>1, <2>1, MoveEffect, HoldsAt
  <2>2. CASE StoreError /\ Goto(t, "failrun")
    BY <1>0, <1>1, <2>2, MoveEffect, HoldsAt, FaultCounted
  <2>3. ASSUME NEW i \in Steps, FirstUnfinished(r, i), Choose(t, i), UNCHANGED dbVars
        PROVE  TaskHolds(t)'
    <3>0. /\ row' = row /\ step' = step /\ RunFits(r) /\ step[r][i] \in StepStates
          /\ step[r][i] # "succeeded" /\ row[r].state # "absent"
      BY <1>0, <1>1, <1>3, <2>3
         DEF dbVars, SoloInv, SafeInv, Fitting, TypeOK, DbTypeOK, FirstUnfinished, Knowledge,
             TaskKnows, ReadSteps
    <3>1. row[r].state = "running" => step[r][i] \notin {"waiting", "skipped"}
      BY <3>0 DEF RunFits, StepFits, Ended, TerminalStates
    <3>2. CASE /\ row[r].plan[i] = "manual"
               /\ task' = [task EXCEPT ![t].pc = "pause", ![t].at = i]
      <4>1. task'[t].pc = "pause" /\ task'[t].at = i
        BY <1>0, <3>2 DEF Task
      <4>2. row[r].state = "running" => step[r][i] = "pending"
        BY <3>0, <3>1, <3>2 DEF RunFits, StepFits
      <4> QED
        BY <1>1, <3>0, <4>1, <4>2 DEF TaskHolds
    <3>3. CASE /\ task' = [task EXCEPT ![t].pc = "start", ![t].at = i, ![t].from = step[r][i],
                             ![t].last = \A j \in Steps \ {i} : step[r][j] = "succeeded"]
      <4>1. /\ task'[t].pc = "start" /\ task'[t].at = i /\ task'[t].from = step[r][i]
            /\ task'[t].actor = task[t].actor
        BY <1>0, <3>3 DEF Task
      <4>2. task[t].actor = ActingUser(r) /\ ActingUser(r)' = ActingUser(r)
        BY <1>0, <1>1, <1>3, <3>0 DEF ReadSteps, TaskHolds, ActingUser
      <4> QED
        BY <1>1, <3>0, <4>1, <4>2 DEF TaskHolds
    <3>4. CASE /\ step[r][i] = "running"
               /\ task' = [task EXCEPT ![t].pc = "fail", ![t].at = i, ![t].out = "unknown"]
      <4>1. task'[t].pc = "fail" /\ task'[t].at = i /\ task'[t].out = "unknown"
        BY <1>0, <3>4 DEF Task
      <4> QED
        BY <1>1, <3>0, <3>4, <4>1, HoldsAt
    <3>5. CASE step[r][i] \notin Startable \cup {"running"} /\ Goto(t, "failrun")
      <4>1. row'[r].state # "running"
        BY <3>0, <3>1, <3>5 DEF Startable, StepStates
      <4> QED
        BY <1>0, <1>1, <3>5, <4>1, MoveEffect, HoldsAt
    <3> QED
      BY <2>3, <3>2, <3>3, <3>4, <3>5 DEF Choose
  <2> QED
    BY <1>3, <2>1, <2>2, <2>3 DEF ReadSteps
<1> QED
  BY <1>2, <1>3

(* What the operation and its answer are. *)
LEMMA PerformHolds ==
    ASSUME SoloInv, NEW t \in Tasks,
           Refuse(t) \/ Dispatch(t) \/ ReturnOk(t) \/ ReturnError(t)
    PROVE  TaskHolds(t)'
<1> DEFINE r == task[t].run  i == task[t].at
<1>0. /\ TypeOK /\ Knowledge /\ OrderedOrNot /\ TaskHolds(t) /\ TaskStep(t)
      /\ task \in [Tasks -> Task] /\ fact \in [Runs -> [Steps -> Facts]]
  BY Implements DEF SoloInv, SafeInv, IInv, TypeOK, TaskStep, Next
<1>1. /\ r \in Runs /\ i \in Steps /\ task'[t].run = r /\ row' = row /\ step' = step
      /\ task'[t].cancelled => row'[r].state \in Ended
  <2>1. /\ r \in Runs /\ i \in Steps /\ task'[t].run = r /\ row' = row /\ step' = step
        /\ task'[t].cancelled = task[t].cancelled /\ task[t].pc # "none"
    BY <1>0, TaskFrame
       DEF TaskKnows, InHand, Refuse, Dispatch, ReturnOk, ReturnError, GiveUp, Release, dbVars
  <2> QED
    BY <1>0, <2>1, EndedStays DEF TaskHolds
<1>2. /\ row[r].state = "running" => step[r][i] = "running"
      /\ task[t].pc # "none" /\ ActingUser(r)' = ActingUser(r)
      /\ step[r][i] = IF row[r].state = "running" THEN "running" ELSE "unknown"
  BY <1>0, <1>1 DEF TaskHolds, Refuse, Dispatch, ReturnOk, ReturnError, ActingUser
<1>3. ASSUME NEW o, Fail(t, o),
             o = "unknown" \/ row[r].plan[i] # "connector_action" \/ fact'[r][i] \notin MaybeDone
      PROVE  TaskHolds(t)'
  BY <1>0, <1>1, <1>2, <1>3, FailEffect, HoldsAt
<1>4. CASE Refuse(t)
  <2>1. row[r].plan[i] # "connector_action" \/ fact'[r][i] \notin MaybeDone
    BY <1>0, <1>4 DEF Refuse, TaskHolds, IsAction
  <2> QED
    BY <1>3, <1>4, <2>1 DEF Refuse
<1>5. CASE Dispatch(t)
  <2>1. /\ task'[t].pc = "effect" /\ task'[t].at = i /\ task'[t].actor = task[t].actor
        /\ task[t].actor = ActingUser(r)
    BY <1>0, <1>5, MoveEffect, MoveKeeps DEF Dispatch, TaskHolds
  <2> QED
    BY <1>1, <1>2, <2>1, HoldsAt
<1>6. CASE ReturnOk(t)
  <2>1. task'[t].pc = "succeed" /\ task'[t].at = i
    BY <1>0, <1>6, MoveEffect DEF ReturnOk
  <2>2. fact'[r][i] = "done"
    BY <1>0, <1>1, <1>6 DEF ReturnOk, SetFact
  <2> QED
    BY <1>1, <1>2, <2>1, <2>2 DEF TaskHolds
<1>7. CASE ReturnError(t)
  <2>1. CASE Fail(t, "failed") /\ SetFact(r, i, "answered")
    <3>1. fact'[r][i] \notin MaybeDone
      BY <1>0, <1>1, <2>1 DEF SetFact, MaybeDone
    <3> QED
      BY <1>3, <2>1, <3>1
  <2>2. CASE Fail(t, "unknown")
    BY <1>3, <2>2
  <2>3. CASE KindOf(t) = "config_push" /\ Fail(t, "failed")
    BY <1>3, <2>3 DEF KindOf
  <2> QED
    BY <1>7, <2>1, <2>2, <2>3 DEF ReturnError
<1> QED
  BY <1>4, <1>5, <1>6, <1>7

(* What the writes leave. *)
LEMMA WritesHold ==
    ASSUME SoloInv, NEW t \in Tasks,
           \/ Claim(t) \/ GiveUp(t) \/ FinishWithoutStep(t) \/ Pause(t) \/ StartStep(t)
           \/ RecordSuccess(t) \/ RecordFailure(t) \/ FailRun(t) \/ Release(t)
    PROVE  TaskHolds(t)'
<1>0. /\ TypeOK /\ Knowledge /\ OrderedOrNot /\ TaskHolds(t) /\ TaskStep(t)
      /\ task \in [Tasks -> Task]
  BY Implements DEF SoloInv, SafeInv, IInv, TypeOK, TaskStep, Next
<1>1. PICK r \in Runs : r = task[t].run
  BY <1>0, TaskFrame DEF TaskKnows
<1>2. PICK i : i = task[t].at
  OBVIOUS
<1>3. CASE GiveUp(t) \/ Release(t)
  <2>1. task'[t].pc = "none"
    BY <1>0, <1>3, TaskFrame DEF NoTask
  <2> QED
    BY <2>1 DEF TaskHolds
<1>4. CASE ~ GiveUp(t) /\ ~ Release(t)
  <2>1. /\ task[t].pc # "none" /\ task'[t].run = r
        /\ task'[t].cancelled => row'[r].state \in Ended
    <3>1. /\ task[t].pc # "none" /\ task'[t].run = r
          /\ task'[t].cancelled = task[t].cancelled
      BY <1>0, <1>1, <1>4, TaskFrame
    <3> QED
      BY <1>0, <1>1, <3>1, EndedStays DEF TaskHolds
  <2>2. CASE StoreError /\ Goto(t, "failrun")
    BY <1>0, <2>1, <2>2, MoveEffect, HoldsAt, FaultCounted
  <2>3. ASSUME NEW pc \in {"read", "exit"}, Goto(t, pc) \/ Forget(t, pc)
        PROVE  TaskHolds(t)'
    BY <1>0, <2>1, <2>3, MoveEffect, HoldsAt
  <2>4. CASE Claim(t) \/ FinishWithoutStep(t) \/ FailRun(t)
    BY <2>3, <2>4 DEF Claim, FinishWithoutStep, FailRun
  <2>5. CASE Pause(t)
    <3>1. CASE Conflict(CanUpdateStep(r, i, "pending")) /\ Goto(t, "failrun")
      <4>1. row' = row /\ row[r].state # "running"
        BY <1>0, <1>1, <1>2, <2>1, <2>5, <3>1
           DEF Conflict, CanUpdateStep, dbVars, Pause, TaskHolds
      <4> QED
        BY <1>0, <2>1, <3>1, <4>1, MoveEffect, HoldsAt
    <3> QED
      BY <1>1, <1>2, <2>2, <2>3, <2>5, <3>1 DEF Pause
  <2>6. CASE StartStep(t)
    <3>1. CASE UpdateRunbookRunStep(r, i, task[t].from, "running") /\ Goto(t, "perform")
      <4>1. /\ i \in Steps /\ row[r].state = "running" /\ step[r][i] = task[t].from
            /\ task[t].from \in {"pending", "failed", "unknown"} /\ row' = row
            /\ SetStep(r, i, "running") /\ fact' = fact
        BY <1>0, <1>1, <1>2, <2>1, <2>6, <3>1
           DEF UpdateRunbookRunStep, CanUpdateStep, StartStep, Knowledge, TaskKnows, InHand
      <4>2. step'[r][i] = "running"
        BY <1>0, <4>1, StepSet
      <4>3. row[r].plan[i] # "connector_action" \/ fact'[r][i] \notin MaybeDone
        BY <4>1 DEF SoloInv, Truth, IsAction, MaybeDone
      <4>4. /\ task'[t].pc = "perform" /\ task'[t].at = i /\ task'[t].actor = ActingUser(r)
            /\ ActingUser(r)' = ActingUser(r)
        BY <1>0, <1>1, <1>2, <2>1, <2>6, <3>1, <4>1, MoveEffect, MoveKeeps
           DEF StartStep, TaskHolds, ActingUser
      <4> QED
        BY <2>1, <4>1, <4>2, <4>3, <4>4, HoldsAt
    <3> QED
      BY <1>1, <1>2, <2>2, <2>3, <2>6, <3>1 DEF StartStep
  <2>7. CASE RecordSuccess(t)
    <3>1. CASE Record(t, "unknown") /\ UNCHANGED dbVars
      <4>1. /\ row[r].state = "running" => step[r][i] = "running"
            /\ row' = row /\ step' = step
        BY <1>0, <1>1, <1>2, <2>1, <2>7, <3>1 DEF RecordSuccess, TaskHolds, dbVars
      <4>2. task'[t].pc = "fail" /\ task'[t].at = i /\ task'[t].out = "unknown"
        BY <1>0, <1>2, <3>1, MoveEffect, MoveKeeps
      <4> QED
        BY <2>1, <4>1, <4>2, HoldsAt
    <3> QED
      BY <1>1, <1>2, <2>3, <2>7, <3>1 DEF RecordSuccess, Conflict, StoreError
  <2>8. CASE RecordFailure(t)
    <3>1. CASE Conflict(CanUpdateStep(r, i, "running")) /\ Goto(t, "failrun")
      <4>1. row' = row /\ row[r].state # "running"
        BY <1>0, <1>1, <1>2, <2>1, <2>8, <3>1
           DEF Conflict, CanUpdateStep, dbVars, RecordFailure, TaskHolds
      <4> QED
        BY <1>0, <2>1, <3>1, <4>1, MoveEffect, HoldsAt
    <3> QED
      BY <1>1, <1>2, <2>2, <2>3, <2>8, <3>1 DEF RecordFailure
  <2> QED
    BY <1>4, <2>4, <2>5, <2>6, <2>7, <2>8
<1> QED
  BY <1>3, <1>4

LEMMA TaskHoldsKept ==
    ASSUME OneProcess, SoloInv, [Next]_vars, NEW t \in Tasks
    PROVE  TaskHolds(t)'
<1>1. CASE TaskStep(t)
  BY <1>1, ReadsHold, PerformHolds, WritesHold DEF TaskStep
<1>2. CASE ~ TaskStep(t)
  BY <1>2, StillHolds
<1> QED
  BY <1>1, <1>2

-----------------------------------------------------------------------------
(* The record of a step agrees with what happened to its operation.        *)

(* Nothing happened to the operation: a write of the record must not claim *)
(* an end that did not come, and a run does not go on after a failure past *)
(* an outcome nobody knows.                                                *)
LEMMA QuietTruth ==
    ASSUME SoloInv, [Next]_vars, NEW r \in Runs, NEW i \in Steps, fact'[r] = fact[r],
           step'[r][i] = "succeeded" => step[r][i] = "succeeded" \/ fact[r][i] \in {"done", "vouched"},
           (step'[r][i] = "failed" /\ IsAction(r, i))
              => step[r][i] = "failed" \/ fact[r][i] \notin MaybeDone,
           (row[r].state = "failed" /\ row'[r].state = "running" /\ step[r][i] = "unknown"
              /\ IsAction(r, i)) => fact[r][i] \notin MaybeDone
    PROVE  Truth(r, i)'
<1>0. /\ TypeOK /\ OrderedOrNot /\ Truth(r, i) /\ RunFits(r) /\ FactFits(r) /\ RunMoves(r)
      /\ step[r][i] \in StepStates
  BY Implements, Moves DEF SoloInv, SafeInv, IInv, Fitting, TypeOK, DbTypeOK
<1>1. row[r].state # "absent" => IsAction(r, i)' = IsAction(r, i)
  BY <1>0, Stable DEF IsAction
<1>2. CASE Untouched(r)
  BY <1>0, <1>2 DEF Untouched, Truth, IsAction
<1>3. CASE Opens(r)
  BY <1>0, <1>3 DEF Opens, Truth, FactFits
<1>4. CASE IsApproved(r)
  BY <1>0, <1>1, <1>4 DEF IsApproved, Truth
<1>5. CASE RunTurns(r)
  <2>0. row[r].state # "absent"
    BY <1>5 DEF RunTurns, Turns, OpenStates, TerminalStates
  <2>1. CASE /\ \E b \in {"rejected", "expired"} : Turns(r, "awaiting_approval", b)
             /\ AllSteps(r, Skipped)
    BY <1>0, <1>1, <2>0, <2>1 DEF Turns, AllSteps, Skipped, Truth
  <2>2. CASE /\ \E a \in OpenStates, b \in {"cancelled", "expired"} : Turns(r, a, b)
             /\ AllSteps(r, Closed)
    BY <1>0, <1>1, <2>0, <2>2 DEF Turns, AllSteps, Closed, Truth
  <2>3. CASE Turns(r, "running", "failed") /\ AllSteps(r, Interrupted)
    BY <1>0, <1>1, <2>0, <2>3 DEF Turns, AllSteps, Interrupted, Truth
  <2>4. CASE /\ step'[r] = step[r]
             /\ \/ Turns(r, "running", "succeeded") \/ Turns(r, "running", "failed")
                \/ Turns(r, "failed", "running")
                \/ \E a \in TerminalStates : Turns(r, a, "pruned")
    BY <1>0, <1>1, <2>0, <2>4 DEF Turns, Truth
  <2> QED
    BY <1>5, <2>1, <2>2, <2>3, <2>4 DEF RunTurns
<1>6. ASSUME NEW j \in Steps, StepTurns(r, j)
      PROVE  Truth(r, i)'
  <2>0. row[r].state # "absent"
    BY <1>6 DEF StepTurns, Turns
  <2>1. CASE Turns(r, "running", "running")
    BY <1>0, <1>1, <1>6, <2>0, <2>1 DEF StepTurns, Turns, OneStep, Truth
  <2>2. CASE Turns(r, "running", "waiting_manual")
    BY <1>0, <1>1, <1>6, <2>0, <2>2 DEF StepTurns, Turns, OneStep, Truth
  <2>3. CASE Turns(r, "running", "failed") \/ Turns(r, "running", "succeeded")
    BY <1>0, <1>1, <1>6, <2>0, <2>3 DEF StepTurns, Turns, OneStep, Truth
  <2>4. CASE Turns(r, "waiting_manual", "running") \/ Turns(r, "failed", "running")
    BY <1>0, <1>1, <1>6, <2>0, <2>4 DEF StepTurns, Turns, OneStep, Truth
  <2> QED
    BY <1>6, <2>1, <2>2, <2>3, <2>4 DEF StepTurns
<1> QED
  BY <1>0, <1>2, <1>3, <1>4, <1>5, <1>6 DEF RunMoves

(* What a goroutine may write of a step of its run. *)
LEMMA TaskWrites ==
    ASSUME TypeOK, Knowledge, NEW t \in Tasks, TaskStep(t), NEW j \in Steps
    PROVE  LET r == task[t].run IN
           /\ row'[r].state = "running" => row[r].state = "running"
           /\ \/ step'[r][j] = step[r][j]
              \/ step'[r][j] \in {"waiting", "running", "unknown"}
              \/ task[t].pc = "succeed" /\ j = task[t].at /\ step'[r][j] = "succeeded"
              \/ /\ task[t].pc = "fail" /\ task[t].out = "failed"
                 /\ j = task[t].at /\ step'[r][j] = "failed"
<1>0. DbTypeOK
  BY DEF TypeOK
<1>1. PICK r \in Runs, i \in 0 .. StepCount : r = task[t].run /\ i = task[t].at
  BY TaskFrame DEF TaskKnows, TypeOK, Task
<1>2. task[t].pc \in InHand => i \in Steps
  BY <1>1, TaskFrame DEF TaskKnows
<1>3. CASE UNCHANGED dbVars
  BY <1>1, <1>3 DEF dbVars
<1>4. CASE \E to : UpdateRunbookRun(r, to)
  BY <1>1, <1>4 DEF UpdateRunbookRun
<1>5. ASSUME NEW from, NEW to, i \in Steps, UpdateRunbookRunStep(r, i, from, to)
      PROVE  /\ row' = row /\ step'[r][i] = to /\ \A k \in Steps \ {i} : step'[r][k] = step[r][k]
  BY <1>0, <1>5, SetStepOne DEF UpdateRunbookRunStep
<1>6. ASSUME NEW from, NEW to, NEW b, i \in Steps, TransitionWithStep(r, i, from, to, b)
      PROVE  /\ row[r].state = "running" /\ step'[r][i] = to
             /\ \A k \in Steps \ {i} : step'[r][k] = step[r][k]
  BY <1>0, <1>6, SetStepOne DEF TransitionWithStep, CanUpdateStep
<1>7. CASE Claim(t) \/ GiveUp(t) \/ ReadRun(t) \/ ReadSteps(t) \/ Refuse(t) \/ Dispatch(t)
           \/ ReturnOk(t) \/ ReturnError(t) \/ Release(t)
  BY <1>3, <1>7 DEF Claim, GiveUp, ReadRun, ReadSteps, StoreError, Refuse, Dispatch, ReturnOk,
                    ReturnError, Release
<1>8. CASE FinishWithoutStep(t) \/ FailRun(t)
  BY <1>1, <1>3, <1>4, <1>8 DEF FinishWithoutStep, FailRun, StoreError, Conflict
<1>9. CASE Pause(t)
  <2>1. i \in Steps
    BY <1>2, <1>9 DEF Pause, InHand
  <2>2. UNCHANGED dbVars \/ TransitionWithStep(r, i, "pending", "waiting", "waiting_manual")
    BY <1>1, <1>9 DEF Pause, StoreError, Conflict, PauseRunbookRunOnManualStep
  <2> QED
    BY <1>1, <1>3, <1>6, <2>1, <2>2
<1>10. CASE StartStep(t)
  <2>1. i \in Steps
    BY <1>2, <1>10 DEF StartStep, InHand
  <2>2. UNCHANGED dbVars \/ UpdateRunbookRunStep(r, i, task[t].from, "running")
    BY <1>1, <1>10 DEF StartStep, StoreError, Conflict
  <2> QED
    BY <1>1, <1>3, <1>5, <2>1, <2>2
<1>11. CASE RecordSuccess(t)
  <2>1. i \in Steps /\ task[t].pc = "succeed"
    BY <1>2, <1>11 DEF RecordSuccess, InHand
  <2>2. \/ UNCHANGED dbVars \/ UpdateRunbookRunStep(r, i, "running", "succeeded")
        \/ TransitionWithStep(r, i, "running", "succeeded", "succeeded")
    BY <1>1, <1>11 DEF RecordSuccess, StoreError, Conflict, FinishRunbookRun
  <2> QED
    BY <1>1, <1>3, <1>5, <1>6, <2>1, <2>2
<1>12. CASE RecordFailure(t)
  <2>1. i \in Steps /\ task[t].pc = "fail" /\ task[t].out \in {"failed", "unknown"}
    BY <1>2, <1>12 DEF RecordFailure, InHand, TypeOK, Task
  <2>2. UNCHANGED dbVars \/ TransitionWithStep(r, i, "running", task[t].out, "failed")
    BY <1>1, <1>12 DEF RecordFailure, StoreError, Conflict, FailRunbookRunStep
  <2> QED
    BY <1>1, <1>3, <1>6, <2>1, <2>2
<1> QED
  BY <1>1, <1>7, <1>8, <1>9, <1>10, <1>11, <1>12 DEF TaskStep

LEMMA TaskTruth ==
    ASSUME OneProcess, SoloInv, NEW t \in Tasks, TaskStep(t), NEW r \in Runs, NEW j \in Steps
    PROVE  Truth(r, j)'
<1>0. /\ TypeOK /\ Knowledge /\ TaskKnows(t) /\ TaskHolds(t) /\ Truth(r, j) /\ Sole(r)
      /\ fact \in [Runs -> [Steps -> Facts]] /\ task[t].pc # "none" /\ [Next]_vars
  BY TaskFrame DEF SoloInv, SafeInv, IInv, TypeOK, Charge, Next
<1>1. CASE task[t].run # r
  BY <1>0, <1>1, TaskElsewhere, QuietTruth DEF Untouched
<1>2. CASE task[t].run = r /\ fact'[r] = fact[r]
  <2>1. step'[r][j] = "succeeded" => step[r][j] = "succeeded" \/ fact[r][j] \in {"done", "vouched"}
    BY <1>0, <1>2, TaskWrites DEF TaskHolds
  <2>2. (step'[r][j] = "failed" /\ IsAction(r, j))
              => step[r][j] = "failed" \/ fact[r][j] \notin MaybeDone
    BY <1>0, <1>2, TaskWrites DEF TaskHolds
  <2>3. row'[r].state = "running" => row[r].state = "running"
    BY <1>0, <1>2, TaskWrites
  <2> QED
    BY <1>0, <1>2, <2>1, <2>2, <2>3, QuietTruth
<1>3. CASE task[t].run = r /\ fact'[r] # fact[r]
  <2>1. Dispatch(t) \/ ReturnOk(t) \/ ReturnError(t)
    BY <1>3 DEF TaskStep, Claim, GiveUp, ReadRun, ReadSteps, FinishWithoutStep, Pause,
       StartStep, Refuse, RecordSuccess, RecordFailure, FailRun, Release
  <2>2. /\ row' = row /\ step' = step /\ task[t].pc \in {"perform", "effect"}
        /\ task[t].at \in Steps
    BY <1>0, <2>1 DEF Dispatch, ReturnOk, ReturnError, dbVars, TaskKnows, InHand
  <2>3. j # task[t].at => fact'[r][j] = fact[r][j]
    BY <1>0, <1>3, <2>1, <2>2 DEF Dispatch, ReturnOk, ReturnError, SetFact
  <2>4. row[r].state \in Ended \cup {"running"}
    BY <1>3, <2>2 DEF SoloInv, Charge, Sole, Driven
  <2>5. j = task[t].at => step[r][j] = IF row[r].state = "running" THEN "running" ELSE "unknown"
    BY <1>0, <1>3, <2>2 DEF TaskHolds
  <2> QED
    BY <1>0, <2>2, <2>3, <2>4, <2>5 DEF Truth, IsAction, Ended, TerminalStates
<1> QED
  BY <1>1, <1>2, <1>3

(* A step nobody knows the outcome of is the next one of its run. *)
LEMMA UnknownIsNext ==
    ASSUME StepsInOrder, NEW r \in Runs, NEW i \in Steps, NEW j \in Steps,
           step[r][j] = "unknown"
    PROVE  FirstUnfinished(r, j) /\ (FirstUnfinished(r, i) => i = j)
<1>1. FirstUnfinished(r, j)
  BY DEF StepsInOrder, FirstUnfinished
<1>2. i < j => step[r][i] = "succeeded"
  BY DEF StepsInOrder, Steps
<1>3. j < i => ~ FirstUnfinished(r, i)
  BY DEF FirstUnfinished, Steps
<1> QED
  BY <1>1, <1>2, <1>3, StoreAssumption DEF FirstUnfinished, Steps

LEMMA ResumeTruth ==
    ASSUME SoloInv, NEW c \in Readers, ResumeCommit(c), NEW r \in Runs, NEW j \in Steps
    PROVE  Truth(r, j)'
<1>0. /\ TypeOK /\ Knowledge /\ StepsInOrder /\ DbTypeOK /\ SeenRun(c) /\ Truth(r, j)
      /\ fact \in [Runs -> [Steps -> Facts]] /\ RequestKnows(c)
  BY DEF SoloInv, SafeInv, IInv, Fitting, TypeOK, Knowledge, ResumeCommit
<1>1. PICK q \in Runs, i \in 0 .. StepCount : q = request[c].run /\ i = request[c].at
  BY <1>0 DEF RequestKnows, TypeOK, PendingRequest
<1>2. /\ row[q].state = "failed" /\ c \in readers[q]
      /\ row' = [row EXCEPT ![q].state = "running", ![q].resumedBy = request[c].user]
  BY <1>1 DEF ResumeCommit, ResumeRunbookRun, ResumeRunbookRunMarkingStepDone, CanMarkDone,
              CanResume
<1>3. row'[q].state = "running" /\ row'[q].plan = row[q].plan /\ (r # q => row'[r] = row[r])
  BY <1>0, <1>2 DEF DbTypeOK
<1>4. CASE step'[r][j] = step[r][j] /\ fact'[r][j] = fact[r][j]
           /\ (r = q /\ step[r][j] = "unknown" /\ IsAction(r, j) => fact[r][j] \notin MaybeDone)
  BY <1>0, <1>3, <1>4 DEF Truth, IsAction
<1>5. request[c].pc = "resume"
  BY DEF ResumeCommit
<1>6. CASE /\ request[c].decision = "mark_done"
           /\ ResumeRunbookRunMarkingStepDone(c, q, i, request[c].user)
           /\ SetFact(q, i, "vouched")
  <2>1. i \in Steps /\ FirstUnfinished(q, i) /\ SetStep(q, i, "succeeded")
    BY <1>0, <1>1, <1>5, <1>6 DEF RequestKnows, ResumeRunbookRunMarkingStepDone, CanMarkDone
  <2>2. CASE r = q /\ j = i
    <3>1. step'[r][j] = "succeeded"
      BY <1>0, <2>1, <2>2, StepSet
    <3>2. fact'[r][j] = "vouched"
      BY <1>0, <1>6, <2>1, <2>2 DEF SetFact
    <3> QED
      BY <3>1, <3>2 DEF Truth
  <2>3. CASE r = q /\ j # i
    <3>1. step'[r][j] = step[r][j]
      BY <1>0, <2>1, <2>3, SetStepOne
    <3>2. fact'[r][j] = fact[r][j]
      BY <1>0, <1>6, <2>1, <2>3 DEF SetFact
    <3>3. step[r][j] # "unknown"
      BY <1>0, <2>1, <2>3, UnknownIsNext
    <3> QED
      BY <1>4, <3>1, <3>2, <3>3
  <2>4. CASE r # q
    BY <1>0, <1>4, <1>6, <2>1, <2>4, Elsewhere
  <2> QED
    BY <2>2, <2>3, <2>4
<1>7. CASE /\ request[c].decision = "resend" /\ FirstUnfinished(q, i)
           /\ fact' = [fact EXCEPT ![q][i] = IF @ \in {"sent", "done"} THEN "consented" ELSE @]
           /\ step' = step
  <2>1. i \in Steps /\ step[q][i] = "unknown"
    BY <1>0, <1>1, <1>2, <1>5, <1>7 DEF RequestKnows, SeenRun, DecisionRequired
  <2>2. CASE r = q /\ j = i
    <3>1. fact'[r][j] \notin MaybeDone
      BY <1>0, <1>7, <2>1, <2>2 DEF MaybeDone
    <3> QED
      BY <1>7, <2>1, <2>2, <3>1 DEF Truth
  <2>3. CASE ~ (r = q /\ j = i)
    <3>1. fact'[r][j] = fact[r][j]
      BY <1>0, <1>7, <2>1, <2>3
    <3>2. r = q => step[r][j] # "unknown"
      BY <1>0, <1>7, <2>1, <2>3, UnknownIsNext
    <3> QED
      BY <1>4, <1>7, <3>1, <3>2
  <2> QED
    BY <2>2, <2>3
<1>8. CASE request[c].decision = "none" /\ fact' = fact /\ step' = step
  <2>1. ~ (r = q /\ step[r][j] = "unknown" /\ IsAction(r, j))
    BY <1>0, <1>1, <1>2, <1>5, <1>8, UnknownIsNext DEF SeenRun, DecisionRequired, IsAction
  <2> QED
    BY <1>4, <1>8, <2>1
<1> QED
  BY <1>1, <1>6, <1>7, <1>8 DEF ResumeCommit, ResumeRunbookRun

(* What users, handlers and processes write by themselves. *)
LEMMA OtherTruth ==
    ASSUME SoloInv, [Next]_vars, NEW r \in Runs, NEW j \in Steps, fact' = fact,
           step'[r][j] = step[r][j] \/ step'[r][j] \notin {"succeeded", "failed"},
           row[r].state = "failed" => row'[r].state # "running"
    PROVE  Truth(r, j)'
<1>1. fact'[r] = fact[r]
  OBVIOUS
<1>2. step'[r][j] = "succeeded" => step[r][j] = "succeeded" \/ fact[r][j] \in {"done", "vouched"}
  OBVIOUS
<1>3. (step'[r][j] = "failed" /\ IsAction(r, j)) => step[r][j] = "failed" \/ fact[r][j] \notin MaybeDone
  OBVIOUS
<1>4. (row[r].state = "failed" /\ row'[r].state = "running" /\ step[r][j] = "unknown"
         /\ IsAction(r, j)) => fact[r][j] \notin MaybeDone
  OBVIOUS
<1> QED
  BY <1>1, <1>2, <1>3, <1>4, QuietTruth

LEMMA HandlerTruth ==
    ASSUME SoloInv, NEW c \in Readers, RequestStep(c), NEW r \in Runs, NEW j \in Steps
    PROVE  Truth(r, j)'
<1>1. CASE ResumeCommit(c)
  BY <1>1, ResumeTruth
<1>2. CASE ~ ResumeCommit(c)
  <2>1. DbTypeOK /\ Knowledge /\ TypeOK /\ [Next]_vars
    BY DEF SoloInv, SafeInv, IInv, TypeOK, Next
  <2>2. /\ fact' = fact /\ step' = step
        /\ UNCHANGED row \/ SetRun(request[c].run, "failed")
    BY <1>2 DEF RequestStep, ResumeRefused, SpawnRefused, FailShutdown, CancelActive, Spawn,
                UpdateRunbookRun, StoreError, Conflict, dbVars
  <2>3. row[r].state = "failed" => row'[r].state # "running"
    <3>1. CASE row' = row
      BY <3>1
    <3>2. CASE SetRun(request[c].run, "failed")
      <4>1. PICK q : q = request[c].run
        OBVIOUS
      <4>2. row' = [row EXCEPT ![q].state = "failed"]
        BY <3>2, <4>1 DEF SetRun
      <4> QED
        BY <2>1, <4>2 DEF DbTypeOK
    <3> QED
      BY <2>2, <3>1, <3>2
  <2> QED
    BY <2>1, <2>2, <2>3, OtherTruth
<1> QED
  BY <1>1, <1>2

LEMMA ProcTruth ==
    ASSUME SoloInv, NEW p \in Procs, ProcStep(p), NEW r \in Runs, NEW j \in Steps
    PROVE  Truth(r, j)'
<1>0. DbTypeOK /\ [Next]_vars /\ fact' = fact
  BY ProcsElsewhere DEF SoloInv, SafeInv, IInv, TypeOK, Next
<1>1. UNCHANGED dbVars \/ InterruptRunningRunbookRuns
  BY DEF ProcStep, Boot, Lead, LoseLock, NoticeLoss, Signal, Drain, StopWork, Exit
<1>2. step'[r][j] = step[r][j] \/ step'[r][j] \notin {"succeeded", "failed"}
  BY <1>0, <1>1 DEF dbVars, InterruptRunningRunbookRuns, Interrupted
<1>3. row[r].state = "failed" => row'[r].state # "running"
  BY <1>0, <1>1 DEF dbVars, InterruptRunningRunbookRuns, Running
<1> QED
  BY <1>0, <1>2, <1>3, OtherTruth

(* What a user's action or a sweep writes of one step. *)
LEMMA UserWrites ==
    ASSUME DbTypeOK, NEW r \in Runs, NEW j \in Steps, NEW q \in Runs,
           \/ \E b \in Runbooks, u \in Users, f \in Plans, g \in BOOLEAN :
                 CreateRunbookRun(q, b, u, f, g)
           \/ \E u \in Users : ApproveRunbookRun(q, u)
           \/ RejectRunbookRun(q) \/ CancelRunbookRun(q) \/ ExpireOpenRunbookRun(q)
           \/ ExpireAwaitingApprovalRunbookRun(q) \/ PruneRunbookRun(q)
    PROVE  /\ step'[r][j] = step[r][j] \/ step'[r][j] \notin {"succeeded", "failed"}
           /\ row[r].state = "failed" => row'[r].state # "running"
<1>1. ASSUME NEW b \in Runbooks, NEW u \in Users, NEW f \in Plans, NEW g \in BOOLEAN,
             CreateRunbookRun(q, b, u, f, g)
      PROVE  /\ step'[r][j] = step[r][j] \/ step'[r][j] = "pending"
             /\ row[r].state = "failed" => row'[r].state # "running"
  <2>1. /\ row[q].state = "absent" /\ row' = [row EXCEPT ![q] = row'[q]]
        /\ step' = [step EXCEPT ![q] = [i \in Steps |-> "pending"]]
    BY <1>1 DEF CreateRunbookRun, DbTypeOK
  <2> QED
    BY <2>1 DEF DbTypeOK
<1>2. ASSUME NEW u \in Users, ApproveRunbookRun(q, u)
      PROVE  step' = step /\ (row[r].state = "failed" => row'[r].state # "running")
  <2>1. /\ row[q].state = "awaiting_approval" /\ step' = step
        /\ row' = [row EXCEPT ![q].state = "running", ![q].approvedBy = u]
    BY <1>2 DEF ApproveRunbookRun
  <2> QED
    BY <2>1 DEF DbTypeOK
<1>3. ASSUME NEW s \in {"rejected", "cancelled", "expired", "pruned"}, SetRun(q, s)
      PROVE  row[r].state = "failed" => row'[r].state # "running"
  BY <1>3 DEF SetRun, DbTypeOK
<1>4. CASE RejectRunbookRun(q) \/ ExpireAwaitingApprovalRunbookRun(q)
  <2>1. SkipPending(q) /\ \E s \in {"rejected", "expired"} : SetRun(q, s)
    BY <1>4 DEF RejectRunbookRun, ExpireAwaitingApprovalRunbookRun
  <2>2. step'[r][j] = step[r][j] \/ step'[r][j] = "skipped"
    BY <2>1 DEF SkipPending, DbTypeOK
  <2> QED
    BY <1>3, <2>1, <2>2
<1>5. CASE CancelRunbookRun(q) \/ ExpireOpenRunbookRun(q)
  <2>1. CloseSteps(q) /\ \E s \in {"cancelled", "expired"} : SetRun(q, s)
    BY <1>5 DEF CancelRunbookRun, ExpireOpenRunbookRun
  <2>2. step'[r][j] = step[r][j] \/ step'[r][j] \in {"skipped", "unknown"}
    BY <2>1 DEF CloseSteps, Closed, DbTypeOK
  <2> QED
    BY <1>3, <2>1, <2>2
<1>6. CASE PruneRunbookRun(q)
  BY <1>3, <1>6 DEF PruneRunbookRun
<1> QED
  BY <1>1, <1>2, <1>4, <1>5, <1>6

(* A confirmed step is vouched for by the user who confirms it. *)
LEMMA ConfirmTruth ==
    ASSUME SoloInv, NEW r \in Runs, NEW j \in Steps, NEW c \in Readers, NEW p \in Procs,
           NEW q \in Runs, NEW i \in Steps, Confirm(c, p, q, i), [Next]_vars
    PROVE  Truth(r, j)'
<1>0. TypeOK /\ DbTypeOK /\ fact \in [Runs -> [Steps -> Facts]] /\ Truth(r, j)
  BY DEF SoloInv, SafeInv, IInv, TypeOK
<1>1. /\ row[q].state = "waiting_manual" /\ SetRun(q, "running")
      /\ SetStep(q, i, "succeeded") /\ SetFact(q, i, "vouched")
  BY DEF Confirm, ConfirmRunbookRunStep
<1>2. CASE r = q /\ j = i
  <2>1. step'[r][j] = "succeeded"
    BY <1>0, <1>1, <1>2, StepSet
  <2>2. fact'[r][j] = "vouched"
    BY <1>0, <1>1, <1>2 DEF SetFact
  <2> QED
    BY <2>1, <2>2 DEF Truth
<1>3. CASE r = q /\ j # i
  <2>1. step'[r][j] = step[r][j]
    BY <1>0, <1>1, <1>3, SetStepOne
  <2>2. fact'[r][j] = fact[r][j]
    BY <1>0, <1>1, <1>3 DEF SetFact
  <2>3. row'[r].state = "running" /\ row'[r].plan = row[r].plan
    BY <1>0, <1>1, <1>3, SetRunTurns DEF SameOwner
  <2> QED
    BY <1>0, <1>1, <1>3, <2>1, <2>2, <2>3 DEF Truth, IsAction
<1>4. CASE r # q
  <2>1. row'[r] = row[r] /\ step'[r] = step[r] /\ fact'[r] = fact[r]
    BY <1>0, <1>1, <1>4, Elsewhere
  <2> QED
    BY <1>0, <2>1 DEF Truth, IsAction
<1> QED
  BY <1>2, <1>3, <1>4

LEMMA UserTruth ==
    ASSUME SoloInv, UserAction \/ AnyUserAction \/ Sweep, NEW r \in Runs, NEW j \in Steps
    PROVE  Truth(r, j)'
<1>0. DbTypeOK /\ [Next]_vars
  BY DEF SoloInv, SafeInv, IInv, TypeOK, Next
<1>1. ASSUME NEW q \in Runs, fact' = fact,
           \/ \E b \in Runbooks, u \in Users, f \in Plans, g \in BOOLEAN :
                 CreateRunbookRun(q, b, u, f, g)
           \/ \E u \in Users : ApproveRunbookRun(q, u)
           \/ RejectRunbookRun(q) \/ CancelRunbookRun(q) \/ ExpireOpenRunbookRun(q)
           \/ ExpireAwaitingApprovalRunbookRun(q) \/ PruneRunbookRun(q)
      PROVE  Truth(r, j)'
  <2>1. /\ step'[r][j] = step[r][j] \/ step'[r][j] \notin {"succeeded", "failed"}
        /\ row[r].state = "failed" => row'[r].state # "running"
    BY <1>0, <1>1, UserWrites
  <2> QED
    BY <1>0, <1>1, <2>1, OtherTruth
<1>2. ASSUME NEW p \in Procs, NEW q \in Runs, NEW u \in Users, NEW b \in Runbooks,
             NEW f \in Plans, Request(p, q, b, u, f) \/ \E c \in Readers : Start(c, p, q, b, u, f)
      PROVE  Truth(r, j)'
  <2>1. fact' = fact /\ \E g \in BOOLEAN : CreateRunbookRun(q, b, u, f, g)
    BY <1>2 DEF Request, Start
  <2> QED
    BY <1>1, <2>1
<1>3. ASSUME NEW p \in Procs, NEW q \in Runs, NEW u \in Users,
             Reject(p, q, u) \/ \E c \in Readers : Approve(c, p, q, u)
      PROVE  Truth(r, j)'
  BY <1>1, <1>3 DEF Reject, Approve
<1>4. ASSUME NEW c \in Readers, NEW p \in Procs, NEW q \in Runs, NEW u \in Users,
             NEW d \in Decisions, ResumeRead(c, p, q, u, d)
      PROVE  Truth(r, j)'
  <2>1. row' = row /\ step' = step /\ fact' = fact
    BY <1>4 DEF ResumeRead
  <2> QED
    BY <1>0, <2>1, OtherTruth
<1>5. ASSUME NEW c \in Readers, NEW p \in Procs, NEW q \in Runs, Cancel(c, p, q)
      PROVE  Truth(r, j)'
  BY <1>1, <1>5 DEF Cancel
<1>6. CASE Sweep
  BY <1>1, <1>6 DEF Sweep
<1> QED
  BY <1>0, <1>2, <1>3, <1>4, <1>5, <1>6, ConfirmTruth DEF UserAction, AnyUserAction

LEMMA TruthKept ==
    ASSUME OneProcess, SoloInv, [Next]_vars, NEW r \in Runs, NEW j \in Steps
    PROVE  Truth(r, j)'
<1>1. CASE UNCHANGED vars
  BY <1>1 DEF vars, SoloInv, Truth, IsAction
<1> QED
  BY <1>1, TaskTruth, HandlerTruth, UserTruth, ProcTruth DEF Next

-----------------------------------------------------------------------------
(* A run that runs has somebody in charge, or its process stops, or store  *)
(* calls failed.                                                           *)

(* What a goroutine that stops with a running run leaves behind. *)
Excused(r) == (AllSucceeded(r) /\ faults >= 1) \/ faults > 1 \/ Stopping

LEMMA StoppingStays ==
    ASSUME OneProcess, SoloInv, [Next]_vars, NEW r \in Runs,
           row[r].state = "running", row'[r].state = "running", Stopping
    PROVE  Stopping'
<1>0. TypeOK /\ Knowledge /\ Charge
  BY DEF SoloInv, SafeInv, IInv
<1>1. CASE proc' = proc /\ baseDone' = baseDone
  BY <1>1 DEF Stopping
<1>2. ASSUME NEW p \in Procs, ProcStep(p)
      PROVE  Stopping'
  <2>1. ~ Boot(p)
    BY <1>0, BootEffect
  <2>2. ~ Lead(p)
    BY <1>0 DEF Lead, Charge, Running
  <2>3. CASE Exit(p)
    BY <1>0, <2>3, ExitEffect DEF Stopping
  <2>4. CASE LoseLock(p)
    BY <1>1, <2>4 DEF LoseLock
  <2>5. CASE NoticeLoss(p) \/ Drain(p) \/ StopWork(p)
    <3>1. baseDone' = baseDone /\ \E s \in {"draining", "stopping"} : proc' = [proc EXCEPT ![p] = s]
      BY <2>5 DEF NoticeLoss, Drain, StopWork
    <3> QED
      BY <1>0, <3>1 DEF Stopping, TypeOK
  <2>6. CASE Signal(p)
    <3>1. proc' = proc /\ baseDone' = [baseDone EXCEPT ![p] = TRUE]
      BY <2>6 DEF Signal
    <3>2. \A q \in Procs : baseDone[q] => baseDone'[q]
      BY <1>0, <3>1 DEF TypeOK
    <3> QED
      BY <3>1, <3>2 DEF Stopping
  <2> QED
    BY <1>2, <2>1, <2>2, <2>3, <2>4, <2>5, <2>6 DEF ProcStep
<1>3. ASSUME NEW t \in Tasks, TaskStep(t)
      PROVE  proc' = proc /\ baseDone' = baseDone
  BY <1>0, <1>3, TaskFrame
<1>4. ASSUME NEW c \in Readers, RequestStep(c)
      PROVE  proc' = proc /\ baseDone' = baseDone
  BY <1>0, <1>4, RequestFrame
<1>5. CASE UserAction \/ AnyUserAction \/ Sweep
  BY <1>0, <1>1, <1>5, UserEffects
<1>6. CASE UNCHANGED vars
  BY <1>1, <1>6 DEF vars, procVars
<1> QED
  BY <1>1, <1>2, <1>3, <1>4, <1>5, <1>6 DEF Next

LEMMA ExcusedStays ==
    ASSUME OneProcess, SoloInv, [Next]_vars, NEW r \in Runs,
           row[r].state = "running", row'[r].state = "running", Excused(r)
    PROVE  Excused(r)'
<1>0. TypeOK /\ OrderedOrNot
  BY Implements DEF SoloInv, SafeInv, IInv
<1>1. faults' \in Nat /\ faults \in Nat /\ faults' >= faults
  BY <1>0, FaultsGrow
<1>2. AllSucceeded(r) => AllSucceeded(r)'
  BY <1>0, PrefixStable
<1>3. Stopping => Stopping'
  BY StoppingStays
<1> QED
  BY <1>1, <1>2, <1>3 DEF Excused

(* A goroutine stops with a run that runs only because it was told to, or  *)
(* because the store refused it.                                           *)
LEMMA TaskQuits ==
    ASSUME OneProcess, SoloInv, NEW t \in Tasks, TaskStep(t), NEW r \in Runs, Drives(t, r),
           row[r].state = "running", row'[r].state = "running", task'[t].pc \in {"none", "exit"}
    PROVE  Excused(r)'
<1>0. /\ TypeOK /\ Knowledge /\ TaskKnows(t) /\ TaskHolds(t) /\ task[t].run = r
      /\ task \in [Tasks -> Task] /\ task[t].pc \notin {"none", "exit"}
      /\ proc' = proc /\ baseDone' = baseDone /\ task[t].proc \in Procs /\ DbTypeOK
      /\ faults \in Nat /\ [Next]_vars
  BY TaskFrame, FaultsGrow DEF SoloInv, SafeInv, IInv, Drives, TaskKnows, TypeOK, Next
<1>1. ~ task[t].cancelled
  BY <1>0 DEF TaskHolds, Ended, TerminalStates
<1>2. CASE CtxDone(t)
  <2>1. baseDone[task[t].proc]
    BY <1>1, <1>2 DEF CtxDone
  <2> QED
    BY <1>0, <2>1 DEF OneProcess, Stopping, Excused
<1>3. CASE ~ CtxDone(t)
  <2>1. CASE GiveUp(t) \/ Release(t)
    BY <1>0, <1>3, <2>1 DEF GiveUp, Release
  <2>2. CASE Claim(t) \/ Dispatch(t) \/ ReturnOk(t)
    BY <1>0, <2>2, MoveEffect DEF Claim, Dispatch, ReturnOk
  <2>3. CASE ReadRun(t)
    <3>1. task'[t].pc \in {"steps", "failrun"}
      BY <1>0, <1>3, <2>3, MoveEffect DEF ReadRun, Task
    <3> QED
      BY <3>1
  <2>4. CASE ReadSteps(t)
    <3>1. ASSUME NEW i, Choose(t, i)
          PROVE  task'[t].pc \in {"pause", "start", "fail", "failrun"}
      <4>1. Goto(t, "failrun") => task'[t].pc = "failrun"
        BY <1>0, MoveEffect
      <4> QED
        BY <1>0, <3>1, <4>1 DEF Choose, Task
    <3>2. task'[t].pc \in {"finish", "pause", "start", "fail", "failrun"}
      BY <1>0, <2>4, <3>1, MoveEffect DEF ReadSteps
    <3> QED
      BY <3>2
  <2>5. CASE FinishWithoutStep(t)
    <3>1. ~ UpdateRunbookRun(r, "succeeded")
      BY <1>0, SetRunTurns DEF UpdateRunbookRun
    <3>2. StoreError /\ AllSucceeded(r)
      BY <1>0, <2>5, <3>1 DEF FinishWithoutStep, Conflict, TaskKnows
    <3>3. AllSucceeded(r)'
      BY <3>2 DEF StoreError, dbVars, AllSucceeded
    <3> QED
      BY <1>0, <3>2, <3>3, FaultCounted DEF Excused
  <2>6. CASE FailRun(t)
    <3>1. ~ UpdateRunbookRun(r, "failed")
      BY <1>0, SetRunTurns DEF UpdateRunbookRun
    <3>2. StoreError /\ faults >= 1
      BY <1>0, <1>3, <2>6, <3>1 DEF FailRun, TaskHolds
    <3> QED
      BY <1>0, <3>2 DEF StoreError, Excused
  <2>7. CASE Pause(t)
    <3>1. ~ PauseRunbookRunOnManualStep(r, task[t].at)
      BY <1>0, SetRunTurns DEF PauseRunbookRunOnManualStep, TransitionWithStep
    <3> QED
      BY <1>0, <2>7, <3>1, MoveEffect DEF Pause
  <2>8. CASE StartStep(t)
    <3>1. ~ Conflict(CanUpdateStep(r, task[t].at, task[t].from))
      BY <1>0, <2>8 DEF Conflict, CanUpdateStep, StartStep, TaskHolds
    <3> QED
      BY <1>0, <2>8, <3>1, MoveEffect DEF StartStep
  <2>9. CASE Refuse(t) \/ ReturnError(t)
    <3>1. \E o : Fail(t, o)
      BY <2>9 DEF Refuse, ReturnError
    <3> QED
      BY <1>0, <1>3, <3>1, FailEffect
  <2>10. CASE RecordSuccess(t)
    <3>1. ~ FinishRunbookRun(r, task[t].at)
      BY <1>0, SetRunTurns DEF FinishRunbookRun, TransitionWithStep
    <3>2. task'[t].pc \in {"read", "fail"}
      BY <1>0, <2>10, <3>1, MoveEffect DEF RecordSuccess
    <3> QED
      BY <3>2
  <2>11. CASE RecordFailure(t)
    <3>1. ~ FailRunbookRunStep(r, task[t].at, task[t].out)
      BY <1>0, SetRunTurns DEF FailRunbookRunStep, TransitionWithStep
    <3> QED
      BY <1>0, <2>11, <3>1, MoveEffect DEF RecordFailure
  <2> QED
    BY <2>1, <2>2, <2>3, <2>4, <2>5, <2>6, <2>7, <2>8, <2>9, <2>10, <2>11 DEF TaskStep
<1> QED
  BY <1>2, <1>3

(* Nobody in charge of a run that goes on running gives it up unexcused. *)
LEMMA TaskLost ==
    ASSUME OneProcess, SoloInv, NEW t \in Tasks, TaskStep(t), NEW r \in Runs,
           row'[r].state = "running"
    PROVE  NotLost(r)'
<1>0. /\ TypeOK /\ Knowledge /\ NotLost(r) /\ [Next]_vars /\ task[t].pc # "none" /\ TaskKnows(t)
      /\ task[t].run \in Runs
  BY TaskFrame DEF SoloInv, SafeInv, IInv, Next, TaskKnows
<1>1. row[r].state = "running"
  <2>1. CASE task[t].run = r
    BY <1>0, <2>1, TaskWrites, StoreAssumption DEF Steps
  <2>2. CASE task[t].run # r
    BY <1>0, <2>2, TaskElsewhere DEF Untouched
  <2> QED
    BY <2>1, <2>2
<1>2. CASE Excused(r)
  BY <1>0, <1>1, <1>2, ExcusedStays DEF Excused, NotLost
<1>3. /\ request' = request /\ \A s \in Tasks \ {t} : task'[s] = task[s]
  BY <1>0, OthersKept
<1>4. CASE \E c \in Readers : Brings(c, r)
  BY <1>3, <1>4 DEF Brings, NotLost, Driven
<1>5. ASSUME NEW s \in Tasks \ {t}, Drives(s, r)
      PROVE  NotLost(r)'
  BY <1>3, <1>5 DEF Drives, NotLost, Driven
<1>6. CASE Drives(t, r)
  <2>1. CASE task'[t].pc \in {"none", "exit"}
    BY <1>1, <1>6, <2>1, TaskQuits DEF Excused, NotLost
  <2>2. CASE task'[t].pc \notin {"none", "exit"}
    <3>1. task'[t].run = task[t].run
      BY <1>0, <2>2, TaskFrame DEF NoTask
    <3> QED
      BY <1>6, <2>2, <3>1 DEF Drives, NotLost, Driven
  <2> QED
    BY <2>1, <2>2
<1> QED
  BY <1>0, <1>1, <1>2, <1>4, <1>5, <1>6 DEF NotLost, Driven, Drives, Brings, Excused

LEMMA RequestLost ==
    ASSUME OneProcess, SoloInv, NEW c \in Readers, RequestStep(c), NEW r \in Runs,
           row'[r].state = "running"
    PROVE  NotLost(r)'
<1>0. /\ TypeOK /\ Knowledge /\ NotLost(r) /\ [Next]_vars /\ DbTypeOK /\ AliveRequest(c)
      /\ request \in [Readers -> PendingRequest] /\ proc' = proc
      /\ request[c].run \in Runs /\ request[c].proc \in Procs
  BY RequestFrame DEF SoloInv, SafeInv, IInv, TypeOK, Next, Charge
<1>1. CASE ResumeCommit(c) /\ r = request[c].run
  <2>1. request'[c].pc = "spawn" /\ request'[c].run = r
    BY <1>0, <1>1 DEF ResumeCommit, PendingRequest
  <2> QED
    BY <2>1 DEF NotLost, Driven
<1>2. CASE ~ (ResumeCommit(c) /\ r = request[c].run)
  <2>1. row[r].state = "running"
    <3>1. CASE ResumeCommit(c)
      <4>1. \E u : row' = [row EXCEPT ![request[c].run].state = "running",
                                      ![request[c].run].resumedBy = u]
        BY <3>1 DEF ResumeCommit, ResumeRunbookRun, ResumeRunbookRunMarkingStepDone
      <4> QED
        BY <1>0, <1>2, <3>1, <4>1 DEF DbTypeOK
    <3>2. CASE FailShutdown(c)
      <4>1. row' = row \/ SetRun(request[c].run, "failed")
        BY <3>2 DEF FailShutdown, UpdateRunbookRun, StoreError, Conflict, dbVars
      <4>2. row'[r] = row[r] \/ row'[r].state = "failed"
        BY <1>0, <4>1, Elsewhere, SetRunTurns
      <4> QED
        BY <4>2
    <3>3. CASE ResumeRefused(c) \/ SpawnRefused(c) \/ CancelActive(c) \/ \E t \in Tasks : Spawn(c, t)
      BY <3>3 DEF ResumeRefused, SpawnRefused, CancelActive, Spawn, dbVars
    <3> QED
      BY <3>1, <3>2, <3>3 DEF RequestStep
  <2>2. CASE Excused(r)
    BY <1>0, <2>1, <2>2, ExcusedStays DEF Excused, NotLost
  <2>3. ASSUME NEW t \in Tasks, Drives(t, r)
        PROVE  NotLost(r)'
    <3>1. ~ Spawn(c, t)
      BY <1>0, <2>3, SpawnEffect DEF Drives
    <3>2. task'[t].pc = task[t].pc /\ task'[t].run = task[t].run
      BY <1>0, <3>1, RequestFrame
    <3> QED
      BY <2>3, <3>2 DEF Drives, NotLost, Driven
  <2>4. ASSUME NEW d \in Readers \ {c}, Brings(d, r)
        PROVE  NotLost(r)'
    BY <1>0, <2>4, RequestFrame DEF Brings, NotLost, Driven
  <2>5. CASE Brings(c, r)
    <3>1. CASE FailShutdown(c)
      <4>1. proc[request[c].proc] = "stopping"
        BY <1>0, <3>1 DEF FailShutdown, AliveRequest
      <4>2. Stopping'
        BY <1>0, <4>1 DEF OneProcess, Stopping
      <4> QED
        BY <4>2 DEF NotLost
    <3>2. ASSUME NEW t \in Tasks, Spawn(c, t)
          PROVE  NotLost(r)'
      <4>1. task'[t].pc = "claim" /\ task'[t].run = r
        BY <1>0, <2>5, <3>2, SpawnEffect DEF Brings
      <4> QED
        BY <4>1 DEF NotLost, Driven
    <3>3. CASE SpawnRefused(c)
      <4>1. request'[c].pc = "failshutdown" /\ request'[c].run = r
        BY <1>0, <2>5, <3>3 DEF SpawnRefused, PendingRequest, Brings
      <4> QED
        BY <4>1 DEF NotLost, Driven
    <3>4. ~ ResumeCommit(c) /\ ~ ResumeRefused(c) /\ ~ CancelActive(c)
      BY <2>5 DEF Brings, ResumeCommit, ResumeRefused, CancelActive
    <3> QED
      BY <3>1, <3>2, <3>3, <3>4 DEF RequestStep
  <2> QED
    BY <1>0, <2>1, <2>2, <2>3, <2>4, <2>5 DEF NotLost, Driven, Drives, Brings, Excused
<1> QED
  BY <1>1, <1>2

LEMMA UserLost ==
    ASSUME OneProcess, SoloInv, UserAction \/ AnyUserAction \/ Sweep, NEW r \in Runs,
           row'[r].state = "running"
    PROVE  NotLost(r)'
<1>0. /\ TypeOK /\ NotLost(r) /\ [Next]_vars /\ UserEffect /\ task' = task
  BY UserEffects, UsersElsewhere DEF SoloInv, SafeInv, IInv, Next
<1>1. ASSUME NEW c \in Readers, NEW p \in Procs, Launches(c, p, r)
      PROVE  NotLost(r)'
  BY <1>0, <1>1, AcceptedEffect DEF Launches, NotLost, Driven
<1>2. CASE ~ \E c \in Readers, p \in Procs : Launches(c, p, r)
  <2>1. row[r].state = "running"
    BY <1>0, <1>2 DEF UserEffect, Launches, Cancels, Looks, Alters
  <2>2. CASE Excused(r)
    BY <1>0, <2>1, <2>2, ExcusedStays DEF Excused, NotLost
  <2>3. CASE \E t \in Tasks : Drives(t, r)
    BY <1>0, <2>3 DEF Drives, NotLost, Driven
  <2>4. ASSUME NEW d \in Readers, Brings(d, r)
        PROVE  NotLost(r)'
    <3>1. request'[d] = request[d]
      <4>1. request[d].pc # "none"
        BY <2>4 DEF Brings
      <4>2. ASSUME NEW c \in Readers, NEW p \in Procs, NEW q \in Runs,
                   Launches(c, p, q) \/ Cancels(c, p, q) \/ Looks(c, p, q)
            PROVE  request'[d] = request[d]
        <5>1. c # d
          BY <4>1, <4>2 DEF Launches, Cancels, Looks, Idle
        <5> QED
          BY <1>0, <4>2, <5>1, AcceptedEffect DEF Launches, Cancels, Looks
      <4> QED
        BY <1>0, <4>2 DEF UserEffect, Alters
    <3> QED
      BY <2>4, <3>1 DEF Brings, NotLost, Driven
  <2> QED
    BY <1>0, <2>1, <2>2, <2>3, <2>4 DEF NotLost, Driven, Drives, Brings, Excused
<1> QED
  BY <1>1, <1>2

LEMMA ProcLost ==
    ASSUME OneProcess, SoloInv, NEW p \in Procs, ProcStep(p), NEW r \in Runs,
           row'[r].state = "running"
    PROVE  NotLost(r)'
<1>0. /\ TypeOK /\ Knowledge /\ NotLost(r) /\ [Next]_vars
  BY DEF SoloInv, SafeInv, IInv, Next
<1>1. ~ Boot(p)
  BY <1>0, BootEffect
<1>2. CASE Exit(p)
  BY <1>0, <1>2, ExitEffect DEF NotLost, Stopping
<1>3. CASE Lead(p) \/ LoseLock(p) \/ NoticeLoss(p) \/ Signal(p) \/ Drain(p) \/ StopWork(p)
  <2>1. row' = row /\ task' = task /\ request' = request
    BY <1>0, <1>3, ProcFrames DEF dbVars
  <2>2. CASE Excused(r)
    BY <1>0, <2>1, <2>2, ExcusedStays DEF Excused, NotLost
  <2> QED
    BY <1>0, <2>1, <2>2 DEF NotLost, Driven, Excused
<1> QED
  BY <1>1, <1>2, <1>3 DEF ProcStep

LEMMA NotLostKept ==
    ASSUME OneProcess, SoloInv, [Next]_vars, NEW r \in Runs
    PROVE  NotLost(r)'
<1>1. CASE UNCHANGED vars
  BY <1>1 DEF vars, procVars, SoloInv, NotLost, Driven, AllSucceeded, Stopping
<1>2. CASE row'[r].state # "running"
  BY <1>2 DEF NotLost
<1> QED
  BY <1>1, <1>2, TaskLost, RequestLost, UserLost, ProcLost DEF Next

-----------------------------------------------------------------------------
LEMMA InitSolo == Init => SoloInv
<1> SUFFICES ASSUME Init
             PROVE  SoloInv
  OBVIOUS
<1>1. /\ \A t \in Tasks : task[t].pc = "none"
      /\ \A c \in Readers : request[c].pc = "none"
  BY DEF Init, NoTask, NoRequest
<1>2. \A r \in Runs : /\ row[r].state = "absent"
                      /\ \A i \in Steps : step[r][i] = "pending" /\ fact[r][i] = "none"
  BY DEF Init, DbInit, NoRow
<1>3. Charge
  <2>1. \A r \in Runs : Sole(r)
    BY <1>1 DEF Sole, Driven, Drives, Brings
  <2>2. \A p \in Procs, r \in Runs : Registered(p, r)
    BY DEF Init, Registered
  <2> QED
    BY <1>1, <1>2, <2>1, <2>2 DEF Charge, AliveTask, AliveRequest, Running
<1>4. \A t \in Tasks : TaskHolds(t)
  BY <1>1 DEF TaskHolds
<1>5. \A r \in Runs, i \in Steps : Truth(r, i)
  BY <1>2 DEF Truth
<1>6. \A r \in Runs : NotLost(r)
  BY <1>2 DEF NotLost
<1> QED
  BY InitSafe, <1>3, <1>4, <1>5, <1>6 DEF SoloInv

LEMMA StepSolo ==
    ASSUME OneProcess, SoloInv, [Next]_vars
    PROVE  SoloInv'
<1>1. SafeInv'
  BY StepSafe DEF SoloInv
<1>2. Charge'
  BY ChargeKept
<1>3. \A t \in Tasks : TaskHolds(t)'
  BY TaskHoldsKept
<1>4. \A r \in Runs, i \in Steps : Truth(r, i)'
  BY TruthKept
<1>5. \A r \in Runs : NotLost(r)'
  BY NotLostKept
<1> QED
  BY <1>1, <1>2, <1>3, <1>4, <1>5 DEF SoloInv

(* With one process: a run that runs has exactly one handler or goroutine  *)
(* in charge, which knows the current state of the step in hand and the    *)
(* user it acts for, and the record of every step is true.                 *)
THEOREM SoloInvariance ==
    ASSUME OneProcess
    PROVE  Spec => []SoloInv
<1>1. Init => SoloInv
  BY InitSolo
<1>2. SoloInv /\ [Next]_vars => SoloInv'
  BY StepSolo
<1> QED
  BY <1>1, <1>2, PTL DEF Spec

(* While an operation is with the connector its step is running, or        *)
(* unknown once a user cancelled the run under it (runbookrun's perform    *)
(* between the two step writes of runStep, and CancelRunbookRun).          *)
THEOREM OperationIsVisible ==
    ASSUME OneProcess
    PROVE  Spec => []EffectVisible
<1>1. SoloInv => EffectVisible
  BY DEF SoloInv, TaskHolds, EffectVisible
<1> QED
  BY <1>1, SoloInvariance, PTL

(* No operation is sent under a user whom somebody's resume replaced,      *)
(* although the goroutine read that user before it wrote that the step     *)
(* runs (execute, runStep and actingUser in backend/internal/runbookrun).  *)
THEOREM CurrentActor ==
    ASSUME OneProcess
    PROVE  Spec => []ActorIsCurrent
<1>1. ASSUME SoloInv
      PROVE  ActorIsCurrent
  <2>1. ASSUME NEW t \in Tasks, task[t].pc \in {"perform", "effect"}
        PROVE  task[t].actor = ActingUser(task[t].run)
    BY <1>1, <2>1 DEF SoloInv, TaskHolds
  <2> QED
    BY <2>1 DEF ActorIsCurrent, ActingUser
<1> QED
  BY <1>1, SoloInvariance, PTL

(* The record of a step agrees with what happened to its operation, after  *)
(* failed store calls, cancellations, crashes and recoveries alike         *)
(* (recordSuccess, recordFailure, InterruptRunningRunbookRuns).            *)
THEOREM RecordIsTrue ==
    ASSUME OneProcess
    PROVE  Spec => []TruthfulRecord
<1>1. SoloInv => TruthfulRecord
  BY DEF SoloInv, Truth, IsAction, MaybeDone, TruthfulRecord
<1> QED
  BY <1>1, SoloInvariance, PTL

(* A connector action that may have been carried out is handed over again  *)
(* only after a user decided so (ResumeResend, resumeDecisionRequired).    *)
THEOREM NeverBlindlyResent ==
    ASSUME OneProcess
    PROVE  Spec => NoBlindResend
<1>1. ASSUME SoloInv, Next, NEW t \in Tasks, task[t].pc = "perform",
             KindOf(t) = "connector_action"
      PROVE  fact[task[t].run][task[t].at] \notin {"sent", "done"}
  BY <1>1 DEF SoloInv, TaskHolds, IsAction, KindOf, MaybeDone
<1>2. SoloInv /\ [Next]_vars =>
        [\A t \in Tasks :
            (task[t].pc = "perform" /\ task'[t].pc = "effect" /\ KindOf(t) = "connector_action")
            => fact[task[t].run][task[t].at] \notin {"sent", "done"}]_vars
  BY <1>1
<1> QED
  BY <1>2, SoloInvariance, PTL DEF Spec, NoBlindResend

(* One failed store call never leaves a run running with nobody in charge, *)
(* save when only the end of the run was left to record (failRun and       *)
(* finishWithoutStep in runbookrun).                                       *)
THEOREM OneFaultIsAbsorbed ==
    ASSUME OneProcess
    PROVE  Spec => []OneFaultAbsorbed
<1>1. ASSUME SoloInv
      PROVE  OneFaultAbsorbed
  <2>1. Working => ~ Stopping
    BY DEF Working, Serving, Stopping
  <2>2. ASSUME NEW r \in Running
        PROVE  r \in Runs /\ row[r].state = "running" /\ NotLost(r)
    BY <1>1, <2>2 DEF SoloInv, Running
  <2>3. faults \in Nat
    BY <1>1, ExecutorAssumption DEF SoloInv, SafeInv, IInv, TypeOK
  <2>4. faults >= 1 => faults > 0
    BY <2>3
  <2> QED
    BY <2>1, <2>2, <2>4 DEF OneFaultAbsorbed, NotLost
<1> QED
  BY <1>1, SoloInvariance, PTL

(* As long as the store answers, every path of the executor and of its     *)
(* handlers leaves somebody in charge of a running run or stops it: pause, *)
(* confirm, cancel, resume, refused spawn, shutdown and recovery.          *)
THEOREM RunningStaysDriven ==
    ASSUME OneProcess, MaxFaults = 0
    PROVE  Spec => []RunningIsDriven
<1>1. ASSUME SoloInv
      PROVE  RunningIsDriven
  <2>1. Working => ~ Stopping
    BY DEF Working, Serving, Stopping
  <2>2. ASSUME NEW r \in Running
        PROVE  r \in Runs /\ row[r].state = "running" /\ NotLost(r)
    BY <1>1, <2>2 DEF SoloInv, Running
  <2>3. faults = 0
    BY <1>1 DEF SoloInv, SafeInv, IInv, TypeOK
  <2> QED
    BY <2>1, <2>2, <2>3 DEF RunningIsDriven, NotLost
<1> QED
  BY <1>1, SoloInvariance, PTL
=============================================================================
