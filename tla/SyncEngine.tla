----------------------------- MODULE SyncEngine -----------------------------
(***************************************************************************)
(* The sync engine (backend/internal/sync): the poll job that lists due    *)
(* connectors, the syncs that users, runbook runs and the poll start, the  *)
(* in-flight slot of a connector, the semaphore, the lease a scheduled     *)
(* sync takes in the connector's row, and the processes they live in.      *)
(*                                                                         *)
(* Time passes in ticks of a minute.  A deadline is stored as the number   *)
(* of ticks until it: next_run_at is due once it is 0, a maintenance       *)
(* window is over once it is 0, a sync's context is done once its time     *)
(* left is 0.                                                              *)
(***************************************************************************)
EXTENDS Integers, Sequences, FiniteSets, SyncSnapshot

CONSTANTS
    Connectors,
    Engines,        \* the server processes that share the database
    Syncs,          \* bound: sync goroutines alive at a time
    Nobody,
    LeaderElection, \* ha.leader_election: only the lock holder polls
    MaxConcurrency, \* the semaphore of an engine
    Timeout,        \* ticks a sync may take (defaultSyncTimeout)
    RetryDelays,    \* ticks before each retry (retrySchedule)
    Cadences,       \* the schedules an operator may set, in ticks
    WindowLengths,  \* the maintenance windows an operator may open, in ticks
    RequestKinds,   \* what is asked for besides the poll
    Labs,           \* what the lab may show
    MaxEdits,       \* bound: operator edits and cancelled runs
    MaxStops,       \* bound: crashes, lost leader locks and signals
    MaxFaults       \* bound: store calls that fail, in all

Manual == 0   \* schedule_seconds IS NULL
Unset == -1   \* next_run_at IS NULL

ASSUME EngineAssumption ==
    /\ Nobody \notin Connectors \cup Engines \cup Syncs
    /\ LeaderElection \in BOOLEAN
    /\ LeaderElection \/ Cardinality(Engines) = 1
    /\ MaxConcurrency \in Nat \ {0}
    /\ Timeout \in Nat \ {0}
    /\ RetryDelays \in Seq(Nat \ {0}) /\ RetryDelays # <<>>
    /\ Cadences \subseteq Nat \ {0}
    /\ WindowLengths \subseteq Nat \ {0}
    /\ RequestKinds \subseteq {"manual", "fields", "own"}
    /\ Labs \subseteq Observation
    /\ "never" \notin Values
    /\ {MaxEdits, MaxStops, MaxFaults} \subseteq Nat

VARIABLES
    conn,     \* the connector rows: schedule, next run, retries
    windows,  \* windows[c]: the open maintenance windows, by their end
    latest,   \* latest[c]: the newest stored snapshot
    changes,  \* changes[c]: the sections reported by the last stored sync
    docs,     \* docs[c]: the documents were rendered from latest[c]
    docLock,  \* docLock[c]: somebody edits a document of c
    sync,     \* the sync goroutines
    slot,     \* slot[e][c]: the sync that holds inFlight[c] in process e
    listed,   \* listed[e]: due connectors the poll job has yet to start
    life,     \* the life of each process
    baseDone, \* the processes whose signal context is done
    lock,     \* the process that holds the leader lock
    edit,     \* the operator request between its read and its write
    lab,      \* lab[c]: what the service behind the connector shows now
    seen,     \* what a stored sync last observed of a section (history)
    edits, stops, faults

dbVars == <<conn, windows, latest, changes, docs, docLock, seen>>
procVars == <<life, baseDone, lock, stops>>
vars == <<dbVars, sync, slot, listed, procVars, edit, lab, edits, faults>>

Smaller(a, b) == IF a <= b THEN a ELSE b

-----------------------------------------------------------------------------
(* State. *)

Ticks == Nat \cup {Unset}

Connector == [ enabled : BOOLEAN,
               cadence : Cadences \cup {Manual},
               due     : Ticks,
               retries : 0 .. Len(RetryDelays) ]

(* cadence, retries: the row as the sync read it; got: what was fetched;   *)
(* base: the snapshot it is compared with; muted: a maintenance window was *)
(* seen; saved: the result has a snapshot id; leased: next_run_at is still *)
(* the lease this sync wrote (history).                                    *)
NoSync == [pc |-> "none", e |-> Nobody, c |-> Nobody, kind |-> "manual",
           cancelled |-> FALSE, left |-> 0, cadence |-> Manual, retries |-> 0,
           got |-> NoSnapshot, base |-> NoSnapshot, muted |-> FALSE,
           outcome |-> "none", saved |-> FALSE, leased |-> FALSE]

Pcs == {"none", "claim", "sem", "lease", "read", "creds", "fetch", "base",
        "window", "save", "finish", "docs", "exit"}

Sync == [ pc        : Pcs,
          e         : Engines \cup {Nobody},
          c         : Connectors \cup {Nobody},
          kind      : {"manual", "fields", "own", "scheduled"},
          cancelled : BOOLEAN,
          left      : 0 .. Timeout,
          cadence   : Cadences \cup {Manual},
          retries   : 0 .. Len(RetryDelays),
          got       : Fetched \cup {NoSnapshot},
          base      : Snapshot \cup {NoSnapshot},
          muted     : BOOLEAN,
          outcome   : {"none", "success", "error", "skipped"},
          saved     : BOOLEAN,
          leased    : BOOLEAN ]

NoEdit == [c |-> Nobody, cadence |-> Manual, pull |-> FALSE]
Edit == [c : Connectors \cup {Nobody}, cadence : Cadences \cup {Manual}, pull : BOOLEAN]

TypeOK ==
    /\ conn \in [Connectors -> Connector]
    /\ windows \in [Connectors -> SUBSET (Nat \ {0})]
    /\ latest \in [Connectors -> Snapshot \cup {NoSnapshot}]
    /\ changes \in [Connectors -> SUBSET Sections]
    /\ docs \in [Connectors -> BOOLEAN]
    /\ docLock \in [Connectors -> BOOLEAN]
    /\ sync \in [Syncs -> Sync]
    /\ slot \in [Engines -> [Connectors -> Syncs \cup {Nobody}]]
    /\ listed \in [Engines -> SUBSET Connectors]
    /\ life \in [Engines -> {"down", "standby", "up", "stopping", "quiescing", "waiting"}]
    /\ baseDone \in [Engines -> BOOLEAN]
    /\ lock \in Engines \cup {Nobody}
    /\ edit \in Edit
    /\ lab \in [Connectors -> Observation]
    /\ seen \in [Connectors -> [Sections -> Values \cup {Absent, "never"}]]
    /\ edits \in 0 .. MaxEdits /\ stops \in 0 .. MaxStops /\ faults \in 0 .. MaxFaults

(* A connector was created without a schedule, or has been given one since *)
(* (by the operator or by the configuration, which leaves next_run_at NULL).*)
Init ==
    /\ conn \in [Connectors -> {[enabled |-> TRUE, cadence |-> k, due |-> Unset, retries |-> 0] :
                                  k \in Cadences \cup {Manual}}]
    /\ windows = [c \in Connectors |-> {}]
    /\ latest = [c \in Connectors |-> NoSnapshot]
    /\ changes = [c \in Connectors |-> {}]
    /\ docs = [c \in Connectors |-> TRUE]
    /\ docLock = [c \in Connectors |-> FALSE]
    /\ sync = [s \in Syncs |-> NoSync]
    /\ slot = [e \in Engines |-> [c \in Connectors |-> Nobody]]
    /\ listed = [e \in Engines |-> {}]
    /\ life = [e \in Engines |-> "down"]
    /\ baseDone = [e \in Engines |-> FALSE]
    /\ lock = Nobody
    /\ edit = NoEdit
    /\ lab \in [Connectors -> Labs]
    /\ seen = [c \in Connectors |-> [x \in Sections |-> "never"]]
    /\ edits = 0 /\ stops = 0 /\ faults = 0

-----------------------------------------------------------------------------
(* Helpers. *)

(* ctx.Err() of a sync: its run was cancelled, its time is up, or the      *)
(* signal context is done.  The poll's syncs run under the work context,   *)
(* which is not cancelled before the job has ended.                        *)
CtxDone(s) ==
    \/ sync[s].cancelled
    \/ sync[s].left = 0
    \/ sync[s].kind # "scheduled" /\ baseDone[sync[s].e]

NoFault == UNCHANGED faults
StoreError == faults < MaxFaults /\ faults' = faults + 1

(* A store call under the sync's context. *)
Works(s) == ~ CtxDone(s) /\ NoFault
Breaks(s) == IF CtxDone(s) THEN NoFault ELSE StoreError

(* What an operator or user does, as often as the bound allows. *)
Edits == edits < MaxEdits /\ edits' = edits + 1

Goto(s, pc) == sync' = [sync EXCEPT ![s].pc = pc]

(* finish(outcome): nothing of the fetched data is needed any more. *)
ToFinish(s, outcome, saved) ==
    sync' = [sync EXCEPT ![s] = [@ EXCEPT !.pc = "finish", !.outcome = outcome, !.saved = saved,
                                          !.got = NoSnapshot, !.base = NoSnapshot,
                                          !.muted = FALSE]]

Outcome(sn) == IF SnapshotError(sn) THEN "error" ELSE "success"

(* Variant: a connector whose next run was never set is not due. *)
Due_Set(c) ==
    /\ conn[c].enabled /\ conn[c].cadence # Manual
    /\ conn[c].due = 0
    /\ windows[c] = {}

(* SELECT of the poll and WHERE of the claim. *)
Due(c) ==
    /\ conn[c].enabled /\ conn[c].cadence # Manual
    /\ conn[c].due <= 0
    /\ windows[c] = {}

Polling(e) == {s \in Syncs : sync[s].e = e /\ sync[s].kind = "scheduled"}
Alive(e) == {s \in Syncs : sync[s].e = e}
InTime == {"lease", "read", "creds", "fetch", "base", "window", "save", "finish", "docs"}
Inside(e) == {s \in Alive(e) : sync[s].pc \in InTime}

(* next_run_at of c is written by someone else than its lease holder. *)
Unleased(c, f) == [t \in Syncs |-> IF f[t].c = c THEN [f[t] EXCEPT !.leased = FALSE] ELSE f[t]]

(* What a stored sync learned of the sections it observed. *)
Observe(c, sn) ==
    seen' = [seen EXCEPT ![c] = [x \in Sections |-> IF sn[x] = Failed THEN @[x] ELSE sn[x]]]

(* computeNextRun.  The count has no limit in the row; a count beyond the  *)
(* last delay acts like the last, so it is cut off there (a bound).        *)
NextRetries(n, success) == IF success THEN 0 ELSE Smaller(n + 1, Len(RetryDelays))

NextRun(cadence, n, success) ==
    IF cadence = Manual THEN Unset
    ELSE IF success THEN cadence
    ELSE Smaller(RetryDelays[NextRetries(n, success)], cadence)

-----------------------------------------------------------------------------
(* The poll job and what starts a sync. *)

(* RunDueSyncs, once a minute unless the last run of the job still runs.   *)
Poll(e) ==
    /\ life[e] \in {"up", "stopping"}
    /\ listed[e] = {} /\ Polling(e) = {}
    /\ \E c \in Connectors : Due(c)
    /\ listed' = [listed EXCEPT ![e] = {c \in Connectors : Due(c)}]
    /\ UNCHANGED <<dbVars, sync, slot, procVars, edit, lab, edits, faults>>

Start(s, e, c, kind) ==
    /\ sync[s] = NoSync
    /\ sync' = [sync EXCEPT ![s] = [NoSync EXCEPT !.pc = "claim", !.e = e, !.c = c, !.kind = kind,
                                                  !.left = Timeout]]

Launch(e) ==
    \E c \in listed[e], s \in Syncs :
        /\ Cardinality(Polling(e)) < MaxConcurrency
        /\ Start(s, e, c, "scheduled")
        /\ listed' = [listed EXCEPT ![e] = @ \ {c}]
        /\ UNCHANGED <<dbVars, slot, procVars, edit, lab, edits, faults>>

(* A user's sync, a partial one, or one a runbook run waits for.  Handlers *)
(* may outlive the HTTP server; TryGo refuses once Wait has begun.         *)
Request(e, c, kind) ==
    /\ life[e] \in {"up", "stopping", "quiescing"}
    /\ \E s \in Syncs : Start(s, e, c, kind)
    /\ UNCHANGED <<dbVars, slot, listed, procVars, edit, lab, edits, faults>>

(* The user cancels the run whose step waits for the sync. *)
CancelRun(s) ==
    /\ sync[s].kind = "own" /\ ~ sync[s].cancelled /\ Edits
    /\ sync' = [sync EXCEPT ![s].cancelled = TRUE]
    /\ UNCHANGED <<dbVars, slot, listed, procVars, edit, lab, faults>>

-----------------------------------------------------------------------------
(* The slot and the semaphore. *)

SlotOf(s) == slot[sync[s].e][sync[s].c]

(* Variant: the slot is stored without looking whether it is free. *)
Claim_Blind(s) ==
    /\ sync[s].pc = "claim"
    /\ slot' = [slot EXCEPT ![sync[s].e][sync[s].c] = s]
    /\ Goto(s, "sem")
    /\ UNCHANGED <<dbVars, listed, procVars, edit, lab, edits, faults>>

Claim(s) ==
    /\ sync[s].pc = "claim" /\ SlotOf(s) = Nobody
    /\ slot' = [slot EXCEPT ![sync[s].e][sync[s].c] = s]
    /\ Goto(s, "sem")
    /\ UNCHANGED <<dbVars, listed, procVars, edit, lab, edits, faults>>

(* ErrAlreadyRunning; RunSyncFieldsWhenFree waits instead, unless its      *)
(* context is done.                                                        *)
TurnAway(s) ==
    /\ sync[s].pc = "claim" /\ SlotOf(s) # Nobody
    /\ sync[s].kind = "own" => CtxDone(s)
    /\ sync' = [sync EXCEPT ![s] = NoSync]
    /\ UNCHANGED <<dbVars, slot, listed, procVars, edit, lab, edits, faults>>

Acquire(s) ==
    /\ sync[s].pc = "sem"
    /\ \/ /\ Cardinality(Inside(sync[s].e)) < MaxConcurrency
          /\ Goto(s, IF sync[s].kind = "scheduled" THEN "lease" ELSE "read")
       \/ CtxDone(s) /\ Goto(s, "exit")
    /\ UNCHANGED <<dbVars, slot, listed, procVars, edit, lab, edits, faults>>

(* Variant: a sync that ends without an outcome keeps its slot. *)
Exit_Early(s) ==
    /\ sync[s].pc = "exit"
    /\ IF sync[s].outcome = "none" THEN UNCHANGED slot
       ELSE slot' = [slot EXCEPT ![sync[s].e][sync[s].c] = Nobody]
    /\ sync' = [sync EXCEPT ![s] = NoSync]
    /\ UNCHANGED <<dbVars, listed, procVars, edit, lab, edits, faults>>

(* The deferred release: the slot is freed, and with it whoever waits.     *)
Exit(s) ==
    /\ sync[s].pc = "exit"
    /\ slot' = [slot EXCEPT ![sync[s].e][sync[s].c] = Nobody]
    /\ sync' = [sync EXCEPT ![s] = NoSync]
    /\ UNCHANGED <<dbVars, listed, procVars, edit, lab, edits, faults>>

-----------------------------------------------------------------------------
(* The sync itself. *)

(* Variant: the lease ends with the sync's deadline. *)
LeaseTicks_Short == Timeout

(* ClaimDueConnector: next_run_at becomes the deadline plus one minute.    *)
LeaseTicks == Timeout + 1

TakeLease(s) ==
    /\ sync[s].pc = "lease"
    /\ LET c == sync[s].c IN
       \/ /\ Works(s) /\ Due(c)
          /\ conn' = [conn EXCEPT ![c].due = LeaseTicks]
          /\ sync' = [sync EXCEPT ![s].pc = "read", ![s].leased = TRUE]
       \/ /\ Works(s) /\ ~ Due(c)
          /\ Goto(s, "exit") /\ UNCHANGED conn
       \/ Breaks(s) /\ Goto(s, "exit") /\ UNCHANGED conn
    /\ UNCHANGED <<windows, latest, changes, docs, docLock, seen, slot, listed, procVars, edit, lab, edits>>

(* GetConnector: schedule and retry count as the finish will use them. *)
ReadRow(s, pc) ==
    sync' = [sync EXCEPT ![s].pc = pc, ![s].cadence = conn[sync[s].c].cadence,
                         ![s].retries = conn[sync[s].c].retries]

Read(s) ==
    /\ sync[s].pc = "read"
    /\ \/ Works(s) /\ conn[sync[s].c].enabled /\ ReadRow(s, "creds")
       \/ Works(s) /\ ~ conn[sync[s].c].enabled /\ ToFinish(s, "skipped", FALSE)
       \/ Breaks(s) /\ Goto(s, "exit")
    /\ UNCHANGED <<dbVars, slot, listed, procVars, edit, lab, edits>>

(* Configuration and credentials: good, refreshed and the row read again   *)
(* (enabled is not looked at again), or in error.                          *)
Credentials(s) ==
    /\ sync[s].pc = "creds"
    /\ \/ Goto(s, "fetch") /\ NoFault
       \/ Works(s) /\ ReadRow(s, "fetch")
       \/ ToFinish(s, "error", FALSE) /\ NoFault
    /\ UNCHANGED <<dbVars, slot, listed, procVars, edit, lab, edits>>

(* Any section may fail; an answer may still arrive as the time runs out.  *)
Fetch(s) ==
    /\ sync[s].pc = "fetch"
    /\ \/ ToFinish(s, "error", FALSE)
       \/ \E sn \in Fetched :
            /\ \A x \in Sections : sn[x] \in {lab[sync[s].c][x], Failed}
            /\ FinalizeSnapshot(sn)
            /\ IF sync[s].kind = "fields" THEN ToFinish(s, Outcome(sn), FALSE)
               ELSE sync' = [sync EXCEPT ![s].pc = "base", ![s].got = sn]
    /\ NoFault
    /\ UNCHANGED <<dbVars, slot, listed, procVars, edit, lab, edits>>

Merged(s) == preserveFailedSections(sync[s].base, sync[s].got)

(* Variant: a sync that reuses the latest snapshot has no snapshot id. *)
ReadBase_NoId(s) ==
    /\ sync[s].pc = "base"
    /\ LET c == sync[s].c IN
       \/ /\ Works(s)
          /\ sync' = [sync EXCEPT ![s].pc = "window", ![s].base = latest[c]]
          /\ UNCHANGED <<changes, seen>>
       \/ /\ Works(s)
          /\ latest[c] # NoSnapshot /\ preserveFailedSections(latest[c], sync[s].got) = latest[c]
          /\ changes' = [changes EXCEPT ![c] = {}]
          /\ Observe(c, sync[s].got)
          /\ ToFinish(s, Outcome(sync[s].got), FALSE)
    /\ UNCHANGED <<conn, windows, latest, docs, docLock, slot, listed, procVars, edit, lab, edits>>

(* GetLatestSnapshot.  An identical one is reused; what the sections leave *)
(* out (entities, dependencies) may differ where they do not.              *)
ReadBase(s) ==
    /\ sync[s].pc = "base"
    /\ LET c == sync[s].c IN
       \/ /\ Works(s)
          /\ sync' = [sync EXCEPT ![s].pc = "window", ![s].base = latest[c]]
          /\ UNCHANGED <<changes, seen>>
       \/ /\ Works(s)
          /\ latest[c] # NoSnapshot /\ preserveFailedSections(latest[c], sync[s].got) = latest[c]
          /\ changes' = [changes EXCEPT ![c] = {}]
          /\ Observe(c, sync[s].got)
          /\ ToFinish(s, Outcome(sync[s].got), TRUE)
       \/ Breaks(s) /\ ToFinish(s, "error", FALSE) /\ UNCHANGED <<changes, seen>>
    /\ UNCHANGED <<conn, windows, latest, docs, docLock, slot, listed, procVars, edit, lab, edits>>

(* GetActiveMaintenanceWindow; an error counts as no window. *)
ReadWindow(s) ==
    /\ sync[s].pc = "window"
    /\ \E muted \in BOOLEAN :
         /\ \/ Works(s) /\ muted = (windows[sync[s].c] # {})
            \/ Breaks(s) /\ muted = FALSE
         /\ sync' = [sync EXCEPT ![s].pc = "save", ![s].muted = muted]
    /\ UNCHANGED <<dbVars, slot, listed, procVars, edit, lab, edits>>

(* One transaction: the snapshot and the changes against the base. *)
Save(s) ==
    /\ sync[s].pc = "save"
    /\ LET c == sync[s].c IN
       \/ /\ Works(s)
          /\ latest' = [latest EXCEPT ![c] = Merged(s)]
          /\ changes' = [changes EXCEPT ![c] =
                           IF sync[s].base = NoSnapshot \/ sync[s].muted THEN {}
                           ELSE Compare(sync[s].base, Merged(s))]
          /\ docs' = [docs EXCEPT ![c] = FALSE]
          /\ Observe(c, sync[s].got)
          /\ ToFinish(s, Outcome(sync[s].got), TRUE)
       \/ Breaks(s) /\ ToFinish(s, "error", FALSE) /\ UNCHANGED <<latest, changes, docs, seen>>
    /\ UNCHANGED <<conn, windows, docLock, slot, listed, procVars, edit, lab, edits>>

(* finishSync, under a context of its own: the next run is computed from   *)
(* the row as it was read and written over whatever is there now.          *)
Finish(s) ==
    /\ sync[s].pc = "finish"
    /\ LET c == sync[s].c
           good == sync[s].outcome = "success"
           next == [sync EXCEPT ![s].pc = IF good /\ sync[s].saved THEN "docs" ELSE "exit"] IN
       \/ /\ sync[s].outcome # "skipped" /\ NoFault
          /\ conn' = [conn EXCEPT
               ![c].due = NextRun(sync[s].cadence, sync[s].retries, good),
               ![c].retries = NextRetries(sync[s].retries, good)]
          /\ sync' = Unleased(c, next)
       \/ /\ sync[s].outcome = "skipped" /\ NoFault
          /\ sync' = next /\ UNCHANGED conn
       \/ /\ StoreError
          /\ sync' = next /\ UNCHANGED conn
    /\ UNCHANGED <<windows, latest, changes, docs, docLock, seen, slot, listed, procVars, edit, lab, edits>>

(* RegenerateForConnector; a document somebody edits is left for the next  *)
(* sync.                                                                   *)
Regenerate(s) ==
    /\ sync[s].pc = "docs"
    /\ \/ /\ Works(s) /\ ~ docLock[sync[s].c]
          /\ docs' = [docs EXCEPT ![sync[s].c] = TRUE]
       \/ Works(s) /\ docLock[sync[s].c] /\ UNCHANGED docs
       \/ Breaks(s) /\ UNCHANGED docs
    /\ Goto(s, "exit")
    /\ UNCHANGED <<conn, windows, latest, changes, docLock, seen, slot, listed, procVars, edit, lab, edits>>

SyncStep(s) ==
    \/ Claim(s) \/ TurnAway(s) \/ Acquire(s) \/ TakeLease(s) \/ Read(s) \/ Credentials(s)
    \/ Fetch(s) \/ ReadBase(s) \/ ReadWindow(s) \/ Save(s) \/ Finish(s) \/ Regenerate(s) \/ Exit(s)

-----------------------------------------------------------------------------
(* Operators of the connector. *)

(* pullInNextRun reads the row and decides, ... *)
ReadSchedule(c, k) ==
    /\ edit = NoEdit /\ Edits
    /\ edit' = [c |-> c, cadence |-> k,
                pull |-> k # Manual /\ ~ (conn[c].due # Unset /\ conn[c].due <= k)]
    /\ UNCHANGED <<dbVars, sync, slot, listed, procVars, lab, faults>>

(* ... and Update writes the schedule, and the next run if it pulls it in. *)
WriteSchedule ==
    /\ edit # NoEdit
    /\ LET c == edit.c IN
       /\ conn' = [conn EXCEPT ![c].cadence = edit.cadence,
                               ![c].due = IF edit.pull THEN edit.cadence ELSE @]
       /\ sync' = IF edit.pull THEN Unleased(c, sync) ELSE sync
    /\ edit' = NoEdit
    /\ UNCHANGED <<windows, latest, changes, docs, seen, docLock, slot, listed, procVars, lab, edits, faults>>

(* A process that boots finds another schedule in the configuration. *)
Reconcile(c, k) ==
    /\ Edits /\ k # conn[c].cadence /\ \E e \in Engines : life[e] = "down"
    /\ conn' = [conn EXCEPT ![c].cadence = k, ![c].due = Unset]
    /\ sync' = Unleased(c, sync)
    /\ UNCHANGED <<windows, latest, changes, docs, seen, docLock, slot, listed, procVars, edit, lab, faults>>

SetEnabled(c) ==
    /\ Edits
    /\ conn' = [conn EXCEPT ![c].enabled = ~ @]
    /\ UNCHANGED <<windows, latest, changes, docs, seen, docLock, sync, slot, listed, procVars, edit, lab, faults>>

OpenMaintenanceWindow(c, n) ==
    /\ Edits
    /\ windows' = [windows EXCEPT ![c] = @ \cup {n}]
    /\ UNCHANGED <<conn, latest, changes, docs, seen, docLock, sync, slot, listed, procVars, edit, lab, faults>>

(* The latest-expiring window is the one that is closed. *)
CloseMaintenanceWindow(c) ==
    \E n \in windows[c] :
        /\ \A m \in windows[c] : m <= n
        /\ windows' = [windows EXCEPT ![c] = @ \ {n}]
        /\ UNCHANGED <<conn, latest, changes, docs, seen, docLock, sync, slot, listed, procVars, edit, lab, edits, faults>>

LockDocs(c) ==
    /\ Edits /\ ~ docLock[c]
    /\ docLock' = [docLock EXCEPT ![c] = TRUE]
    /\ UNCHANGED <<conn, windows, latest, changes, docs, seen, sync, slot, listed, procVars, edit, lab, faults>>

UnlockDocs(c) ==
    /\ docLock[c]
    /\ docLock' = [docLock EXCEPT ![c] = FALSE]
    /\ UNCHANGED <<conn, windows, latest, changes, docs, seen, sync, slot, listed, procVars, edit, lab, edits, faults>>

Operate(c) ==
    \/ \E k \in Cadences \cup {Manual} : ReadSchedule(c, k) \/ Reconcile(c, k)
    \/ SetEnabled(c)
    \/ \E n \in WindowLengths : OpenMaintenanceWindow(c, n)
    \/ CloseMaintenanceWindow(c)
    \/ LockDocs(c) \/ UnlockDocs(c)

(* What the connector fetches from changes by itself. *)
ChangeLab(c) ==
    /\ \E l \in Labs \ {lab[c]} : lab' = [lab EXCEPT ![c] = l]
    /\ UNCHANGED <<dbVars, sync, slot, listed, procVars, edit, edits, faults>>

-----------------------------------------------------------------------------
(* Time and processes. *)

Down(n) == IF n > 0 THEN n - 1 ELSE n

(* A sync whose time is up sees it, and a request ends, within the minute. *)
Tick ==
    /\ edit = NoEdit
    /\ \A s \in Syncs : sync[s].pc \in InTime => sync[s].left > 0
    /\ conn' = [c \in Connectors |-> [conn[c] EXCEPT !.due = Down(@)]]
    /\ windows' = [c \in Connectors |-> {n - 1 : n \in windows[c] \ {1}}]
    /\ sync' = [s \in Syncs |-> IF sync[s].pc \in InTime THEN [sync[s] EXCEPT !.left = @ - 1]
                                ELSE sync[s]]
    /\ UNCHANGED <<latest, changes, docs, seen, docLock, slot, listed, procVars, edit, lab, edits, faults>>

Live(e, phase) == life' = [life EXCEPT ![e] = phase]
Unlocked(e) == IF lock = e THEN Nobody ELSE lock
Stops == stops < MaxStops /\ stops' = stops + 1

OnlyProcesses == UNCHANGED <<dbVars, edit, lab, edits, faults>>

Boot(e) ==
    /\ life[e] = "down"
    /\ Live(e, IF LeaderElection THEN "standby" ELSE "up")
    /\ OnlyProcesses /\ UNCHANGED <<sync, slot, listed, baseDone, lock, stops>>

Campaign(e) ==
    /\ life[e] = "standby" /\ lock = Nobody
    /\ lock' = e /\ Live(e, "up")
    /\ OnlyProcesses /\ UNCHANGED <<sync, slot, listed, baseDone, stops>>

(* The lock's session dies; its holder goes on until it notices, ... *)
LoseLock ==
    /\ lock # Nobody /\ Stops
    /\ lock' = Nobody
    /\ OnlyProcesses /\ UNCHANGED <<sync, slot, listed, life, baseDone>>

(* ... then it shuts down; the signal context stays as it is. *)
NoticeLostLock(e) ==
    /\ LeaderElection /\ life[e] = "up" /\ lock # e
    /\ Live(e, "stopping")
    /\ OnlyProcesses /\ UNCHANGED <<sync, slot, listed, baseDone, lock, stops>>

(* SIGTERM ends the base context of the requested syncs at once. *)
Signal(e) ==
    /\ life[e] \in {"standby", "up"} /\ Stops
    /\ baseDone' = [baseDone EXCEPT ![e] = TRUE]
    /\ Live(e, IF life[e] = "up" THEN "stopping" ELSE "quiescing")
    /\ OnlyProcesses /\ UNCHANGED <<sync, slot, listed, lock>>

StopScheduler(e) ==
    /\ life[e] = "stopping"
    /\ Live(e, "quiescing")
    /\ OnlyProcesses /\ UNCHANGED <<sync, slot, listed, baseDone, lock, stops>>

(* Scheduler.Stop returned once the poll job had ended; Wait begins. *)
BeginWait(e) ==
    /\ life[e] = "quiescing" /\ listed[e] = {} /\ Polling(e) = {}
    /\ Live(e, "waiting")
    /\ OnlyProcesses /\ UNCHANGED <<sync, slot, listed, baseDone, lock, stops>>

Kill(e) ==
    /\ Live(e, "down")
    /\ baseDone' = [baseDone EXCEPT ![e] = FALSE]
    /\ lock' = Unlocked(e)
    /\ sync' = [s \in Syncs |-> IF sync[s].e = e THEN NoSync ELSE sync[s]]
    /\ slot' = [slot EXCEPT ![e] = [c \in Connectors |-> Nobody]]
    /\ listed' = [listed EXCEPT ![e] = {}]
    /\ OnlyProcesses

(* All syncs drained, or the shutdown timeout passed before. *)
ProcessExit(e) == life[e] = "waiting" /\ Kill(e) /\ UNCHANGED stops
Crash(e) == life[e] # "down" /\ Stops /\ Kill(e)

ProcStep(e) ==
    \/ Boot(e) \/ Campaign(e) \/ NoticeLostLock(e) \/ Signal(e) \/ StopScheduler(e)
    \/ BeginWait(e) \/ ProcessExit(e) \/ Crash(e)

Next ==
    \/ \E e \in Engines :
         \/ Poll(e) \/ Launch(e) \/ ProcStep(e)
         \/ \E c \in Connectors, kind \in RequestKinds : Request(e, c, kind)
    \/ \E s \in Syncs : SyncStep(s) \/ CancelRun(s)
    \/ \E c \in Connectors : Operate(c) \/ ChangeLab(c)
    \/ WriteSchedule \/ LoseLock \/ Tick

Spec == Init /\ [][Next]_vars

(* Goroutines run, handlers return, the clock ticks, cron fires, and a     *)
(* process that was stopped is started again.  The semaphore is a channel: *)
(* a freed place goes to the sync that waits longest.  A waiter whose slot *)
(* is freed is woken at once, long before the next poll.  Both are         *)
(* strongly fair, and so is the launch of a listed connector, which only   *)
(* the bound on goroutines keeps waiting.                                  *)
Fairness ==
    /\ \A s \in Syncs : WF_vars(SyncStep(s)) /\ SF_vars(Claim(s)) /\ SF_vars(Acquire(s))
    /\ \A e \in Engines : /\ WF_vars(Poll(e)) /\ SF_vars(Launch(e))
                          /\ WF_vars(Boot(e)) /\ WF_vars(Campaign(e))
                          /\ WF_vars(NoticeLostLock(e)) /\ WF_vars(StopScheduler(e))
                          /\ WF_vars(BeginWait(e)) /\ WF_vars(ProcessExit(e))
    /\ WF_vars(WriteSchedule) /\ WF_vars(Tick)

FairSpec == Spec /\ Fairness

-----------------------------------------------------------------------------
(* Properties. *)

(* In one process a connector has at most one sync between its claim and   *)
(* its exit, and the in-flight map names exactly that one: a slot freed    *)
(* too early or by the wrong sync would let two of them run (runClaimed).  *)
SlotsAreExclusive ==
    \A e \in Engines, c \in Connectors :
        LET inside == {s \in Alive(e) : sync[s].c = c /\ sync[s].pc \in {"sem", "exit"} \cup InTime}
        IN  inside = IF slot[e][c] = Nobody THEN {} ELSE {slot[e][c]}

UnderLease(s) == sync[s].leased /\ sync[s].pc \in InTime

(* While one scheduled sync runs under its lease, no other process claims  *)
(* the connector: the lease outlives the deadline of the sync that took    *)
(* it, also when a deposed leader is still polling (ClaimDueConnector).    *)
LeaseHolds ==
    \A s, t \in Syncs :
        (s # t /\ UnderLease(s) /\ UnderLease(t)) => sync[s].c # sync[t].c

(* The diff is made against the snapshot that is still the newest when the *)
(* transaction commits, although it was read before it: otherwise a change *)
(* is reported twice or not at all (persistSyncSnapshot).                  *)
BaseIsLatest ==
    \A s \in Syncs :
        sync[s].pc \in {"window", "save"} => sync[s].base = latest[sync[s].c]

(* Whatever failed since, in one sync or in many in a row, the newest      *)
(* snapshot still holds the last content that was observed of a section    *)
(* (preserveFailedSections).                                               *)
KeepsLastSeen ==
    \A c \in Connectors, x \in Sections :
        seen[c][x] \in Values => latest[c] # NoSnapshot /\ latest[c][x].content = seen[c][x]

(* The step in which s stores its snapshot or reuses the newest one. *)
Stores(s) == sync[s].pc \in {"base", "save"} /\ sync'[s].pc = "finish" /\ sync'[s].saved

(* A section whose content was known is reported if, and only if, it was   *)
(* observed now and differs from what was last observed - over failed      *)
(* fetches, reused snapshots and crashes in between - unless a maintenance *)
(* window was seen (Compare, createSyncChanges).                           *)
DriftIsReported ==
    [][\A s \in Syncs : Stores(s) =>
         LET c == sync[s].c
             now == sync[s].got IN
         \A x \in Sections : seen[c][x] \in Values =>
            (x \in changes'[c] <=> ~ sync[s].muted /\ now[x] \notin {Failed, seen[c][x]})]_vars

(* A full sync that reports success leaves the documents rendered from the *)
(* newest snapshot, also when an earlier sync stored it and died or failed *)
(* before it could render them; only a document lock, an ended context or  *)
(* a store error excuses it (finishSync).                                  *)
DocsCaughtUp ==
    [][\A s \in Syncs :
         (/\ sync[s].outcome = "success" /\ sync[s].kind # "fields"
          /\ sync[s].pc # "exit" /\ sync'[s].pc = "exit")
         => docs'[sync[s].c] \/ docLock[sync[s].c] \/ CtxDone(s) \/ faults' # faults]_vars

(* A shorter schedule takes effect immediately: while a connector is enabled *)
(* and no sync of it is in flight, its next run is never further away than   *)
(* its cadence (pullInNextRun).                                              *)
ScheduleTakesEffect ==
    \A c \in Connectors :
        (conn[c].enabled /\ conn[c].cadence # Manual /\ \A s \in Syncs : sync[s].c # c)
        => conn[c].due <= conn[c].cadence

(* Every goroutine of the engine ends, also one that waits for its turn. *)
EverySyncEnds == \A s \in Syncs : sync[s].pc # "none" ~> sync[s].pc = "none"

(* A connector that stays enabled, scheduled and out of maintenance is     *)
(* tried again and again, whichever process crashed with its lease or lost *)
(* the leadership while it ran (RunDueSyncs, ClaimDueConnector).           *)
NeverForgotten ==
    \A c \in Connectors :
        <>[](conn[c].enabled /\ conn[c].cadence # Manual /\ windows[c] = {})
        => []<>(\E s \in Syncs : sync[s].c = c /\ sync[s].pc \in InTime)

=============================================================================
