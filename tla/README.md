# TLA+ specifications of WiseLabz

WiseLabz is a self-hosted service that fetches live data from the services of a
homelab through *connectors*, keeps snapshots of it, derives documents, changes
and alerts, and - since runbook runs exist - also acts on the lab. The modules
here model the parts of its Go backend (`src/backend`) and its web client
(`src/web`) where goroutines, users, processes, requests and events meet, and where
a mistake would send an action twice, lose a run or an edit, or tell its reader
something untrue.

## 1. Inventory

| Component | State it keeps | Operations | Hard behaviour |
|---|---|---|---|
| Runbook run store (`internal/store/runbook_run*.go`) | rows of `runbook_runs` and `runbook_run_steps`, with `updated_at` as revision | create, approve, reject, confirm, step and run transitions, resume with or without a decision, cancel, interrupt, expire, prune | guards on the state read earlier; one open run per runbook by a partial unique index; revision compared inside the transaction |
| Runbook run executor (`internal/runbookrun`) | a goroutine per driven run, a slot registry with a cancel handle per run | start, drive, pause, confirm, resume, cancel, recover | spawn while the previous goroutine stops; late answers; writes that fail; shutdown between a write and a spawn |
| HTTP run handlers (`internal/api/runbooks`) | none between requests | validate, authorize, call the executor | two users deciding on the same run |
| Process lifecycle (`cmd/server`) | phase of the process, the signal context | boot, recover, campaign, serve, drain, wait, exit | SIGTERM cancels goroutines before requests stop; crash between any two writes |
| Leader election (`internal/leader`) | one advisory lock on a pinned session | campaign, watch, lose | the old leader goes on until it notices |
| Sync engine (`internal/sync`) | in-flight slot per connector, a semaphore, the connector's schedule columns, the snapshot chain | sync on demand, when free, on schedule, all | schedule read before and written after a fetch; lease of a crashed process; documents left behind |
| Scheduler (`internal/scheduler`) | job registry, job health | tick, run, record health | health is read, compared and written back |
| Notifications (`internal/notifications`) | deliveries with attempts, quiet hours, digests | dispatch, retry, dead-letter | retry of a delivery that arrived; crash between claim and send |
| WebSocket hub (`internal/ws`) | tickets, clients with bounded queues | subscribe, broadcast, drop | a slow client; events lost over a reconnect |
| Client event provider (`web/src/ws`, `store/live.ts`) | the socket, a debounce, the alert badge, sync bars | connect, back off, resync, dispatch | events lost, or overtaken by an older answer |
| Client session (`web/src/store/auth.ts`, `api/axios-instance.ts`) | access token, status, the refresh under way | sign in, refresh silently, repeat, change the password, sign out | requests refused together; a refresh that outlives its session or its cookie; a store that fails under it |
| Document editor and its lock (`features/docs/DocEditorPage.tsx`) | the draft and its base version, the lock believed held | seed, type, save, reload, acquire, renew, release | an answer that meets a draft typed meanwhile, or a page opened since |
| Discovery panel (`features/discovery/DiscoveryPanel.tsx`, `store/discovery.ts`) | the scan on display | start, cancel, poll, follow events | three sources that overtake one another |
| Resume dialogs of a run (`components/runbook/RunDetail.tsx`) | the decision and what it is about | decide, confirm, send | the run moves on behind the dialogs |
| Connector actions, lifecycle, config push (`internal/api/connectors`) | previews, fingerprints, audit | preview, confirm, write, verify, revert | stale preview, write without an answer |
| Connectors in config (`internal/connector/reconcile`) | `managed_by`, config hash | create, adopt, update, release at boot | race with edits and syncs in flight |
| Discovery (`internal/discovery`) | the scan in progress, candidates | scan, cancel, adopt | one scan at a time |
| Authentication (`internal/auth`, `internal/api/auth`) | sessions, refresh tokens, elevation windows | login, refresh, revoke, elevate | rotation raced by a replay |
| Documents (`internal/doc`, `internal/api/docs`) | documents, versions, locks, ownership, edit proposals | generate, edit, lock, propose, accept | generation against manual edits, stale base version |
| Import, export (`internal/docimport`, `internal/docexport`) | the export's state file | import, export | mostly parsing and I/O |
| Backup and restore (`internal/backup`) | backup files | create, prune, restore | I/O in one pass |
| Retention (`internal/retention`) | none | expire and prune old rows | meets users acting on the same row |
| Quality, compliance (`internal/quality`, `internal/compliance`) | findings | evaluate, open, resolve | pure rules over a snapshot |
| Topology, identities (`internal/topology`) | edges, memberships | rebuild after a sync | derived data |
| Reports, chat, AI, MCP | little | request and response | external services |
| Connector implementations (`internal/connector/*`) | none | fetch, act | protocols of external products |
| Support packages, the rest of the web frontend | configuration, caches, UI state | - | forms, tables, a generated API client |

How they interact: handlers call executors and engines synchronously; those start
goroutines with `Engine.TryGo`, which refuses once shutdown began; goroutines
talk to each other only through the database, the slot registries and contexts;
a runbook's `wait` step asks the sync engine for a sync of its own; the scheduler
calls the engine, the retention jobs and the sweeps in the process that leads.

What makes each modelled component correct:

* *store*: the state machine of runs and steps, guarded so that callers may be
  late, duplicated or wrong about what they read;
* *executor*: a run is driven by one goroutine, in order, under the right user,
  with the approvals it needs, never sends an uncertain action again by itself,
  and its record never says more than is known;
* *process and recovery*: no run stays running with nobody driving it;
* *sync engine*: one sync per connector in a process and one per lease across
  processes; a chain of snapshots in which nothing observed is forgotten, every
  change is reported once and the documents catch up; a connector that is due is
  tried again whatever died before;
* *document editor*: nobody's version is replaced unseen, nothing typed is lost
  without a command, and a page that is gone holds no lock;
* *client session*: what the client asks for together does not end its session by itself,
  and none of its requests waits for ever;
* *client events*: what the screen shows becomes what the server has, although
  events are hints that may be lost;
* *resume*: a step of unknown outcome is passed only by a decision about the run that
  the operator saw.

## 2. Modules

| Module | What it is |
|---|---|
| `RunbookStore` | One operator per store transaction, the specification `StoreSpec` in which any caller may run any of them, and what the store promises. It is the abstract specification of the executor. |
| `RunbookRun` | The executor, the handlers, the processes and the sweeps over `RunbookStore`. |
| `MCRunbookRun` | The plans and symmetry sets of the TLC instances. |
| `RunbookStoreProofs` | Theorems about `StoreSpec`. |
| `RunbookRunProofs` | The executor's inductive invariant, the refinement, and what follows. |
| `RunbookSafetyProofs` | What one step of the system may do to one run; from it the two-person rule, the manual steps and the decisions, for any number of processes. |
| `RunbookSoloProofs` | With one process: who is in charge of a run, what the goroutine in charge knows, the truth of the record, and that no run is left alone. |
| `SyncSnapshot` | Pure operators of a sync's data: which snapshot a fetch leaves behind and which sections the diff reports. |
| `SyncEngine` | The poll, the syncs, the connector's row, operators, time and processes over `SyncSnapshot`. |
| `SyncEngineProofs` | The engine's types, slots, leases, documents and snapshot chain, for any number of connectors, processes and syncs. |
| `MCSyncEngine` | What the lab may show, the retry delays and the symmetry set of its TLC instances. |
| `SharedDoc` | What version-checked saving promises to those who share a doc: the abstract specification of the editor. |
| `DocDraft` | The editor's draft and base version, its saves, the handler and the store, over several mounts of the editor. |
| `DocDraftProofs` | The editor implements `SharedDoc` and keeps what was typed, for every set of texts and every bound. |
| `DocLock` | The advisory lock: the pages that take, renew and return it, the server's row and the events about it. |
| `LiveEvents` | The event socket and what it keeps current: a list, the alert badge, a sync's bar. |
| `WebSession` | Sign-in with a second factor, a new password, rotating refresh tokens, the interceptor and the session store of a tab. |
| `DiscoveryPanel` | A network scan and the panel that shows it. |
| `RunDecision` | A run that others resume and end, its page, the chain of resume dialogs, and the server's two checks. |
| `RunDecisionProofs` | The decision is informed, for every number of steps and revisions; the types of this part. |
| `MCWebClient` | The six parts of the client side by side, for TLC. |
| `WebClientProofs` | The lock comes back, what a rejected refresh says of the cookie, and the six parts keep their types, for every value of the constants. |

### RunbookStore

`row`, `step` are the two tables, `readers` the revisions: `updated_at` is only
ever compared with a value read earlier, so the module keeps, per run, who still
holds the current one. Each transaction of the store locks the run's row first
(`SELECT ... FOR UPDATE`, or SQLite's single writer), so it is one step. A `Can...`
operator is the condition of its commit; its negation is `ErrConflict`. Names are
the source's. The age tests of the sweeps and of pruning are abstracted to "may be
old enough now". A run's identity is never used twice (a UUID), and "pruned" rows
are kept as a state so that this is so.

### RunbookRun

* `task` - the goroutines that `spawn` starts. The pc names the next call:
  `claim` waits for the slot, `read`/`steps` are the two queries at the head of
  `execute`'s loop, `pause`, `start`, `perform`, `effect`, `succeed`, `fail`,
  `finish`, `failrun` the calls of `runStep`, `exit` the deferred release. What a
  goroutine read and still uses later is in its record (`at`, `from`, `last`,
  `actor`), so it may be stale when used.
* `active` - the slot registry with the holder a cancel reaches.
* `request` - a handler between two calls: a resume that has read, a handler that
  has written and not yet spawned, a cancel that has written and not yet told the
  goroutine.
* `proc`, `baseDone`, `lock` - processes: boot runs recovery, then campaigns (or
  serves); a signal ends the base context at once, `Drain` and `StopWork` are the
  later phases of shutdown, `Exit` is the end of the drain and also a crash.
* `faults` - how many store calls failed with an error that is not a conflict.
* `fact`, `resumes` - history variables: what really happened at the connector,
  and how often a run was resumed. No guard of the code reads them (`resumes` also
  carries the bound `MaxResumes`).

A connector operation is two steps, `Dispatch` and an answer, and between them
everything may happen. `wait` stands for the three kinds that only poll. Grants
are a nondeterministic `Refuse`.

### SyncEngine

* `conn` - the connector rows: schedule, `next_run_at`, retry count. Time passes in
  ticks of a minute, the unit of the code's own margins, and a deadline is stored as
  the ticks until it (`due` is due at 0, `Unset` is NULL). `Tick` does not pass a
  sync whose time is up: a cancelled context is noticed, and the finish written,
  within the minute that the lease leaves beyond the timeout.
* `sync` - the goroutines of syncs with the pc of the next call: `claim` the slot,
  `sem`, `lease` (`ClaimDueConnector`), `read`, `creds`, `fetch`, `base` (the newest
  snapshot), `window`, `save` (the transaction), `finish`, `docs`, `exit`. `cadence`,
  `retries`, `base` and `muted` are what the sync read and uses later. The kinds are
  a user's sync, a partial one (`fields`), one that a runbook run waits for (`own`)
  and the poll's.
* `slot`, `listed`, `life`, `baseDone`, `lock` - the in-flight map, the list of the
  poll job in progress, and the processes. `Inside` is who holds the semaphore.
* `latest`, `changes`, `docs` - the newest stored snapshot, the sections reported
  with it, and whether the documents were rendered from it.
* `edit` - a schedule update between its read (`pullInNextRun`) and its write.
* `seen`, and `leased` in a sync, are history variables: what a stored sync last
  observed of each section, and whether `next_run_at` is still the lease it wrote.

A fetch returns what the lab shows at that moment with any sections failed, or an
error. A snapshot equal in its sections may still differ in what the model leaves
out, so reusing it is a choice. Retry counts stop at the last delay, which acts
like all counts beyond it.

### The web client

JavaScript runs one callback at a time, so an action is one: an event handler, an
effect, the answer of a request, an event of the socket, or one step of the server.
What is between two callbacks - a request under way, an answer not yet delivered - is
state, with one record per request. Where a component may be unmounted and mounted
again, callbacks of the earlier one keep running; editors and pages are therefore
numbered (`mount`, `page`), and per-instance state is a function of that number.

* `DocDraft` - `docHistory` and `docText` are the server's doc, `docCache` the query
  cache, `draft`, `baseText`, `baseVersion` the page's state (`DocEditorPage.tsx`),
  `saveReq` a save between the mutation and its callback. The server's part of a save
  is the transaction that compares the version (`SaveServed`, `store/doc.go`) and the
  read of the doc for the answer, which is outside of it (`SaveReadBack`,
  `handlers.go:231`). `shown` and `answered` are history: the versions the user was
  shown, and those that only an answer named. They are the `known` of `SharedDoc` in
  two readings, `Refines` with both and `RefinesStrict` with the first.
* `DocLock` - `lockHeld` and `lockRef` are the page's state and its ref, `lockShown` the
  holder in the live store, `lockRow` the server's row. `KnowsUser` is whether the
  store holds the user's id: a silent refresh answers without one (`session.go:76`), and
  then the page takes its own lock event for somebody else's.
* `LiveEvents` - the list stands for every query that `invalidateDebounced` refetches.
  Its contents are a number, so that "older" has a meaning; the requests are those of the
  changes page (`ChangesPage.tsx:44`, `api/changes`). `asking` and `counts` are the requests
  that count the alerts and their answers: several may be under way and arrive in any order,
  or fail. A sync announces itself and ends with an event (`SyncEnds`) or, when it is skipped
  or cannot read its connector, without (`SyncEndsSilently`; `silent` is history). A sign-out
  clears the query cache (`SignOut`), a rejected refresh does not (`SessionLost`). The hub may
  drop any event on an open socket; `missed` remembers the drops of changes and completions,
  which nothing but a later resync makes up for.
* `WebSession` - tokens are numbers, and only those that the browser holds or is about
  to get are told apart (`Fresh`). `flight` is the refresh that a caller started, and
  which others join (`refreshInFlight`); its `fault` says that the server answered 401 because
  the store failed, its `old` that the cookie was replaced while it was under way. A password
  change ends all sessions and starts one; one that fails after ending them is `SessionsEnd`
  followed by `CallLost`.
* `DiscoveryPanel` - `shownScan` is the discovery store; `ReadAgain` models what a refetch
  does to the effect that copies the cache into the store. A cancel marks the scan
  (`stopping`) and waits; it is answered when the run ended, or after three seconds with the
  scan as it stands (`CancelTimesOut`).
* `RunDecision` - `runNow` is the row on the server, of which `RunbookRun` models the
  rest; `basis` is the step and revision the dialogs opened on; the server reads
  (`ResumeRead`) and later compares in its transaction (`ResumeCommit`).

The parts share no state, so `MCWebClient` does not interleave them: `route` picks the one
a behaviour is about, and the others rest. That makes their state spaces add up
instead of multiplying.

## 3. Runs

The check of a run is exhaustive for its instance. Bounds: one run of a runbook
with two frozen steps is enough for every transition of a step next to an
unfinished, finished or waiting neighbour; two goroutines because a third could
only wait behind them; two requests in flight for two users who race; two
processes for a deposed leader and its successor; two resumes so that a decision
can be taken on an attempt that another user has already repeated; one failed
store call anywhere in `runbook_safety`. Behaviours with two and more failed calls,
among them the double failure that `failRun` documents, are covered by the theorems of
section 4 only, which hold for every number of them.

| Run | Question |
|---|---|
| `runbook_safety` | One process with signals, crashes and restarts, two users, two requests, two goroutines, three plans, one failed store call: who drives the run, with whose rights and approvals, is what it sent visible, is the record true, is nothing sent again blindly, is the fault absorbed? |
| `runbook_two_runs` | Two runs of one runbook with sweeps: at most one is open, finished ones are frozen, and the executor implements `StoreSpec`. |
| `runbook_live` | While no store call fails: a running run always has somebody in charge; every running run stops running and every goroutine ends, under the fairness below. |
| `runbook_ha` | Two replicas, lost locks, a deposed leader: do the guarded writes alone keep order and successes? |
| `runbook_lost_finish` | A failed write of a run's end; see section 6. |
| `sync_drift` | One connector with a steady and a changing section that may fail in any fetch, syncs of runs that can be cancelled, a stop or crash and one edit, window or document lock: is the diff made against the newest snapshot, is nothing known forgotten, is each change reported once, do the documents catch up? |
| `sync_lease` | Two replicas poll one connector; the lock may be lost unnoticed, a store call fail, a process die or an operator or boot change the schedule: one sync per slot, one per lease. |
| `sync_live` | The poll, partial syncs and waiting syncs compete for one slot with one stop or crash: does every goroutine end, is the connector tried again and again? |
| `sync_schedule` | A shorter schedule set during a sync; see section 6. |
| `web_client` | Is a version ever replaced that the user had no sight of, is typed text kept, is the lock returned; do list, badge, bar, banner and panel become right again; does the client end its own session; is a resume decision informed? |
| `web_sync_bar` | Does every progress bar resolve, as `finish` says of itself? See section 6. |
| `web_docs_overwrite` | The same editor against the stricter reading of "seen"; see section 6. |

Bounds of the sync runs: one connector, because connectors share only the
semaphore; two goroutines, one that works and one that waits, claims or overtakes;
two sections and two values so that one section changes next to a steady one, and
comes and goes; a timeout of one tick, so that the lease is two; a cadence of two
ticks, long enough that a lease of the wrong length shows; cadences of two and four in
`sync_schedule`, so that the shorter one is no shorter than the lease and what remains of a
lease is not mistaken for a schedule. With one connector a
sync never waits long for the semaphore. `LeaseHolds` speaks of syncs whose lease
still stands: an operator's schedule change, a boot that resets the next run, or
the end of a sync that took no lease overwrites it, and then the poll may start
another, which the code accepts.

Bounds of `web_client`. Documents: two texts (equal or not), three versions so that
somebody else's can lie between two of the user's, two mounts of the editor so that an
answer meets a later one; saves fail any number of times. Lock: two pages for the same reason, one
failed request, one event under way. Events: no or one alert pending at first, one list
change, one alert or sync step, one break or failed count, two sign-ins; a second break only
repeats the resync. That the minute's recount waits for the counts before it
(`RecountTimer`) keeps their number finite; the count of an opening does not wait. Session:
two requests, which is what it takes to be refused together, five tokens (more than can be
held at once); answers are lost and the store fails any number of times; the user fills one
form at a time (`Busy`), while pages ask for data at any time. Panel: one host, two scans, one cancel, one broken
socket or failed read; starting and cancelling do not overlap (`AdminBusy`). Resume: one step, four revisions (fail, resumed by
somebody else, failed again, resumed); answers are lost any number of times. `KnowsUser` is FALSE, the case in which
the lock's banner is wrong most often.

`CHECK_DEADLOCK` is on in the backend runs: a process can always be signalled, die or
boot. It is off in the web runs: a client at its bounds with nobody acting rests.

Fairness (`runbook_live` only): weak fairness of every goroutine and every
handler (the Go scheduler), of `Boot` (the supervisor of the process), of the
phases of shutdown once a signal came, and of `Exit` for a stopping process (the
drain is bounded by deadlines). An operation returns: connector clients have
timeouts, waits have the step's timeout, a config push is bounded by two minutes.
No fairness is assumed of users, signals, crashes, sweeps or the lock.

Fairness of `sync_live`: weak fairness of every sync's steps, the poll, the clock,
the boot after a stop, the campaign and the phases of shutdown. Strong fairness of
`Acquire`, since a Go channel serves its blocked senders first come, first served;
of `Claim`, since closing the slot's channel wakes the waiter at once while the
competitors come a poll apart; and of `Launch`, which only the model's bound on
goroutines makes wait. The claim is an idealisation: the slot is not handed over,
so a stream of users' syncs could overtake a waiter, which its context then bounds.

Fairness of `web_client`, per part and weak throughout: the server answers a request and
its callback runs (`axios` settles every promise, if only with a timeout, which is a
bounded fault here); the timers fire (the lock's 30 s heartbeat, the badge's minute,
the panel's three seconds, the debounce, the reconnect's backoff); a frame on an open
socket is dispatched; a scan ends (it has a deadline, `discovery/manager.go:271`). Nothing is assumed of
users, other writers, the lab, breaks or drops. The document and resume parts have
safety properties only and no fairness.

## 4. Proofs

For every value of the constants that the named assumptions of the modules allow
(`StoreAssumption` and `ExecutorAssumption` for the runbooks: any number of runs,
users, requests, goroutines, processes and steps, with or without leader election,
any number of failed store calls):

* `RunbookStoreProofs`: the tables are well-typed (`StoreTypeCorrect`), a finished
  run is frozen (`FinishedFrozen`), a success is final (`SuccessKept`), one run is
  open per runbook (`OneOpenRun`). The argument classifies a store step as one that
  touches a single run (`RunWriteEffect`, `StepWriteProgress`) or the interruption
  of all running ones (`InterruptEffect`).
* `RunbookRunProofs`: `Invariance` shows the inductive invariant
  `IInv == TypeOK /\ Knowledge /\ StepsInOrder /\ SucceededRunComplete /\ OneDriver`.
  `StepsInOrder` alone is not inductive: a goroutine acts on a step it read some
  calls ago. `Knowledge` says what it may still believe: its run was created, every
  step before the one in hand has succeeded, and at `finish` all have. It is stable
  because no transaction takes a success back (`Stable`, `PrefixStable`). With it,
  every write of the executor is a transaction of the store on a step whose turn it
  is (`Implements`), which gives the refinement `Implementation` and the three
  `Run...` theorems that carry the store's promises over to the executor, and keeps
  order and completeness. `OneDriver` is inductive next to the types: `Release`
  deletes the registry entry of its run whoever is in it, which is sound because
  only the registered goroutine can be past its claim.
* `SyncEngineProofs`, from `EngineAssumption` and `SnapshotAssumption`: `EngineInv` joins the
  types with who holds which slot (`SlotNames`). The claim finds its slot empty, the release
  empties only the slot that names it, and every other step keeps each sync's process,
  connector and hold on the slot (`KeepsPlace`); hence `SlotsExclusive`. `LeaseInv` adds that
  a lease outlives the time its holder has left. A tick shortens both, and whoever else writes
  the next run ends the lease, so nobody finds the connector due while its holder works
  (`LeaseExclusive`, for any number of processes). It rests on the clock of the model: the end
  of a sync's time is noticed within the minute that the lease adds. `SuccessInv` (a full sync
  that succeeded has a snapshot) gives `DocumentsCaughtUp`. In one process (`OneProcess`) the
  slot makes the base of a diff the newest snapshot until the transaction; from it follow, by
  induction over stored syncs, `LastSeenKept` and with the lemma `DiffOfKnown` the action
  property `DriftReported`.
* `DocDraftProofs`, from `DocAssumption`: `DocInvariant` shows
  `DocInv == DocTypeOK /\ OnlyExisting /\ MountsInOrder /\ BaseSeen`, and `DocRefines` that the
  editor implements `SharedDoc`. A step of the user writes a version only in
  `SaveServed`, whose request carries a base that equals the newest version; `BaseSeen` says
  that this base was on the screen or in an answer. It is not inductive alone: a request
  outlives its editor, so the bases of all requests are in it, and an answer's version
  must exist (`OnlyExisting`) before it may count as known.
* `RunDecisionProofs`, from `DecisionAssumption`: `DecisionInvariant` relates the basis kept
  by the dialogs to the run they opened on, through dialogs, request and transaction;
  `DecisionInformed` is the action property `ResumeIsInformed`.

* `RunbookSafetyProofs`, from the same assumptions as `RunbookRunProofs`: `SafeInvariance`
  shows `SafeInv == IInv /\ Fitting`. The refinement reduces every step of the executor to
  a store transaction or a stutter, and `RunMoves` lists what a transaction can do to one
  run (`Untouched`, `Opens`, `IsApproved`, `RunTurns`, `StepTurns`). `Fitting` is checked
  against that list: a waiting run has exactly one waiting step and it is manual
  (`ManualPause`); a gated run has no begun step, and no operation with a connector,
  without an approver other than its requester (`TwoPersonRule`); a request that decides
  holds the revision of an attempt that is still the last one (`DecisionFits`). It holds
  under recoveries, deposed leaders and failed calls alike.
* `RunbookSoloProofs`, from those assumptions and `OneProcess` (`Procs` has at most one
  member, the deployment without leader election): `SoloInvariance` shows
  `SoloInv == SafeInv /\ Charge /\ TaskHolds /\ Truth /\ NotLost`, with the last three for
  every goroutine, step and run. `Charge`: from the write that makes a run run until the one
  that ends it at most one handler or goroutine is in charge, and the slots name it.
  `TaskHolds`: what that one read is still so - the state of the step in hand, the user it acts
  for - unless the run was cancelled under it. `Truth` relates each step's record to what
  happened at the connector. `NotLost` says when a running run may have nobody: a call
  failed when only the end was left to record, two calls failed, or the process stops.
  None of them is inductive alone: the record is true because the goroutine that writes it
  knows the step's state, which it knows because nobody else drives the run, which in turn
  rests on the slots. `Calm` keeps other actors away: to a run that somebody drives, users and
  sweeps can only do a cancel, an expiry or pruning. With a second
  process the assumption is needed: its recovery at boot fails runs that the first one drives
  (section 6). From `SoloInv` follow `EffectVisible`, `ActorIsCurrent`, `TruthfulRecord`,
  `NoBlindResend`, `OneFaultAbsorbed` and `RunningIsDriven`.
* `DocDraftProofs` also shows `DraftIsKept` (`TypedTextKept`): every step but the user's own
  commands keeps a draft that differs from what was sent (`DraftKept`), and only the answer to
  a save of that very text closes the editor (`EditorStays`).
* `WebClientProofs`, from the assumptions of the six modules of the client:
  * the lock: `LockInv` adds `Accounted` to the types: a row in the user's name is that of the
    open page that believes to hold it, or a request or release under way, or a lost one, will
    still answer for it. `LockReturned` is the case in which nothing is left to answer.
  * the session: `SessionInv` adds that one refresh is under way at a time (`OneFlight`), that
    one of this sign-in was sent with the browser's present cookie (`OwnCookie`), and that the
    cookie of a rejected one is of no session and stays so, unless the store failed while it was
    served (`DeadCookie`). `NoSignOutByItself` is therefore as strong as the code: it leaves out
    the rejections of a failing store and of a cookie replaced meanwhile, in which the code does
    sign out a live browser (section 6). For `DeadCookie`, a new
    token must differ from all that are held. `FreshToken` counts them: at most the cookie, one
    per request and one for the refresh. Hence `SessionAssumption` asks for more tokens than
    that, which stands for a server that draws them at random.
  * the types of all parts (`ClientTypeCorrect`). They need `Counted` for the event socket (an
    alert may be counted twice, by an event on the wire and by a count that the server took
    after it; both are paid for by the bound on alert steps, and a count that arrives, however
    old, is within the server's bound), `Numbered` for the panel (a
    running scan has a number) and `StepAhead` for the run page (a run that waits for a
    decision has a step before it, so that marking it done stays within the run). A part at
    rest satisfies its invariant and no step leaves it, so the parts' invariants compose.

Every invariant and action property that a passing run checks is also proved, for every value
of the constants; of the runs over the executor, the six of `RunbookSoloProofs` under
`OneProcess`, and of the sync engine `BaseIsLatest`, `KeepsLastSeen` and `DriftIsReported`
under its own `OneProcess`.

Only model-checked is liveness: `EveryRunStops`, `EveryTaskEnds`, `EverySyncEnds`,
`NeverForgotten`, `BannerHeals`, `ChangesAreShown`, `BadgeConverges`, `JobBarEnds`,
`EveryCallSettles` and `PanelCatchesUp`. Their proofs need `ENABLED` and fairness, which the
prover cannot do. The counterexamples of the runs that expect a violation are TLC's as well.

## 5. Not modelled

In the runbook component: failure reasons and texts, events and notifications,
listing and filters, elevation and the grants themselves, deletion of a runbook
under a run, a store commit whose answer is lost, and the polling inside a wait
step. Under leader election a deposed leader may still dispatch an action that its
successor's user resumes; `NoBlindResend` is checked and proved for one process.
In the sync engine: entities, dependencies and metadata of a snapshot, baselines
that cannot be parsed, severities, alerts and notifications, quality checks, topology
and identities, run history, the refreshed credentials themselves, the limit on due
connectors per poll, and the creation and deletion of connectors. Two maintenance
windows that end in the same minute count as one. The chain is checked in one
process: a user's sync takes no lease, so one that a deposed leader still runs may
overlap its successor's.
In the web client: the merging of generated blocks, attachments and the request for an
AI suggestion (accepting one counts as typing); two tabs that share a cookie; passkeys,
OIDC, lockout and elevation tokens; targets, rate limits and expiry of a scan; the
relay between replicas and the `system.resync` it sends; the `sync.complete` that answers a
request for a sync that runs already (`run.go:62-68`); a list refetch that fails; toasts. Forms, tables,
settings, the recipe builder, the dashboard and the generated API client - the bulk of
the client's lines - display and send what the server validates; they have no protocol
of their own.

The modules model the parts that interact. By lines that is a small share of the
repository, whose larger part is connector protocols, translations, generated code and
pages.

Three hazards that the code accepts knowingly have no property: a config push cut short
by its two minutes is recorded failed although the field may have been written
(`run.go:373`, `docs/adr/0007`); the operation of a cancelled run is still with the
connector when the next run starts (`executor.go:837`); closing maintenance ends the
latest of several overlapping windows (`store/maintenance.go:46`).

The other components are in section 1, with their reasons in `PROJECT.json`.

## 6. Where code and its description part

* `runbook_lost_finish`: `finishWithoutStep` (`run.go:217`) only logs a failed
  write, so one failure leaves a run running with nothing driving it, although the
  executor means never to (`run.go:89`, and a test named after it).
* `sync_schedule`: `finishSync` (`internal/sync/run.go:278`) computes the next run
  from the schedule the sync read when it started, and writes it over the run that
  `pullInNextRun` (`api/connectors/handlers.go:394`) pulled in meanwhile to make a
  shorter schedule take effect immediately. With a cadence of a day shortened to
  five minutes during a sync, the next run is a day away.

* `web_docs_overwrite`: the save handler (`api/docs/handlers.go:213`) drops the version that
  its own transaction wrote and answers with the doc as it reads it afterwards
  (`handlers.go:231`). When somebody else writes in between and the user has typed on, the
  editor keeps the draft and takes the answer's version for its base
  (`DocEditorPage.tsx:188-193`); the next save then replaces, without a conflict, a version
  that was never on the screen. The store means to prevent this (`store/doc.go:105-106`).

* `web_sync_bar`: a sync is announced (`internal/sync/run.go:109`) before its connector is
  read. If that was disabled meanwhile, the sync is skipped (`run.go:138-143`) and no
  `sync.complete` follows (`run.go:230`), so the job that the announcement added stays until
  the client reconnects; the comment of `finish` says that the completion is broadcast "so the
  UI progress indicator always resolves" (`run.go:129-131`). A connector that cannot be read
  (`run.go:111-125`) ends in a progress event of phase `error` alone. `JobBarEnds` speaks of
  the syncs that do say when they end.

Read while modelling, and not stated as a run:

* A store failure while a refresh is served - the user cannot be read (`session.go:40-44`), or
  the token not replaced (`session.go:69-72`) - is answered 401, and the client signs out
  although its cookie is live, while it means to drop the session "only when the server
  actually rejects the refresh token; network errors and 5xx leave it intact"
  (`auth.ts:120-124`). A sign-in or a new password whose answer replaces the cookie while a
  refresh of the one before is under way may be undone by that refresh's rejection.
  `NoSpuriousSignOut` names both cases and leaves them out. The store failure has no run of
  its own: it would be the model's premise restated.
* A session that a rejected refresh ends keeps its query cache (`auth.ts:134`; only `logout`
  clears it), and the first opening of the next session's socket does not resync: changes
  missed between are shown only when the list is read for another reason.
* Signing out answers 204 also when the sessions could not be deleted (`session.go:105-112`).
* The server never sends `alert.resolved`; the contract lists it (`docs/WS_CONTRACT.md:175`)
  and the client handles it. Until the next count the badge shows alerts that were resolved.
* The onboarding page shows the jobs (`OnboardingPage.tsx:184-203`) and waits for one of phase
  `done`, which no sync sends: its completion removes the job instead.
* The top bar and the dashboard show the job of key `global` (`Topbar.tsx:22`,
  `DashboardPage.tsx:105`), which stands for an event without a service
  (`store/live.ts:57`); every sync names its connector.

* Recovery runs at every boot, also of a standby while the leader drives runs
  (`cmd/server/main.go:146`; `recovery.go:23` says no executor goroutine may exist), and not
  at a takeover (`lifecycle.go:122`; `cmd/server/runbook_runs.go:14` sets out to leave no run
  running). `runbook_ha` shows that order and successes survive it.
* A refused second factor is a 401 (`login.go:239`). The interceptor answers it with a
  refresh, which without a cookie is rejected, and the store's `clear` (`auth.ts:134`) drops
  the ticket, although the page keeps it "when the code is rejected"
  (`LoginPage.test.tsx:93`, which mocks the request below the interceptor).
* A read that found no scan may arrive after one was started and take it off the panel
  until the next event or read; a slow cancel of an older scan shows that one again; and
  candidates go back to those of an older read when a refetch starts
  (`store/discovery.ts:49` says they "never go back").
* While a lock is renewed, every 30 s, the editor takes no input: `canEdit` is false as
  long as the request is pending.
* The answer to a save of an editor that was left navigates away from the one opened
  since (`DocEditorPage.tsx:205`); `TypedTextKept` leaves that case out.
* A resume that is refused for want of a decision does not read the run again
  (`RunDetail.tsx:121-124`), so the page goes on offering the plain resume until a refetch.
* The hub may drop an event on a socket that stays open (`ws.go:347`, and `ws.go:421` for
  all clients). The badge is counted again each minute; lists and sync bars stay wrong until
  the next change or reconnect, although the contract says that clients recover dropped
  events by refetching (`docs/WS_CONTRACT.md:72`).

## 7. What could follow

1. Modules: `NotificationDelivery` (claim, retry, dead letter), edit proposals and
   regeneration over `SharedDoc`, the hub's queues with its relay, a second connector that
   competes for the semaphore.
2. The abstract specification of the sync engine: a connector's history is a chain in
   which each change joins two consecutive snapshots; `EngineInv` and `ChainInv` are the
   invariants that its refinement needs.
3. Proofs: what of `TruthfulRecord` and `NoBlindResend` remains with two processes, under an
   assumption on when recovery runs.
