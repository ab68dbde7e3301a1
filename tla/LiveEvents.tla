------------------------------ MODULE LiveEvents ------------------------------
(***************************************************************************)
(* The event socket of the web client and what it keeps current: the list  *)
(* of changes, read over REST, the badge that counts pending alerts, and   *)
(* the progress bar of a sync.  The server sends each event once and never *)
(* replays it; what was missed while the socket was down is recovered by a *)
(* resync when it opens again.                                             *)
(*                                                                         *)
(* The list is numbered: number n is the list after n events, and 0 in the *)
(* cache means that it is not loaded.                                      *)
(***************************************************************************)
EXTENDS Integers, Sequences

CONSTANTS MaxEvents,    \* bound: list changes of the server
          MaxAlerts,    \* bound: alerts pending at first, and steps of alerts and syncs
          MaxBreaks,    \* bound: times the socket breaks or a ticket fails
          MaxSignIns    \* bound: times the user signs in

ASSUME LiveAssumption == {MaxEvents, MaxAlerts, MaxBreaks, MaxSignIns} \subseteq Nat

VARIABLES
  listServer,   \* server: number of the list
  alerts,       \* server: pending alerts
  syncing,      \* server: a sync runs
  wire,         \* events sent to the open socket, oldest first
  signedIn,     \* the session store says authenticated
  socket,       \* "closed", "waiting" (backoff), "connecting" or "open"
  hasOpened,    \* this sign-in has had an open socket
  listCache,    \* query cache: number of the list
  listRead,     \* the list request: "none", "sent" or the number it was served
  debounce,     \* an invalidation waits for the burst to end
  asking,       \* requests that are to count the pending alerts
  counts,       \* how many answers with each count are on their way
  badge,        \* live store: pending alerts
  job,          \* live store: there is a job of the sync, whatever its phase
  budget,       \* events, alert or sync steps, breaks and sign-ins left
  owed,         \* history: a change that the client could hear of is not shown yet
  carried,      \* history: the job was there at a sign-out
  silent,       \* history: the last sync ended without saying so
  missed        \* history: of changes and completions, which the hub dropped on the open socket

liveVars == <<listServer, alerts, syncing, wire, signedIn, socket, hasOpened, listCache, listRead,
              debounce, asking, counts, badge, job, budget, owed, carried, silent, missed>>

server == <<listServer, alerts, syncing>>
conn == <<signedIn, socket, hasOpened>>
list == <<listCache, listRead, debounce>>
live == <<asking, counts, badge, job>>
notes == <<owed, carried, silent, missed>>
Kinds == {"changed", "raised", "progress", "complete"}

(* The state has its types. *)
LiveTypeOK ==
  /\ listServer \in 1..(MaxEvents + 1) /\ alerts \in 0..(2 * MaxAlerts) /\ syncing \in BOOLEAN
  /\ wire \in Seq(Kinds)
  /\ signedIn \in BOOLEAN /\ hasOpened \in BOOLEAN
  /\ socket \in {"closed", "waiting", "connecting", "open"}
  /\ listCache \in 0..(MaxEvents + 1)
  /\ listRead.st \in {"none", "sent", "served"} /\ listRead.n \in 0..(MaxEvents + 1)
  /\ debounce \in BOOLEAN
  /\ asking \in Nat /\ counts \in [0..(2 * MaxAlerts) -> Nat]
  /\ badge \in 0..(3 * MaxAlerts) /\ job \in BOOLEAN
  /\ budget \in [event : 0..MaxEvents, alert : 0..MaxAlerts, break : 0..MaxBreaks,
                 signIn : 0..MaxSignIns]
  /\ owed \in BOOLEAN /\ carried \in BOOLEAN /\ silent \in BOOLEAN /\ missed \subseteq Kinds

None == [st |-> "none", n |-> 0]
Asked == [st |-> "sent", n |-> 0]
Served(n) == [st |-> "served", n |-> n]
NoCounts == [n \in 0..(2 * MaxAlerts) |-> 0]

LiveInit ==
  /\ listServer = 1 /\ alerts \in 0..MaxAlerts /\ syncing = FALSE /\ wire = <<>>
  /\ signedIn = FALSE /\ socket = "closed" /\ hasOpened = FALSE
  /\ listCache = 0 /\ listRead = None /\ debounce = FALSE
  /\ asking = 0 /\ counts = NoCounts /\ badge = 0 /\ job = FALSE
  /\ budget = [event |-> MaxEvents, alert |-> MaxAlerts, break |-> MaxBreaks, signIn |-> MaxSignIns]
  /\ owed = FALSE /\ carried = FALSE /\ silent = FALSE /\ missed = {}

Spend(k) == budget[k] > 0 /\ budget' = [budget EXCEPT ![k] = @ - 1]

(* The server sends an event to the socket that is open; otherwise it is gone. *)
(* The hub drops single events of a client, or of all, when a queue is full.  *)
Send(e) ==
  \/ wire' = (IF socket = "open" THEN Append(wire, e) ELSE wire) /\ missed' = missed
  \/ socket = "open" /\ missed' = missed \cup ({e} \cap {"changed", "complete"}) /\ wire' = wire

(* Invalidating a query restarts the request of one that has data and is on a *)
(* page; the first request of one that has none goes on.                      *)
Invalidated == IF signedIn /\ listCache > 0 THEN Asked ELSE listRead

-----------------------------------------------------------------------------
(* The server. *)

(* A sync that found a change stores it and broadcasts it. *)
ListChanges ==
  /\ Spend("event")
  /\ listServer' = listServer + 1
  /\ owed' = (owed \/ (hasOpened /\ listCache > 0))
  /\ Send("changed")
  /\ UNCHANGED <<alerts, syncing, conn, list, live, carried, silent>>

(* An alert is raised, which is broadcast, or resolved, which is not. *)
AlertChanges ==
  /\ Spend("alert")
  /\ \/ alerts' = alerts + 1 /\ Send("raised")
     \/ alerts > 0 /\ alerts' = alerts - 1 /\ UNCHANGED <<wire, missed>>
  /\ UNCHANGED <<listServer, syncing, conn, list, live, owed, carried, silent>>

(* A sync starts or goes on. *)
SyncProgresses ==
  /\ Spend("alert") /\ syncing' = TRUE /\ silent' = FALSE
  /\ Send("progress")
  /\ UNCHANGED <<listServer, alerts, conn, list, live, owed, carried>>

(* A sync ends and says so. *)
SyncEnds ==
  /\ syncing /\ syncing' = FALSE
  /\ Send("complete")
  /\ UNCHANGED <<listServer, alerts, conn, list, live, budget, owed, carried, silent>>

(* The sync of a disabled connector is skipped, and says nothing after it was *)
(* queued; one whose connector cannot be read sends its error as progress.    *)
SyncEndsSilently ==
  /\ syncing /\ syncing' = FALSE /\ silent' = TRUE
  /\ Send("progress") \/ UNCHANGED <<wire, missed>>
  /\ UNCHANGED <<listServer, alerts, conn, list, live, budget, owed, carried>>

(* The server answers the list request and the count request. *)
ListServed ==
  /\ listRead = Asked /\ listRead' = Served(listServer)
  /\ UNCHANGED <<server, wire, conn, listCache, debounce, live, budget, notes>>

CountServed ==
  /\ asking > 0 /\ asking' = asking - 1
  /\ counts' = [counts EXCEPT ![alerts] = @ + 1]
  /\ UNCHANGED <<server, wire, conn, list, badge, job, budget, notes>>

-----------------------------------------------------------------------------
(* The session. *)

(* Signing in starts the effect that connects. *)
SignIn ==
  /\ ~signedIn /\ Spend("signIn")
  /\ signedIn' = TRUE /\ socket' = "connecting" /\ hasOpened' = FALSE
  /\ UNCHANGED <<server, wire, list, live, notes>>

(* The effect ends: the socket closes and counts under way are dropped; the *)
(* live store stays.                                                        *)
Disconnects ==
  /\ signedIn
  /\ signedIn' = FALSE /\ socket' = "closed" /\ hasOpened' = FALSE
  /\ wire' = <<>> /\ asking' = 0 /\ counts' = NoCounts
  /\ owed' = FALSE /\ carried' = job /\ missed' = {}
  /\ UNCHANGED <<server, debounce, badge, job, silent, budget>>

(* Signing out clears the query cache. *)
SignOut == Disconnects /\ listCache' = 0 /\ listRead' = None

(* A rejected refresh ends the session and leaves the query cache alone. *)
SessionLost == Disconnects /\ UNCHANGED listCache /\ listRead' \in {listRead, None}

(* A page that shows the list is opened; what is cached may be too old for it. *)
LoadList ==
  /\ signedIn /\ listRead = None
  /\ listRead' = Asked
  /\ UNCHANGED <<server, wire, conn, listCache, debounce, live, budget, notes>>

-----------------------------------------------------------------------------
(* The socket. *)

Opens_WithoutResync ==
  /\ socket = "connecting"
  /\ socket' = "open" /\ hasOpened' = TRUE
  /\ asking' = asking + 1
  /\ UNCHANGED <<server, wire, signedIn, list, counts, badge, job, budget, notes>>

(* The ticket is fetched and the socket opens.  Every opening but the first  *)
(* of a sign-in is a reconnect: the sync jobs go and the lists are refetched. *)
(* Each counts the alerts, whatever counts are still under way.               *)
Opens ==
  /\ socket = "connecting"
  /\ socket' = "open" /\ hasOpened' = TRUE
  /\ asking' = asking + 1
  /\ IF hasOpened
     THEN job' = FALSE /\ carried' = FALSE /\ missed' = {} /\ listRead' = Invalidated
     ELSE UNCHANGED <<job, carried, missed, listRead>>
  /\ UNCHANGED <<server, wire, signedIn, listCache, debounce, counts, badge, budget, owed, silent>>

(* The ticket is refused, or the socket breaks and loses what is in it. *)
Breaks ==
  /\ socket \in {"connecting", "open"} /\ Spend("break")
  /\ socket' = "waiting" /\ wire' = <<>>
  /\ UNCHANGED <<server, signedIn, hasOpened, list, live, notes>>

(* The backoff ends. *)
Retries ==
  /\ socket = "waiting" /\ socket' = "connecting"
  /\ UNCHANGED <<server, wire, signedIn, hasOpened, list, live, budget, notes>>

-----------------------------------------------------------------------------
(* Events. *)

(* A change of the list asks for it again once the burst is over. *)
Changed ==
  /\ wire # <<>> /\ Head(wire) = "changed" /\ wire' = Tail(wire)
  /\ debounce' = TRUE
  /\ UNCHANGED <<server, conn, listCache, listRead, live, budget, notes>>

(* The burst is over. *)
BurstEnds ==
  /\ debounce /\ debounce' = FALSE
  /\ listRead' = Invalidated
  /\ UNCHANGED <<server, wire, conn, listCache, live, budget, notes>>

(* A raised alert moves the badge. *)
AlertEvent ==
  /\ wire # <<>> /\ Head(wire) = "raised" /\ wire' = Tail(wire)
  /\ badge' = badge + 1
  /\ UNCHANGED <<server, conn, list, asking, counts, job, budget, notes>>

(* Progress adds the sync's job, in its error phase too. *)
ProgressEvent ==
  /\ wire # <<>> /\ Head(wire) = "progress" /\ wire' = Tail(wire)
  /\ job' = TRUE /\ carried' = FALSE
  /\ UNCHANGED <<server, conn, list, asking, counts, badge, budget, owed, silent, missed>>

(* Completion removes the job and asks for the list again. *)
CompleteEvent ==
  /\ wire # <<>> /\ Head(wire) = "complete" /\ wire' = Tail(wire)
  /\ job' = FALSE /\ carried' = FALSE
  /\ listRead' = Invalidated
  /\ UNCHANGED <<server, conn, listCache, debounce, asking, counts, badge, budget, owed, silent, missed>>

-----------------------------------------------------------------------------
(* Answers and timers. *)

(* The list arrives. *)
ListArrives ==
  /\ listRead.st = "served"
  /\ listCache' = listRead.n /\ listRead' = None
  /\ owed' = (owed /\ listRead.n # listServer)
  /\ missed' = IF listRead.n = listServer THEN missed \ {"changed"} ELSE missed
  /\ UNCHANGED <<server, wire, conn, debounce, live, budget, carried, silent>>

RecountTimer_Off == FALSE /\ UNCHANGED liveVars

(* Every minute the alerts are counted again; that this is not while the   *)
(* socket connects, and that the counts before have arrived, is a bound.   *)
RecountTimer ==
  /\ signedIn /\ socket # "connecting" /\ asking = 0 /\ counts = NoCounts
  /\ asking' = 1
  /\ UNCHANGED <<server, wire, conn, list, counts, badge, job, budget, notes>>

CountArrives_Adds(n) ==
  /\ counts[n] > 0 /\ counts' = [counts EXCEPT ![n] = @ - 1]
  /\ badge' = badge + n
  /\ UNCHANGED <<server, wire, conn, list, asking, job, budget, notes>>

(* A count arrives, be it older than the one before, and replaces the badge. *)
CountArrives(n) ==
  /\ counts[n] > 0 /\ counts' = [counts EXCEPT ![n] = @ - 1]
  /\ badge' = n
  /\ UNCHANGED <<server, wire, conn, list, asking, job, budget, notes>>

(* A count that fails keeps the badge. *)
CountFails ==
  /\ asking > 0 /\ asking' = asking - 1 /\ Spend("break")
  /\ UNCHANGED <<server, wire, conn, list, counts, badge, job, notes>>

-----------------------------------------------------------------------------

LiveNext ==
  \/ ListChanges \/ AlertChanges \/ SyncProgresses \/ SyncEnds \/ SyncEndsSilently \/ ListServed
  \/ SignIn \/ SignOut \/ SessionLost \/ LoadList
  \/ Opens \/ Breaks \/ Retries
  \/ Changed \/ BurstEnds \/ AlertEvent \/ ProgressEvent \/ CompleteEvent
  \/ ListArrives \/ RecountTimer
  \/ CountServed \/ CountFails \/ \E n \in 0..(2 * MaxAlerts) : CountArrives(n)

(* Timers fire, requests are answered, events on an open socket arrive and *)
(* the socket opens in the end; the user and the lab are free.             *)
LiveFairness ==
  /\ WF_liveVars(ListServed \/ ListArrives) /\ WF_liveVars(BurstEnds)
  /\ WF_liveVars(RecountTimer \/ CountServed \/ \E n \in 0..(2 * MaxAlerts) : CountArrives(n))
  /\ WF_liveVars(Opens \/ Retries)
  /\ WF_liveVars(Changed \/ AlertEvent \/ ProgressEvent \/ CompleteEvent)

LiveSpec == LiveInit /\ [][LiveNext]_liveVars /\ LiveFairness

-----------------------------------------------------------------------------

(* A change that happens while the list is on display and the socket has    *)
(* been open is shown in the end, whatever breaks in between                 *)
(* (WebSocketProvider.tsx: resync, invalidateDebounced, sync.complete).      *)
(* Three cases are left out: the session ends (one that is lost keeps the    *)
(* cached list, and the first opening of the next session does not refetch   *)
(* it); the hub dropped the event on a socket that stays open, which is made *)
(* up for when it opens again (ws.go: deliver); and a refetch that fails.    *)
ChangesAreShown == []<>(~owed \/ "changed" \in missed)

(* The badge ends up at the number of pending alerts, although events are    *)
(* lost with a socket or dropped by the hub, none tells that an alert was    *)
(* resolved, counts fail, and one may be older than an event or a count that *)
(* came before it (syncAlertCount and its interval).                         *)
BadgeConverges == <>[](signedIn => badge = alerts)

(* The job of a sync that says when it ends does not outlast it, although    *)
(* its completion may be lost with a socket (resync: resetJobs).  Only one   *)
(* that was there at a sign-out, and one whose completion the hub dropped,   *)
(* stay until the next reconnect; so does that of a sync that ends silently, *)
(* see BarAlwaysResolves.                                                    *)
JobBarEnds ==
  <>[](signedIn /\ ~syncing /\ ~carried /\ ~silent /\ "complete" \notin missed => ~job)

(* What run.go:129-131 says of every sync: its end is broadcast "so the UI   *)
(* progress indicator always resolves".  A sync that is skipped, or cannot   *)
(* read its connector, has announced itself (run.go:109) and sends no end.   *)
BarAlwaysResolves ==
  <>[](signedIn /\ ~syncing /\ ~carried /\ "complete" \notin missed => ~job)

=============================================================================
