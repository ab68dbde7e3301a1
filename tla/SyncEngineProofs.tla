--------------------------- MODULE SyncEngineProofs ---------------------------
(***************************************************************************)
(* What the slot and the lease of a connector are good for, for any number *)
(* of connectors, processes and syncs.  The slot is held by exactly the    *)
(* sync that is at work; the lease ends after the time of the sync that    *)
(* took it, so nobody else finds the connector due meanwhile.  In one      *)
(* process the slot makes the snapshots a chain: no other sync stores one  *)
(* between the read of the newest and the transaction compared with it.    *)
(* Hence nothing that was observed is forgotten, and each change of a      *)
(* known section is reported once.                                         *)
(***************************************************************************)
EXTENDS SyncEngine, TLAPS

(* A sync at work holds the slot; from "base" to "save" it has data in hand. *)
Holding == {"sem", "exit"} \cup InTime
WithData == {"base", "window", "save"}

(* A sync that is alive has its process and its connector. *)
Assigned ==
    \A s \in Syncs : \/ sync[s] = NoSync
                     \/ /\ sync[s].pc # "none"
                        /\ sync[s].e \in Engines /\ sync[s].c \in Connectors

DataInHand == \A s \in Syncs : sync[s].pc \in WithData => sync[s].got \in Fetched

(* The slot names the sync at work, and the sync at work is in the slot. *)
SlotNames ==
    /\ \A s \in Syncs : sync[s].pc \in Holding => SlotOf(s) = s
    /\ \A e \in Engines, c \in Connectors :
          slot[e][c] # Nobody => LET s == slot[e][c] IN
             sync[s].e = e /\ sync[s].c = c /\ sync[s].pc \in Holding

SyncInv ==
    /\ sync \in [Syncs -> Sync]
    /\ slot \in [Engines -> [Connectors -> Syncs \cup {Nobody}]]
    /\ Assigned /\ DataInHand /\ SlotNames

DbTypes ==
    /\ conn \in [Connectors -> Connector]
    /\ windows \in [Connectors -> SUBSET (Nat \ {0})]
    /\ latest \in [Connectors -> Snapshot \cup {NoSnapshot}]
    /\ changes \in [Connectors -> SUBSET Sections]
    /\ docs \in [Connectors -> BOOLEAN]
    /\ docLock \in [Connectors -> BOOLEAN]
    /\ seen \in [Connectors -> [Sections -> Values \cup {Absent, "never"}]]

ProcTypes ==
    /\ listed \in [Engines -> SUBSET Connectors]
    /\ life \in [Engines -> {"down", "standby", "up", "stopping", "quiescing", "waiting"}]
    /\ baseDone \in [Engines -> BOOLEAN]
    /\ lock \in Engines \cup {Nobody}
    /\ edit \in Edit
    /\ lab \in [Connectors -> Observation]
    /\ edits \in 0 .. MaxEdits /\ stops \in 0 .. MaxStops /\ faults \in 0 .. MaxFaults

EngineInv == SyncInv /\ DbTypes /\ ProcTypes

(* A step in which every sync keeps its connector, its process and whether *)
(* it holds the slot.                                                      *)
KeepsPlace ==
    /\ sync' \in [Syncs -> Sync]
    /\ slot' = slot
    /\ \A t \in Syncs :
          /\ sync'[t].e = sync[t].e /\ sync'[t].c = sync[t].c
          /\ sync'[t].pc \in Holding <=> sync[t].pc \in Holding
          /\ sync[t] = NoSync => sync'[t] = NoSync
          /\ sync[t] # NoSync => sync'[t].pc # "none"
          /\ sync'[t].pc \in WithData => sync'[t].got \in Fetched

-----------------------------------------------------------------------------
(* Data. *)

(* What is stored is a snapshot. *)
LEMMA MergedType ==
    ASSUME NEW old \in Snapshot \cup {NoSnapshot}, NEW sn \in Fetched
    PROVE  preserveFailedSections(old, sn) \in Snapshot
<1>1. \A x \in Sections : PreviousContent(old, x) \in Values \cup {Absent, Blank}
  BY DEF PreviousContent, Snapshot, Section
<1>2. \A x \in Sections : sn[x] # Failed => sn[x] \in Values \cup {Absent, Blank}
  BY DEF Fetched
<1> QED
  BY <1>1, <1>2 DEF preserveFailedSections, Snapshot, Section

(* A next run is a number of ticks, and a retry count stays in its range. *)
LEMMA NextRunType ==
    ASSUME NEW cadence \in Cadences \cup {Manual}, NEW n \in 0 .. Len(RetryDelays),
           NEW success \in BOOLEAN
    PROVE  /\ NextRun(cadence, n, success) \in Ticks
           /\ NextRetries(n, success) \in 0 .. Len(RetryDelays)
<1>1. Len(RetryDelays) \in Nat \ {0}
  BY EngineAssumption
<1>2. NextRetries(n, success) \in 0 .. Len(RetryDelays)
  BY <1>1 DEF NextRetries, Smaller
<1>3. ~success => NextRetries(n, success) \in 1 .. Len(RetryDelays)
  BY <1>1 DEF NextRetries, Smaller
<1>4. ~success => RetryDelays[NextRetries(n, success)] \in Nat
  BY <1>3, EngineAssumption
<1>5. cadence # Manual => cadence \in Nat
  BY EngineAssumption
<1>6. NextRun(cadence, n, success) \in Ticks
  <2>1. CASE cadence = Manual
    BY <2>1 DEF NextRun, Ticks
  <2>2. CASE cadence # Manual /\ success
    BY <2>2, <1>5 DEF NextRun, Ticks
  <2>3. CASE cadence # Manual /\ ~success
    BY <2>3, <1>4, <1>5 DEF NextRun, Ticks, Smaller
  <2> QED
    BY <2>1, <2>2, <2>3
<1> QED
  BY <1>2, <1>6

(* The empty place of a goroutine has the type of one. *)
LEMMA NoSyncType == NoSync \in Sync
  BY EngineAssumption DEF NoSync, Sync, Pcs

(* A sync that only moves on, or that gives up what it fetched, is typed. *)
LEMMA GotoType ==
    ASSUME sync \in [Syncs -> Sync], NEW s \in Syncs, NEW pc \in Pcs, Goto(s, pc)
    PROVE  /\ sync' \in [Syncs -> Sync]
           /\ sync' = [sync EXCEPT ![s] = sync'[s]]
           /\ \A t \in Syncs \ {s} : sync'[t] = sync[t]
           /\ sync'[s].pc = pc /\ sync'[s].e = sync[s].e /\ sync'[s].c = sync[s].c
           /\ sync'[s].got = sync[s].got /\ sync'[s].base = sync[s].base
           /\ sync'[s].kind = sync[s].kind /\ sync'[s].leased = sync[s].leased
           /\ sync'[s].left = sync[s].left /\ sync'[s].outcome = sync[s].outcome
           /\ sync'[s].saved = sync[s].saved
<1>1. [sync[s] EXCEPT !.pc = pc] \in Sync
  BY DEF Sync
<1>2. sync'[s] = [sync[s] EXCEPT !.pc = pc] /\ sync' = [sync EXCEPT ![s] = sync'[s]]
  BY DEF Goto
<1>3. sync' \in [Syncs -> Sync] /\ \A t \in Syncs \ {s} : sync'[t] = sync[t]
  BY <1>1, <1>2
<1>4. /\ sync'[s].pc = pc /\ sync'[s].e = sync[s].e /\ sync'[s].c = sync[s].c
      /\ sync'[s].got = sync[s].got /\ sync'[s].base = sync[s].base
  BY <1>2 DEF Sync
<1>5. /\ sync'[s].kind = sync[s].kind /\ sync'[s].leased = sync[s].leased
      /\ sync'[s].left = sync[s].left /\ sync'[s].outcome = sync[s].outcome
      /\ sync'[s].saved = sync[s].saved
  BY <1>2 DEF Sync
<1> QED
  BY <1>2, <1>3, <1>4, <1>5

Outcomes == {"none", "success", "error", "skipped"}

LEMMA FinishedRecord ==
    ASSUME NEW x \in Sync, NEW pc \in Pcs, NEW saved \in BOOLEAN,
           NEW outcome \in {"none", "success", "error", "skipped"}
    PROVE  [x EXCEPT !.pc = pc, !.outcome = outcome, !.saved = saved] \in Sync
  BY DEF Sync

LEMMA ToFinishType ==
    ASSUME sync \in [Syncs -> Sync], NEW s \in Syncs, NEW outcome \in Outcomes,
           NEW saved \in BOOLEAN, ToFinish(s, outcome, saved)
    PROVE  /\ sync' \in [Syncs -> Sync]
           /\ sync' = [sync EXCEPT ![s] = sync'[s]]
           /\ sync'[s].pc = "finish" /\ sync'[s].e = sync[s].e /\ sync'[s].c = sync[s].c
           /\ sync'[s].saved = saved /\ sync'[s].outcome = outcome
           /\ sync'[s].kind = sync[s].kind /\ sync'[s].leased = sync[s].leased
           /\ sync'[s].left = sync[s].left
<1> DEFINE r == [sync[s] EXCEPT !.pc = "finish", !.outcome = outcome, !.saved = saved,
                                !.got = NoSnapshot, !.base = NoSnapshot, !.muted = FALSE]
<1>1. "finish" \in Pcs
  BY DEF Pcs
<1>2. r = [[sync[s] EXCEPT !.pc = "finish", !.outcome = outcome, !.saved = saved]
             EXCEPT !.got = NoSnapshot, !.base = NoSnapshot, !.muted = FALSE]
  BY DEF Sync
<1>3. r \in Sync
  <2>1. [sync[s] EXCEPT !.pc = "finish", !.outcome = outcome, !.saved = saved] \in Sync
    BY <1>1, FinishedRecord DEF Outcomes
  <2>2. \A y \in Sync : [y EXCEPT !.got = NoSnapshot, !.base = NoSnapshot, !.muted = FALSE] \in Sync
    BY DEF Sync
  <2> QED
    BY <1>2, <2>1, <2>2
<1>4. sync' = [sync EXCEPT ![s] = r]
  BY DEF ToFinish
<1>5. r.pc = "finish" /\ r.e = sync[s].e /\ r.c = sync[s].c /\ r.saved = saved
  BY DEF Sync
<1>6. /\ r.outcome = outcome /\ r.kind = sync[s].kind /\ r.leased = sync[s].leased
      /\ r.left = sync[s].left
  BY DEF Sync
<1> HIDE DEF r
<1> QED
  BY <1>3, <1>4, <1>5, <1>6

-----------------------------------------------------------------------------
(* Syncs and slots. *)

(* A step that keeps the places keeps the invariant of syncs and slots. *)
LEMMA PlacesKept == SyncInv /\ KeepsPlace => SyncInv'
<1> SUFFICES ASSUME SyncInv, KeepsPlace PROVE SyncInv'
  OBVIOUS
<1> USE DEF SyncInv, KeepsPlace
<1>1. Assigned'
  BY DEF Assigned
<1>2. DataInHand'
  BY DEF DataInHand
<1>3. \A s \in Syncs : sync'[s].pc \in Holding => slot'[sync'[s].e][sync'[s].c] = s
  BY DEF SlotNames, SlotOf
<1>4. \A e \in Engines, c \in Connectors :
        slot'[e][c] # Nobody => LET s == slot'[e][c] IN
             sync'[s].e = e /\ sync'[s].c = c /\ sync'[s].pc \in Holding
  BY DEF SlotNames
<1>5. SlotNames'
  BY <1>3, <1>4 DEF SlotNames, SlotOf
<1> QED
  BY <1>1, <1>2, <1>5

(* A sync at work that moves on keeps its place. *)
LEMMA StepKeepsPlace ==
    ASSUME SyncInv, NEW s \in Syncs, sync[s].pc \in Holding, slot' = slot,
           sync' = [sync EXCEPT ![s] = sync'[s]], sync'[s] \in Sync,
           sync'[s].e = sync[s].e, sync'[s].c = sync[s].c, sync'[s].pc \in Holding,
           sync'[s].pc \in WithData => sync'[s].got \in Fetched
    PROVE  KeepsPlace
<1>1. sync[s] # NoSync
  BY DEF Holding, InTime, NoSync
<1>2. sync'[s].pc # "none"
  BY DEF Holding, InTime
<1>3. \A t \in Syncs \ {s} : sync'[t] = sync[t]
  BY DEF SyncInv
<1>4. \A t \in Syncs \ {s} : sync[t] # NoSync => sync[t].pc # "none"
  BY DEF SyncInv, Assigned
<1>5. \A t \in Syncs \ {s} : sync[t].pc \in WithData => sync[t].got \in Fetched
  BY DEF SyncInv, DataInHand
<1>6. sync' \in [Syncs -> Sync]
  BY DEF SyncInv
<1> QED
  BY <1>1, <1>2, <1>3, <1>4, <1>5, <1>6 DEF KeepsPlace

(* A new goroutine waits before the slot. *)
LEMMA StartInv ==
    ASSUME SyncInv, NEW s \in Syncs, NEW e \in Engines, NEW c \in Connectors,
           NEW kind \in {"manual", "fields", "own", "scheduled"}, Start(s, e, c, kind), slot' = slot
    PROVE  SyncInv'
<1> DEFINE r == [NoSync EXCEPT !.pc = "claim", !.e = e, !.c = c, !.kind = kind, !.left = Timeout]
<1>1. sync[s] = NoSync /\ sync' = [sync EXCEPT ![s] = r]
  BY DEF Start
<1>2. r \in Sync /\ r.pc = "claim" /\ r.e = e /\ r.c = c
  <2>1. Timeout \in 0 .. Timeout /\ "claim" \in Pcs
    BY EngineAssumption DEF Pcs
  <2>2. r \in Sync
    BY <2>1, NoSyncType DEF Sync
  <2>3. r.pc = "claim" /\ r.e = e /\ r.c = c
    BY DEF NoSync
  <2> QED
    BY <2>2, <2>3
<1> HIDE DEF r
<1>3. sync' \in [Syncs -> Sync] /\ sync'[s] = r /\ \A t \in Syncs \ {s} : sync'[t] = sync[t]
  BY <1>1, <1>2 DEF SyncInv
<1>4. "claim" \notin Holding /\ "claim" \notin WithData /\ "none" \notin Holding
  BY DEF Holding, InTime, WithData
<1>5. Assigned' /\ DataInHand'
  BY <1>2, <1>3, <1>4 DEF SyncInv, Assigned, DataInHand
<1>6. sync[s].pc \notin Holding
  BY <1>1, <1>4 DEF NoSync
<1>7. \A d \in Engines, k \in Connectors : slot[d][k] # s
  BY <1>6, EngineAssumption DEF SyncInv, SlotNames
<1>8. SlotNames'
  BY <1>2, <1>3, <1>4, <1>7 DEF SyncInv, SlotNames, SlotOf
<1> QED
  BY <1>3, <1>5, <1>8 DEF SyncInv

(* The slot is claimed when it is free, ... *)
LEMMA ClaimInv ==
    ASSUME SyncInv, NEW s \in Syncs, Claim(s)
    PROVE  SyncInv'
<1> DEFINE e == sync[s].e  c == sync[s].c
<1>1. sync[s].pc = "claim" /\ e \in Engines /\ c \in Connectors /\ slot[e][c] = Nobody
  BY DEF Claim, SyncInv, Assigned, NoSync, SlotOf
<1>2. /\ sync' \in [Syncs -> Sync] /\ sync'[s].pc = "sem"
      /\ sync'[s].e = e /\ sync'[s].c = c
      /\ \A t \in Syncs \ {s} : sync'[t] = sync[t]
  BY GotoType DEF Claim, SyncInv, Pcs
<1>3. /\ slot' \in [Engines -> [Connectors -> Syncs \cup {Nobody}]]
      /\ slot'[e][c] = s
      /\ \A d \in Engines, k \in Connectors : d # e \/ k # c => slot'[d][k] = slot[d][k]
  BY <1>1 DEF Claim, SyncInv
<1>4. sync'[s] # NoSync /\ "sem" \in Holding /\ "sem" \notin WithData /\ "claim" \notin Holding
  BY <1>2 DEF NoSync, Holding, InTime, WithData
<1> HIDE DEF e, c
<1>5. Assigned' /\ DataInHand'
  BY <1>1, <1>2, <1>4 DEF SyncInv, Assigned, DataInHand
<1>6. \A t \in Syncs \ {s} : sync[t].pc \in Holding => sync[t].e # e \/ sync[t].c # c
  BY <1>1, EngineAssumption DEF SyncInv, SlotNames, SlotOf
<1>7. \A t \in Syncs : sync[t].pc \in Holding => sync[t].e \in Engines /\ sync[t].c \in Connectors
  BY DEF SyncInv, Assigned, NoSync, Holding, InTime
<1>8. \A t \in Syncs : sync'[t].pc \in Holding => slot'[sync'[t].e][sync'[t].c] = t
  BY SMTT(20), <1>2, <1>3, <1>6, <1>7 DEF SyncInv, SlotNames, SlotOf
<1>9. \A d \in Engines, k \in Connectors : slot[d][k] # s
  BY <1>1, <1>4, EngineAssumption DEF SyncInv, SlotNames
<1>10. \A d \in Engines, k \in Connectors :
         slot'[d][k] # Nobody => LET t == slot'[d][k] IN
             sync'[t].e = d /\ sync'[t].c = k /\ sync'[t].pc \in Holding
  <2> SUFFICES ASSUME NEW d \in Engines, NEW k \in Connectors, slot'[d][k] # Nobody
               PROVE  LET t == slot'[d][k] IN
                        sync'[t].e = d /\ sync'[t].c = k /\ sync'[t].pc \in Holding
    OBVIOUS
  <2>1. CASE d = e /\ k = c
    BY <2>1, <1>2, <1>3, <1>4
  <2>2. CASE ~(d = e /\ k = c)
    <3>1. slot'[d][k] = slot[d][k] /\ slot[d][k] \in Syncs \ {s}
      BY <2>2, <1>3, <1>9 DEF SyncInv
    <3> QED
      BY <3>1, <1>2 DEF SyncInv, SlotNames
  <2> QED
    BY <2>1, <2>2
<1>11. SlotNames'
  BY <1>8, <1>10 DEF SlotNames, SlotOf
<1> QED
  BY <1>2, <1>3, <1>5, <1>11 DEF SyncInv

(* ... a sync that is turned away never had it, ... *)
LEMMA TurnAwayInv ==
    ASSUME SyncInv, NEW s \in Syncs, TurnAway(s)
    PROVE  SyncInv'
<1>1. /\ sync' \in [Syncs -> Sync] /\ sync'[s] = NoSync /\ slot' = slot
      /\ \A t \in Syncs \ {s} : sync'[t] = sync[t]
  BY NoSyncType DEF TurnAway, SyncInv
<1>2. "claim" \notin Holding /\ NoSync.pc \notin Holding \cup WithData
  BY DEF Holding, InTime, WithData, NoSync
<1>3. Assigned' /\ DataInHand'
  BY <1>1, <1>2 DEF SyncInv, Assigned, DataInHand
<1>4. \A d \in Engines, k \in Connectors : slot[d][k] # s
  BY <1>2, EngineAssumption DEF TurnAway, SyncInv, SlotNames
<1>5. SlotNames'
  BY <1>1, <1>2, <1>4 DEF SyncInv, SlotNames, SlotOf
<1> QED
  BY <1>1, <1>3, <1>5 DEF SyncInv

(* ... and it is freed by the sync that holds it. *)
LEMMA ExitInv ==
    ASSUME SyncInv, NEW s \in Syncs, Exit(s)
    PROVE  SyncInv'
<1> DEFINE e == sync[s].e  c == sync[s].c
<1>1. sync[s].pc = "exit" /\ "exit" \in Holding /\ e \in Engines /\ c \in Connectors
  BY DEF Exit, SyncInv, Assigned, NoSync, Holding
<1>2. slot[e][c] = s
  BY <1>1 DEF SyncInv, SlotNames, SlotOf
<1>3. /\ sync' \in [Syncs -> Sync] /\ sync'[s] = NoSync
      /\ \A t \in Syncs \ {s} : sync'[t] = sync[t]
  BY NoSyncType DEF Exit, SyncInv
<1>4. /\ slot' \in [Engines -> [Connectors -> Syncs \cup {Nobody}]]
      /\ slot'[e][c] = Nobody
      /\ \A d \in Engines, k \in Connectors : d # e \/ k # c => slot'[d][k] = slot[d][k]
  BY <1>1 DEF Exit, SyncInv
<1>5. NoSync.pc \notin Holding \cup WithData
  BY DEF Holding, InTime, WithData, NoSync
<1> HIDE DEF e, c
<1>6. Assigned' /\ DataInHand'
  BY <1>3, <1>5 DEF SyncInv, Assigned, DataInHand
<1>7. \A t \in Syncs : sync[t].pc \in Holding => sync[t].e \in Engines /\ sync[t].c \in Connectors
  BY DEF SyncInv, Assigned, NoSync, Holding, InTime
<1>8. \A t \in Syncs \ {s} : sync[t].pc \in Holding => sync[t].e # e \/ sync[t].c # c
  BY <1>2 DEF SyncInv, SlotNames, SlotOf
<1>9. \A t \in Syncs : sync'[t].pc \in Holding => slot'[sync'[t].e][sync'[t].c] = t
  BY <1>3, <1>4, <1>5, <1>7, <1>8 DEF SyncInv, SlotNames, SlotOf
<1>10. \A d \in Engines, k \in Connectors :
         slot'[d][k] # Nobody => LET t == slot'[d][k] IN
             sync'[t].e = d /\ sync'[t].c = k /\ sync'[t].pc \in Holding
  <2> SUFFICES ASSUME NEW d \in Engines, NEW k \in Connectors, slot'[d][k] # Nobody
               PROVE  LET t == slot'[d][k] IN
                        sync'[t].e = d /\ sync'[t].c = k /\ sync'[t].pc \in Holding
    OBVIOUS
  <2>1. d # e \/ k # c
    BY <1>4
  <2>2. slot'[d][k] = slot[d][k] /\ slot[d][k] \in Syncs
    BY <2>1, <1>4 DEF SyncInv
  <2>3. slot[d][k] # s
    BY <2>1, <2>2 DEF SyncInv, SlotNames, e, c
  <2> QED
    BY <2>2, <2>3, <1>3 DEF SyncInv, SlotNames
<1>11. SlotNames'
  BY <1>9, <1>10 DEF SlotNames, SlotOf
<1> QED
  BY <1>3, <1>4, <1>6, <1>11 DEF SyncInv

(* A process that ends takes its syncs and its slots with it. *)
LEMMA KillInv ==
    ASSUME SyncInv, NEW e \in Engines, Kill(e)
    PROVE  SyncInv'
<1>1. /\ sync' \in [Syncs -> Sync]
      /\ \A t \in Syncs : sync'[t] = IF sync[t].e = e THEN NoSync ELSE sync[t]
  BY NoSyncType DEF Kill, SyncInv
<1>2. /\ slot' \in [Engines -> [Connectors -> Syncs \cup {Nobody}]]
      /\ \A d \in Engines, k \in Connectors : slot'[d][k] = IF d = e THEN Nobody ELSE slot[d][k]
  BY DEF Kill, SyncInv
<1>3. NoSync.pc \notin Holding \cup WithData
  BY DEF Holding, InTime, WithData, NoSync
<1>4. Assigned' /\ DataInHand'
  BY <1>1, <1>3 DEF SyncInv, Assigned, DataInHand
<1>5. \A t \in Syncs : sync[t].pc \in Holding => sync[t].e \in Engines /\ sync[t].c \in Connectors
  BY DEF SyncInv, Assigned, NoSync, Holding, InTime
<1>6. \A t \in Syncs : sync'[t].pc \in Holding => slot'[sync'[t].e][sync'[t].c] = t
  BY <1>1, <1>2, <1>3, <1>5 DEF SyncInv, SlotNames, SlotOf
<1>7. \A d \in Engines, k \in Connectors :
         slot'[d][k] # Nobody => LET t == slot'[d][k] IN
             sync'[t].e = d /\ sync'[t].c = k /\ sync'[t].pc \in Holding
  BY <1>1, <1>2 DEF SyncInv, SlotNames
<1>8. SlotNames'
  BY <1>6, <1>7 DEF SlotNames, SlotOf
<1> QED
  BY <1>1, <1>2, <1>4, <1>8 DEF SyncInv

-----------------------------------------------------------------------------
(* Steps of a sync at work. *)

LEMMA GotoKeeps ==
    ASSUME SyncInv, NEW s \in Syncs, sync[s].pc \in Holding, slot' = slot,
           NEW pc \in Pcs \cap Holding, Goto(s, pc), pc \in WithData => sync[s].pc \in WithData
    PROVE  KeepsPlace
<1>1. pc \in WithData => sync[s].got \in Fetched
  BY DEF SyncInv, DataInHand
<1> QED
  BY <1>1, GotoType, StepKeepsPlace DEF SyncInv

LEMMA ToFinishKeeps ==
    ASSUME SyncInv, NEW s \in Syncs, sync[s].pc \in Holding, slot' = slot,
           NEW outcome \in Outcomes, NEW saved \in BOOLEAN, ToFinish(s, outcome, saved)
    PROVE  KeepsPlace
<1>1. "finish" \in Holding /\ "finish" \notin WithData
  BY DEF Holding, InTime, WithData
<1> QED
  BY <1>1, ToFinishType, StepKeepsPlace DEF SyncInv

LEMMA ReadRowKeeps ==
    ASSUME SyncInv, DbTypes, NEW s \in Syncs, sync[s].pc \in {"read", "creds"}, slot' = slot,
           NEW pc \in {"creds", "fetch"}, ReadRow(s, pc)
    PROVE  KeepsPlace
<1> DEFINE row == conn[sync[s].c]
           r == [sync[s] EXCEPT !.pc = pc, !.cadence = row.cadence, !.retries = row.retries]
<1>1. sync[s] \in Sync /\ row \in Connector
  BY DEF SyncInv, DbTypes, Assigned, NoSync
<1>2. row.cadence \in Cadences \cup {Manual} /\ row.retries \in 0 .. Len(RetryDelays)
  BY <1>1 DEF Connector
<1>3. pc \in Pcs /\ pc \in Holding /\ pc \notin WithData /\ sync[s].pc \in Holding
  BY DEF Pcs, Holding, InTime, WithData
<1>4. r \in Sync /\ r.pc = pc /\ r.e = sync[s].e /\ r.c = sync[s].c
  <2>1. r \in Sync
    BY <1>1, <1>2, <1>3 DEF Sync
  <2>2. r.pc = pc /\ r.e = sync[s].e /\ r.c = sync[s].c
    BY <1>1 DEF Sync
  <2> QED
    BY <2>1, <2>2
<1>5. sync' = [sync EXCEPT ![s] = r]
  BY DEF ReadRow
<1> HIDE DEF r
<1>6. sync'[s] = r
  BY <1>5 DEF SyncInv
<1> QED
  BY <1>3, <1>4, <1>5, <1>6, StepKeepsPlace

(* The other single changes of a sync at work. *)
LEMMA OneFieldKeeps ==
    ASSUME SyncInv, DbTypes, NEW s \in Syncs, slot' = slot,
           \/ /\ sync[s].pc = "lease"
              /\ sync' = [sync EXCEPT ![s].pc = "read", ![s].leased = TRUE]
           \/ /\ sync[s].pc = "fetch"
              /\ \E sn \in Fetched : sync' = [sync EXCEPT ![s].pc = "base", ![s].got = sn]
           \/ /\ sync[s].pc = "base"
              /\ sync' = [sync EXCEPT ![s].pc = "window", ![s].base = latest[sync[s].c]]
           \/ /\ sync[s].pc = "window"
              /\ \E muted \in BOOLEAN : sync' = [sync EXCEPT ![s].pc = "save", ![s].muted = muted]
    PROVE  KeepsPlace
<1>1. sync[s] \in Sync
  BY DEF SyncInv
<1>2. {"read", "base", "window", "save"} \subseteq Pcs \cap Holding /\ "read" \notin WithData
  BY DEF Pcs, Holding, InTime, WithData
<1>3. sync[s].pc \in Holding
  BY DEF Holding, InTime
<1>4. CASE sync' = [sync EXCEPT ![s].pc = "read", ![s].leased = TRUE]
  <2>1. \A b \in BOOLEAN : [sync[s] EXCEPT !.pc = "read", !.leased = b] \in Sync
    BY <1>1, <1>2 DEF Sync
  <2>2. sync'[s] = [sync[s] EXCEPT !.pc = "read", !.leased = TRUE]
        /\ sync' = [sync EXCEPT ![s] = sync'[s]]
    BY <1>4 DEF SyncInv
  <2>3. sync'[s].pc = "read" /\ sync'[s].e = sync[s].e /\ sync'[s].c = sync[s].c
    BY <1>1, <2>2 DEF Sync
  <2> QED
    BY <1>2, <1>3, <2>1, <2>2, <2>3, StepKeepsPlace
<1>5. CASE \E sn \in Fetched : sync' = [sync EXCEPT ![s].pc = "base", ![s].got = sn]
  <2>1. PICK sn \in Fetched : sync' = [sync EXCEPT ![s].pc = "base", ![s].got = sn]
    BY <1>5
  <2>2. [sync[s] EXCEPT !.pc = "base", !.got = sn] \in Sync
    BY <1>1, <1>2 DEF Sync
  <2>3. sync'[s] = [sync[s] EXCEPT !.pc = "base", !.got = sn]
        /\ sync' = [sync EXCEPT ![s] = sync'[s]]
    BY <2>1 DEF SyncInv
  <2>4. sync'[s].pc = "base" /\ sync'[s].e = sync[s].e /\ sync'[s].c = sync[s].c
        /\ sync'[s].got = sn
    BY <1>1, <2>3 DEF Sync
  <2> QED
    BY <1>2, <1>3, <2>2, <2>3, <2>4, StepKeepsPlace
<1>6. CASE /\ sync[s].pc = "base"
           /\ sync' = [sync EXCEPT ![s].pc = "window", ![s].base = latest[sync[s].c]]
  <2>1. latest[sync[s].c] \in Snapshot \cup {NoSnapshot}
    BY <1>6 DEF SyncInv, DbTypes, Assigned, NoSync
  <2>2. [sync[s] EXCEPT !.pc = "window", !.base = latest[sync[s].c]] \in Sync
    BY <1>1, <1>2, <2>1 DEF Sync
  <2>3. sync'[s] = [sync[s] EXCEPT !.pc = "window", !.base = latest[sync[s].c]]
        /\ sync' = [sync EXCEPT ![s] = sync'[s]]
    BY <1>6 DEF SyncInv
  <2>4. sync'[s].pc = "window" /\ sync'[s].e = sync[s].e /\ sync'[s].c = sync[s].c
        /\ sync'[s].got = sync[s].got
    BY <1>1, <2>3 DEF Sync
  <2>5. sync[s].got \in Fetched
    BY <1>6 DEF SyncInv, DataInHand, WithData
  <2> QED
    BY <1>2, <1>3, <2>2, <2>3, <2>4, <2>5, StepKeepsPlace
<1>7. CASE /\ sync[s].pc = "window"
           /\ \E muted \in BOOLEAN : sync' = [sync EXCEPT ![s].pc = "save", ![s].muted = muted]
  <2>1. PICK muted \in BOOLEAN : sync' = [sync EXCEPT ![s].pc = "save", ![s].muted = muted]
    BY <1>7
  <2>2. [sync[s] EXCEPT !.pc = "save", !.muted = muted] \in Sync
    <3>1. \A x \in Sync, b \in BOOLEAN : [x EXCEPT !.pc = "save", !.muted = b] \in Sync
      BY DEF Sync, Pcs
    <3> QED
      BY <1>1, <2>1, <3>1
  <2>3. sync'[s] = [sync[s] EXCEPT !.pc = "save", !.muted = muted]
        /\ sync' = [sync EXCEPT ![s] = sync'[s]]
    BY <2>1 DEF SyncInv
  <2>4. sync'[s].pc = "save" /\ sync'[s].e = sync[s].e /\ sync'[s].c = sync[s].c
        /\ sync'[s].got = sync[s].got
    BY <1>1, <2>3 DEF Sync
  <2>5. sync[s].got \in Fetched
    BY <1>7 DEF SyncInv, DataInHand, WithData
  <2> QED
    BY <1>2, <1>3, <2>2, <2>3, <2>4, <2>5, StepKeepsPlace
<1> QED
  BY <1>4, <1>5, <1>6, <1>7

(* Every step between the slot's claim and its release keeps the place. *)
LEMMA WorkKeeps ==
    ASSUME SyncInv, DbTypes, NEW s \in Syncs,
           \/ Acquire(s) \/ TakeLease(s) \/ Read(s) \/ Credentials(s) \/ Fetch(s)
           \/ ReadBase(s) \/ ReadWindow(s) \/ Save(s) \/ Regenerate(s)
    PROVE  KeepsPlace
<1>1. slot' = slot
  BY DEF Acquire, TakeLease, Read, Credentials, Fetch, ReadBase, ReadWindow, Save, Regenerate
<1>2. /\ {"lease", "read", "exit", "fetch"} \subseteq Pcs \cap Holding
      /\ {"lease", "read", "exit", "fetch"} \cap WithData = {}
  BY DEF Pcs, Holding, InTime, WithData
<1>3. {"sem", "lease", "read", "creds", "fetch", "base", "window", "save", "docs"} \subseteq Holding
  BY DEF Holding, InTime
<1>4. \A sn : Outcome(sn) \in Outcomes
  BY DEF Outcome, Outcomes
<1>5. {"none", "success", "error", "skipped"} \subseteq Outcomes /\ {TRUE, FALSE} \subseteq BOOLEAN
  BY DEF Outcomes
<1>6. CASE Acquire(s)
  BY <1>1, <1>2, <1>3, <1>6, GotoKeeps DEF Acquire
<1>7. CASE TakeLease(s)
  BY <1>1, <1>2, <1>3, <1>7, GotoKeeps, OneFieldKeeps DEF TakeLease
<1>8. CASE Read(s)
  BY <1>1, <1>2, <1>3, <1>5, <1>8, GotoKeeps, ReadRowKeeps, ToFinishKeeps DEF Read
<1>9. CASE Credentials(s)
  BY <1>1, <1>2, <1>3, <1>5, <1>9, GotoKeeps, ReadRowKeeps, ToFinishKeeps DEF Credentials
<1>10. CASE Fetch(s)
  BY <1>1, <1>3, <1>4, <1>5, <1>10, OneFieldKeeps, ToFinishKeeps DEF Fetch
<1>11. CASE ReadBase(s)
  BY <1>1, <1>3, <1>4, <1>5, <1>11, OneFieldKeeps, ToFinishKeeps DEF ReadBase
<1>12. CASE ReadWindow(s)
  BY <1>1, <1>12, OneFieldKeeps DEF ReadWindow
<1>13. CASE Save(s)
  BY <1>1, <1>3, <1>4, <1>5, <1>13, ToFinishKeeps DEF Save
<1>14. CASE Regenerate(s)
  BY <1>1, <1>2, <1>3, <1>14, GotoKeeps DEF Regenerate
<1> QED
  BY <1>6, <1>7, <1>8, <1>9, <1>10, <1>11, <1>12, <1>13, <1>14

-----------------------------------------------------------------------------
(* Steps that are not a sync's own. *)

(* What such a step leaves of a sync: all but its time, its lease and      *)
(* whether it was cancelled.                                               *)
Same(t) ==
    /\ sync'[t].pc = sync[t].pc /\ sync'[t].e = sync[t].e /\ sync'[t].c = sync[t].c
    /\ sync'[t].kind = sync[t].kind /\ sync'[t].got = sync[t].got /\ sync'[t].base = sync[t].base
    /\ sync'[t].outcome = sync[t].outcome /\ sync'[t].saved = sync[t].saved
    /\ sync'[t].muted = sync[t].muted

LEMMA SameKeeps ==
    ASSUME SyncInv, slot' = slot, sync' \in [Syncs -> Sync],
           \A t \in Syncs : Same(t) /\ (sync[t] = NoSync => sync'[t] = NoSync)
    PROVE  KeepsPlace
<1>1. \A t \in Syncs : sync[t] # NoSync => sync[t].pc # "none"
  BY DEF SyncInv, Assigned
<1>2. \A t \in Syncs : sync[t].pc \in WithData => sync[t].got \in Fetched
  BY DEF SyncInv, DataInHand
<1> QED
  BY <1>1, <1>2 DEF KeepsPlace, Same

LEMMA FlagType ==
    ASSUME NEW x \in Sync, NEW b \in BOOLEAN
    PROVE  [x EXCEPT !.leased = b] \in Sync /\ [x EXCEPT !.cancelled = b] \in Sync
  BY DEF Sync

(* Taking a connector's leases away changes nothing else. *)
LEMMA UnleasedType ==
    ASSUME NEW f \in [Syncs -> Sync], NEW c
    PROVE  /\ Unleased(c, f) \in [Syncs -> Sync]
           /\ \A t \in Syncs :
                /\ LET u == Unleased(c, f)[t] IN
                   /\ u.pc = f[t].pc /\ u.e = f[t].e /\ u.c = f[t].c /\ u.kind = f[t].kind
                   /\ u.got = f[t].got /\ u.base = f[t].base /\ u.outcome = f[t].outcome
                   /\ u.saved = f[t].saved /\ u.muted = f[t].muted /\ u.left = f[t].left
                   /\ u.leased = (f[t].leased /\ f[t].c # c)
                /\ f[t] = NoSync => Unleased(c, f)[t] = NoSync
<1> DEFINE u(t) == [f[t] EXCEPT !.leased = FALSE]
<1>1. \A t \in Syncs : Unleased(c, f)[t] = IF f[t].c = c THEN u(t) ELSE f[t]
  BY DEF Unleased
<1>2. \A t \in Syncs : u(t) \in Sync
  BY FlagType
<1>3. \A t \in Syncs :
        /\ u(t).pc = f[t].pc /\ u(t).e = f[t].e /\ u(t).c = f[t].c /\ u(t).kind = f[t].kind
        /\ u(t).got = f[t].got /\ u(t).base = f[t].base /\ u(t).outcome = f[t].outcome
        /\ u(t).saved = f[t].saved /\ u(t).muted = f[t].muted /\ u(t).left = f[t].left
        /\ u(t).leased = FALSE
  BY DEF Sync
<1>4. \A t \in Syncs : f[t] = NoSync => u(t) = NoSync
  <2>1. \A x \in Sync : [x EXCEPT !.leased = x.leased] = x
    BY DEF Sync
  <2>2. NoSync.leased = FALSE
    BY DEF NoSync
  <2>3. [NoSync EXCEPT !.leased = FALSE] = NoSync
    BY <2>1, <2>2, NoSyncType
  <2> QED BY <2>3
<1>5. \A t \in Syncs : f[t].leased \in BOOLEAN
  BY DEF Sync
<1>6. Unleased(c, f) \in [Syncs -> Sync]
  <2> HIDE DEF u
  <2> QED BY <1>1, <1>2 DEF Unleased
<1> HIDE DEF u
<1>7. ASSUME NEW t \in Syncs
      PROVE  /\ LET v == Unleased(c, f)[t] IN
                /\ v.pc = f[t].pc /\ v.e = f[t].e /\ v.c = f[t].c /\ v.kind = f[t].kind
                /\ v.got = f[t].got /\ v.base = f[t].base /\ v.outcome = f[t].outcome
                /\ v.saved = f[t].saved /\ v.muted = f[t].muted /\ v.left = f[t].left
                /\ v.leased = (f[t].leased /\ f[t].c # c)
             /\ f[t] = NoSync => Unleased(c, f)[t] = NoSync
  <2>1. CASE f[t].c = c
    <3>1. Unleased(c, f)[t] = u(t)
      BY <2>1, <1>1
    <3>2. u(t).leased = (f[t].leased /\ f[t].c # c)
      BY <2>1, <1>3
    <3>3. /\ u(t).pc = f[t].pc /\ u(t).e = f[t].e /\ u(t).c = f[t].c /\ u(t).kind = f[t].kind
          /\ u(t).got = f[t].got /\ u(t).base = f[t].base /\ u(t).outcome = f[t].outcome
          /\ u(t).saved = f[t].saved /\ u(t).muted = f[t].muted /\ u(t).left = f[t].left
      BY <1>3
    <3>4. f[t] = NoSync => u(t) = NoSync
      BY <1>4
    <3> QED BY <3>1, <3>2, <3>3, <3>4
  <2>2. CASE f[t].c # c
    BY <2>2, <1>1, <1>5
  <2> QED BY <2>1, <2>2
<1> QED BY <1>6, <1>7

LEMMA TickSame ==
    ASSUME SyncInv, Tick
    PROVE  /\ sync' \in [Syncs -> Sync]
           /\ \A t \in Syncs :
                /\ Same(t) /\ sync'[t].leased = sync[t].leased
                /\ sync'[t].left = IF sync[t].pc \in InTime THEN sync[t].left - 1 ELSE sync[t].left
                /\ sync[t] = NoSync => sync'[t] = NoSync
<1> DEFINE u(t) == [sync[t] EXCEPT !.left = @ - 1]
<1>1. \A t \in Syncs : sync'[t] = IF sync[t].pc \in InTime THEN u(t) ELSE sync[t]
  BY DEF Tick
<1>2. \A t \in Syncs : sync[t].pc \in InTime => u(t) \in Sync
  <2> SUFFICES ASSUME NEW t \in Syncs, sync[t].pc \in InTime PROVE u(t) \in Sync
    OBVIOUS
  <2>1. sync[t] \in Sync /\ sync[t].left > 0
    BY DEF Tick, SyncInv
  <2>2. sync[t].left - 1 \in 0 .. Timeout
    BY <2>1, EngineAssumption DEF Sync
  <2> QED BY <2>1, <2>2 DEF Sync
<1>3. \A t \in Syncs :
        /\ u(t).pc = sync[t].pc /\ u(t).e = sync[t].e /\ u(t).c = sync[t].c
        /\ u(t).kind = sync[t].kind /\ u(t).got = sync[t].got /\ u(t).base = sync[t].base
        /\ u(t).outcome = sync[t].outcome /\ u(t).saved = sync[t].saved
        /\ u(t).muted = sync[t].muted /\ u(t).left = sync[t].left - 1
        /\ u(t).leased = sync[t].leased
  BY DEF SyncInv, Sync
<1>4. \A t \in Syncs : sync[t] = NoSync => sync[t].pc \notin InTime
  BY DEF NoSync, InTime
<1> HIDE DEF u
<1>5. sync' \in [Syncs -> Sync]
  <2>1. \A t \in Syncs : sync'[t] \in Sync
    BY <1>1, <1>2 DEF SyncInv
  <2> QED BY <2>1 DEF Tick
<1> QED
  BY <1>1, <1>3, <1>4, <1>5 DEF Same

LEMMA CancelSame ==
    ASSUME SyncInv, NEW s \in Syncs, CancelRun(s)
    PROVE  /\ sync' \in [Syncs -> Sync]
           /\ \A t \in Syncs :
                /\ Same(t) /\ sync'[t].leased = sync[t].leased
                /\ sync'[t].left = sync[t].left
                /\ sync[t] = NoSync => sync'[t] = NoSync
<1> DEFINE u == [sync[s] EXCEPT !.cancelled = TRUE]
<1>1. sync' = [sync EXCEPT ![s] = u]
  BY DEF CancelRun
<1>2. u \in Sync
  BY FlagType DEF SyncInv
<1>3. /\ u.pc = sync[s].pc /\ u.e = sync[s].e /\ u.c = sync[s].c
      /\ u.kind = sync[s].kind /\ u.got = sync[s].got /\ u.base = sync[s].base
      /\ u.outcome = sync[s].outcome /\ u.saved = sync[s].saved
      /\ u.muted = sync[s].muted /\ u.left = sync[s].left /\ u.leased = sync[s].leased
  BY DEF SyncInv, Sync
<1>4. sync[s] # NoSync
  BY DEF CancelRun, NoSync
<1> HIDE DEF u
<1> QED
  BY <1>1, <1>2, <1>3, <1>4 DEF Same, SyncInv

(* The end of a sync: it goes on to the documents after a stored success,  *)
(* and with the next run it writes over, every lease of its connector ends.*)
LEMMA FinishFacts ==
    ASSUME SyncInv, NEW s \in Syncs, Finish(s)
    PROVE  /\ sync' \in [Syncs -> Sync]
           /\ sync'[s].pc = IF sync[s].outcome = "success" /\ sync[s].saved THEN "docs" ELSE "exit"
           /\ sync'[s].e = sync[s].e /\ sync'[s].c = sync[s].c /\ sync'[s].kind = sync[s].kind
           /\ sync'[s].outcome = sync[s].outcome /\ sync'[s].saved = sync[s].saved
           /\ \A t \in Syncs \ {s} : Same(t) /\ (sync[t] = NoSync => sync'[t] = NoSync)
           /\ \A t \in Syncs : sync'[t].left = sync[t].left
           /\ \/ conn' = conn /\ \A t \in Syncs : sync'[t].leased = sync[t].leased
              \/ /\ conn' = [conn EXCEPT
                     ![sync[s].c].due = NextRun(sync[s].cadence, sync[s].retries,
                                                sync[s].outcome = "success"),
                     ![sync[s].c].retries = NextRetries(sync[s].retries,
                                                        sync[s].outcome = "success")]
                 /\ \A t \in Syncs : sync'[t].leased = (sync[t].leased /\ sync[t].c # sync[s].c)
<1> DEFINE pc == IF sync[s].outcome = "success" /\ sync[s].saved THEN "docs" ELSE "exit"
           u == [sync[s] EXCEPT !.pc = pc]
           next == [sync EXCEPT ![s].pc = pc]
<1>1. pc \in Pcs
  BY DEF Pcs
<1> HIDE DEF pc
<1>2. u \in Sync
  BY SMTT(20), <1>1 DEF SyncInv, Sync
<1>3. /\ u.pc = pc /\ u.e = sync[s].e /\ u.c = sync[s].c /\ u.kind = sync[s].kind
      /\ u.outcome = sync[s].outcome /\ u.saved = sync[s].saved
      /\ u.left = sync[s].left /\ u.leased = sync[s].leased
  BY DEF SyncInv, Sync
<1>4. next = [sync EXCEPT ![s] = u]
  OBVIOUS
<1>5. \/ conn' = conn /\ sync' = next
      \/ /\ conn' = [conn EXCEPT
                     ![sync[s].c].due = NextRun(sync[s].cadence, sync[s].retries,
                                                sync[s].outcome = "success"),
                     ![sync[s].c].retries = NextRetries(sync[s].retries,
                                                        sync[s].outcome = "success")]
         /\ sync' = Unleased(sync[s].c, next)
  BY DEF Finish, pc
<1> HIDE DEF u
<1>6. next \in [Syncs -> Sync] /\ next[s] = u /\ \A t \in Syncs \ {s} : next[t] = sync[t]
  BY <1>2, <1>4 DEF SyncInv
<1> HIDE DEF next
<1>7. CASE conn' = conn /\ sync' = next
  BY <1>3, <1>6, <1>7 DEF Same, pc
<1>8. CASE /\ conn' = [conn EXCEPT
                     ![sync[s].c].due = NextRun(sync[s].cadence, sync[s].retries,
                                                sync[s].outcome = "success"),
                     ![sync[s].c].retries = NextRetries(sync[s].retries,
                                                        sync[s].outcome = "success")]
           /\ sync' = Unleased(sync[s].c, next)
  <2>1. /\ sync' \in [Syncs -> Sync]
        /\ \A t \in Syncs :
             /\ sync'[t].pc = next[t].pc /\ sync'[t].e = next[t].e /\ sync'[t].c = next[t].c
             /\ sync'[t].kind = next[t].kind /\ sync'[t].got = next[t].got
             /\ sync'[t].base = next[t].base /\ sync'[t].outcome = next[t].outcome
             /\ sync'[t].saved = next[t].saved /\ sync'[t].muted = next[t].muted
             /\ sync'[t].left = next[t].left
             /\ sync'[t].leased = (next[t].leased /\ next[t].c # sync[s].c)
             /\ next[t] = NoSync => sync'[t] = NoSync
    BY <1>6, <1>8, UnleasedType
  <2>2. /\ sync'[s].pc = pc /\ sync'[s].e = sync[s].e /\ sync'[s].c = sync[s].c
        /\ sync'[s].kind = sync[s].kind /\ sync'[s].outcome = sync[s].outcome
        /\ sync'[s].saved = sync[s].saved
    BY <1>3, <1>6, <2>1
  <2>3. \A t \in Syncs \ {s} : Same(t) /\ (sync[t] = NoSync => sync'[t] = NoSync)
    BY <1>6, <2>1 DEF Same
  <2>4. ASSUME NEW t \in Syncs
        PROVE  /\ sync'[t].left = sync[t].left
               /\ sync'[t].leased = (sync[t].leased /\ sync[t].c # sync[s].c)
    <3>1. next[t].left = sync[t].left /\ next[t].leased = sync[t].leased /\ next[t].c = sync[t].c
      BY <1>3, <1>6
    <3>2. sync'[t].left = next[t].left
          /\ sync'[t].leased = (next[t].leased /\ next[t].c # sync[s].c)
      BY <2>1
    <3> QED BY <3>1, <3>2
  <2> QED BY <1>8, <2>1, <2>2, <2>3, <2>4 DEF pc
<1> QED BY <1>5, <1>7, <1>8

LEMMA FinishKeeps ==
    ASSUME SyncInv, NEW s \in Syncs, Finish(s)
    PROVE  KeepsPlace
<1>1. slot' = slot /\ sync[s].pc = "finish"
  BY DEF Finish
<1>2. {"docs", "exit", "finish"} \subseteq Holding /\ {"docs", "exit"} \cap WithData = {}
  BY DEF Holding, InTime, WithData
<1>3. /\ sync' \in [Syncs -> Sync]
      /\ sync'[s].pc \in {"docs", "exit"} /\ sync'[s].e = sync[s].e /\ sync'[s].c = sync[s].c
      /\ \A t \in Syncs \ {s} : Same(t) /\ (sync[t] = NoSync => sync'[t] = NoSync)
  <2> HIDE DEF Finish
  <2> QED BY FinishFacts
<1>6. sync[s] # NoSync
  BY <1>1 DEF NoSync
<1>4. \A t \in Syncs : sync[t] # NoSync => sync[t].pc # "none"
  BY DEF SyncInv, Assigned
<1>5. \A t \in Syncs : sync[t].pc \in WithData => sync[t].got \in Fetched
  BY DEF SyncInv, DataInHand
<1> QED
  BY <1>1, <1>2, <1>3, <1>4, <1>5, <1>6 DEF KeepsPlace, Same

-----------------------------------------------------------------------------
(* The invariant of syncs and slots. *)

LEMMA SyncInvKept ==
    ASSUME SyncInv, DbTypes, ProcTypes, [Next]_vars
    PROVE  SyncInv'
<1>1. CASE UNCHANGED <<sync, slot>>
  BY <1>1 DEF SyncInv, Assigned, DataInHand, SlotNames, SlotOf
<1>2. ASSUME NEW e \in Engines, Launch(e) PROVE SyncInv'
  BY <1>2, StartInv DEF Launch, ProcTypes
<1>3. ASSUME NEW e \in Engines, NEW c \in Connectors, NEW kind \in RequestKinds,
             Request(e, c, kind)
      PROVE  SyncInv'
  <2>1. kind \in {"manual", "fields", "own", "scheduled"}
    BY EngineAssumption
  <2> QED BY <1>3, <2>1, StartInv DEF Request
<1>4. ASSUME NEW e \in Engines, ProcStep(e) PROVE SyncInv'
  <2>1. CASE Kill(e)
    BY <2>1, KillInv
  <2>2. CASE ~Kill(e)
    BY <1>1, <1>4, <2>2 DEF ProcStep, Boot, Campaign, NoticeLostLock, Signal, StopScheduler,
                            BeginWait, ProcessExit, Crash
  <2> QED BY <2>1, <2>2
<1>5. ASSUME NEW s \in Syncs, SyncStep(s) PROVE SyncInv'
  BY <1>5, ClaimInv, TurnAwayInv, ExitInv, WorkKeeps, FinishKeeps, PlacesKept DEF SyncStep
<1>6. ASSUME NEW s \in Syncs, CancelRun(s) PROVE SyncInv'
  BY <1>6, CancelSame, SameKeeps, PlacesKept DEF CancelRun
<1>7. ASSUME NEW c \in Connectors, Operate(c) PROVE SyncInv'
  <2>1. CASE \E k : Reconcile(c, k)
    <3>1. sync' = Unleased(c, sync) /\ slot' = slot
      BY <2>1 DEF Reconcile
    <3>2. /\ sync' \in [Syncs -> Sync]
          /\ \A t \in Syncs : Same(t) /\ (sync[t] = NoSync => sync'[t] = NoSync)
      BY <3>1, UnleasedType DEF Same, SyncInv
    <3>3. KeepsPlace
      BY <3>1, <3>2, SameKeeps
    <3> QED BY <3>3, PlacesKept
  <2>2. CASE ~\E k : Reconcile(c, k)
    BY <1>1, <1>7, <2>2 DEF Operate, ReadSchedule, SetEnabled, OpenMaintenanceWindow,
                            CloseMaintenanceWindow, LockDocs, UnlockDocs
  <2> QED BY <2>1, <2>2
<1>8. CASE WriteSchedule
  <2>1. slot' = slot /\ (sync' = sync \/ sync' = Unleased(edit.c, sync))
    BY <1>8 DEF WriteSchedule
  <2>2. CASE sync' = sync
    BY <1>1, <2>1, <2>2
  <2>3. CASE sync' = Unleased(edit.c, sync)
    <3>1. /\ sync' \in [Syncs -> Sync]
          /\ \A t \in Syncs : Same(t) /\ (sync[t] = NoSync => sync'[t] = NoSync)
      BY <2>3, UnleasedType DEF Same, SyncInv
    <3>2. KeepsPlace
      BY <2>1, <3>1, SameKeeps
    <3> QED BY <3>2, PlacesKept
  <2> QED BY <2>1, <2>2, <2>3
<1>9. CASE Tick
  BY <1>9, TickSame, SameKeeps, PlacesKept DEF Tick
<1>10. CASE \/ \E e \in Engines : Poll(e)
            \/ \E c \in Connectors : ChangeLab(c)
            \/ LoseLock \/ UNCHANGED vars
  BY <1>1, <1>10 DEF Poll, ChangeLab, LoseLock, OnlyProcesses, vars
<1> QED
  BY <1>2, <1>3, <1>4, <1>5, <1>6, <1>7, <1>8, <1>9, <1>10 DEF Next

-----------------------------------------------------------------------------
(* Types of the rows. *)

(* What is written over a row is of its columns' types. *)
LEMMA RowType ==
    ASSUME NEW row \in Connector, NEW due \in Ticks, NEW k \in Cadences \cup {Manual},
           NEW n \in 0 .. Len(RetryDelays)
    PROVE  /\ row.due \in Ticks
           /\ [row EXCEPT !.due = due] \in Connector
           /\ [row EXCEPT !.due = due, !.retries = n] \in Connector
           /\ [row EXCEPT !.cadence = k, !.due = due] \in Connector
  BY DEF Connector

LEMMA TicksType == Unset \in Ticks /\ LeaseTicks \in Ticks /\ Cadences \cup {Manual} \subseteq Ticks
  BY EngineAssumption DEF LeaseTicks, Ticks, Manual

LEMMA ConnKept ==
    ASSUME EngineInv, [Next]_vars
    PROVE  conn' \in [Connectors -> Connector]
<1> USE DEF EngineInv
<1>1. CASE conn' = conn
  BY <1>1 DEF DbTypes
<1>2. ASSUME NEW s \in Syncs, TakeLease(s) PROVE conn' \in [Connectors -> Connector]
  <2> DEFINE c == sync[s].c  row == [conn[c] EXCEPT !.due = LeaseTicks]
  <2>1. c \in Connectors
    BY <1>2 DEF TakeLease, SyncInv, Assigned, NoSync
  <2>2. conn[c] \in Connector /\ Manual \in Cadences \cup {Manual} /\ 0 \in 0 .. Len(RetryDelays)
    BY <2>1, EngineAssumption DEF DbTypes
  <2>3. row \in Connector
    BY <2>2, TicksType, RowType
  <2>4. conn' = conn \/ conn' = [conn EXCEPT ![c] = row]
    BY <1>2 DEF TakeLease
  <2> HIDE DEF row
  <2> QED BY <2>3, <2>4 DEF DbTypes
<1>3. ASSUME NEW s \in Syncs, Finish(s) PROVE conn' \in [Connectors -> Connector]
  <2> DEFINE c == sync[s].c
             good == sync[s].outcome = "success"
             due == NextRun(sync[s].cadence, sync[s].retries, good)
             retries == NextRetries(sync[s].retries, good)
             row == [conn[c] EXCEPT !.due = due, !.retries = retries]
  <2>1. c \in Connectors
    BY <1>3 DEF Finish, SyncInv, Assigned, NoSync
  <2>2. due \in Ticks /\ retries \in 0 .. Len(RetryDelays)
    <3>1. good \in BOOLEAN /\ sync[s].cadence \in Cadences \cup {Manual}
          /\ sync[s].retries \in 0 .. Len(RetryDelays)
      BY DEF SyncInv, Sync
    <3> QED BY <3>1, NextRunType
  <2>3. conn' = conn \/ conn' = [conn EXCEPT ![c].due = due, ![c].retries = retries]
    BY <1>3, FinishFacts
  <2> HIDE DEF due, retries
  <2>4. row \in Connector /\ conn[c] \in Connector
    <3>1. Manual \in Cadences \cup {Manual} /\ conn[c] \in Connector
      BY <2>1 DEF DbTypes
    <3> QED BY <2>2, <3>1, RowType
  <2>5. conn' = conn \/ conn' = [conn EXCEPT ![c] = row]
    BY <2>1, <2>3 DEF DbTypes
  <2> HIDE DEF row
  <2> QED BY <2>4, <2>5 DEF DbTypes
<1>4. CASE WriteSchedule
  <2> DEFINE c == edit.c
             due == IF edit.pull THEN edit.cadence ELSE conn[c].due
             row == [conn[c] EXCEPT !.cadence = edit.cadence, !.due = due]
  <2>1. edit.cadence \in Cadences \cup {Manual}
    BY DEF ProcTypes, Edit
  <2>2. c \in Connectors => row \in Connector
    <3> SUFFICES ASSUME c \in Connectors PROVE row \in Connector
      OBVIOUS
    <3>1. conn[c] \in Connector /\ 0 \in 0 .. Len(RetryDelays)
      BY EngineAssumption DEF DbTypes
    <3>2. conn[c].due \in Ticks
      BY <3>1 DEF Connector
    <3>3. due \in Ticks
      BY <2>1, <3>2, TicksType
    <3> HIDE DEF due
    <3> QED BY <2>1, <3>1, <3>3, RowType
  <2>3. conn' = [conn EXCEPT ![c] = row]
    BY <1>4 DEF WriteSchedule
  <2> HIDE DEF row
  <2> QED BY <2>2, <2>3 DEF DbTypes
<1>5. ASSUME NEW c \in Connectors, NEW k \in Cadences \cup {Manual}, Reconcile(c, k)
      PROVE  conn' \in [Connectors -> Connector]
  <2> DEFINE row == [conn[c] EXCEPT !.cadence = k, !.due = Unset]
  <2>1. row \in Connector
    <3>1. conn[c] \in Connector /\ 0 \in 0 .. Len(RetryDelays)
      BY EngineAssumption DEF DbTypes
    <3> QED BY <3>1, TicksType, RowType
  <2>2. conn' = [conn EXCEPT ![c] = row]
    BY <1>5 DEF Reconcile
  <2> HIDE DEF row
  <2> QED BY <2>1, <2>2 DEF DbTypes
<1>6. ASSUME NEW c \in Connectors, SetEnabled(c) PROVE conn' \in [Connectors -> Connector]
  <2> DEFINE row == [conn[c] EXCEPT !.enabled = ~ @]
  <2>1. row \in Connector
    BY DEF DbTypes, Connector
  <2>2. conn' = [conn EXCEPT ![c] = row]
    BY <1>6 DEF SetEnabled
  <2> HIDE DEF row
  <2> QED BY <2>1, <2>2 DEF DbTypes
<1>7. CASE Tick
  <2>1. ASSUME NEW n \in Ticks PROVE Down(n) \in Ticks
    BY DEF Ticks, Unset, Down
  <2>2. ASSUME NEW c \in Connectors PROVE [conn[c] EXCEPT !.due = Down(@)] \in Connector
    <3>1. conn[c] \in Connector /\ conn[c].due \in Ticks
      BY DEF DbTypes, Connector
    <3>2. Manual \in Cadences \cup {Manual} /\ 0 \in 0 .. Len(RetryDelays)
      BY EngineAssumption
    <3> QED BY <2>1, <3>1, <3>2, RowType
  <2> QED BY <1>7, <2>2 DEF Tick
<1>8. ASSUME NEW s \in Syncs, SyncStep(s) PROVE conn' \in [Connectors -> Connector]
  BY <1>1, <1>2, <1>3, <1>8
     DEF SyncStep, Claim, TurnAway, Acquire, Read, Credentials, Fetch, ReadBase, ReadWindow, Save,
         Regenerate, Exit, dbVars
<1>9. ASSUME NEW c \in Connectors, Operate(c) PROVE conn' \in [Connectors -> Connector]
  BY <1>1, <1>5, <1>6, <1>9 DEF Operate, ReadSchedule, OpenMaintenanceWindow,
     CloseMaintenanceWindow, LockDocs, UnlockDocs, dbVars
<1>10. ASSUME NEW e \in Engines, ProcStep(e) PROVE conn' = conn
  BY <1>10 DEF ProcStep, Boot, Campaign, NoticeLostLock, Signal, StopScheduler, BeginWait,
     ProcessExit, Crash, Kill, OnlyProcesses, dbVars
<1>11. CASE \/ \E e \in Engines : Poll(e) \/ Launch(e)
            \/ \E e \in Engines, c \in Connectors, kind \in RequestKinds : Request(e, c, kind)
            \/ \E s \in Syncs : CancelRun(s)
            \/ \E c \in Connectors : ChangeLab(c)
            \/ LoseLock \/ UNCHANGED vars
  BY <1>1, <1>11 DEF Poll, Launch, Request, CancelRun, ChangeLab, LoseLock, OnlyProcesses,
     dbVars, vars
<1> QED
  BY <1>1, <1>4, <1>7, <1>8, <1>9, <1>10, <1>11 DEF Next

(* The history of what was observed, and a stored snapshot. *)
LEMMA ObserveType ==
    ASSUME DbTypes, NEW c \in Connectors, NEW sn \in Fetched, Observe(c, sn)
    PROVE  seen' \in [Connectors -> [Sections -> Values \cup {Absent, "never"}]]
<1> DEFINE row == [x \in Sections |-> IF sn[x] = Failed THEN seen[c][x] ELSE sn[x]]
<1>1. row \in [Sections -> Values \cup {Absent, "never"}]
  BY DEF DbTypes, Fetched
<1>2. seen' = [seen EXCEPT ![c] = row]
  BY DEF Observe
<1> HIDE DEF row
<1> QED BY <1>1, <1>2 DEF DbTypes

LEMMA DbTypesKept ==
    ASSUME EngineInv, [Next]_vars
    PROVE  DbTypes'
<1> USE DEF EngineInv
<1>1. CASE UNCHANGED <<windows, latest, changes, docs, docLock, seen>>
  BY <1>1, ConnKept DEF DbTypes
<1>2. ASSUME NEW s \in Syncs, ReadBase(s) PROVE DbTypes'
  <2>1. sync[s].c \in Connectors /\ sync[s].got \in Fetched
    BY <1>2 DEF ReadBase, SyncInv, Assigned, NoSync, DataInHand, WithData
  <2>2. /\ UNCHANGED <<windows, latest, docs, docLock>>
        /\ \/ UNCHANGED <<changes, seen>>
           \/ changes' = [changes EXCEPT ![sync[s].c] = {}] /\ Observe(sync[s].c, sync[s].got)
    BY <1>2 DEF ReadBase
  <2>3. changes' \in [Connectors -> SUBSET Sections]
    BY <2>1, <2>2 DEF DbTypes
  <2>4. seen' \in [Connectors -> [Sections -> Values \cup {Absent, "never"}]]
    BY <2>1, <2>2, ObserveType DEF DbTypes
  <2> QED BY <2>2, <2>3, <2>4, ConnKept DEF DbTypes
<1>3. ASSUME NEW s \in Syncs, Save(s) PROVE DbTypes'
  <2>1. sync[s].c \in Connectors /\ sync[s].got \in Fetched
    BY <1>3 DEF Save, SyncInv, Assigned, NoSync, DataInHand, WithData
  <2>2. Merged(s) \in Snapshot
    <3>1. sync[s].base \in Snapshot \cup {NoSnapshot}
      BY DEF SyncInv, Sync
    <3> QED BY <2>1, <3>1, MergedType DEF Merged
  <2> DEFINE diff == IF sync[s].base = NoSnapshot \/ sync[s].muted THEN {}
                     ELSE Compare(sync[s].base, Merged(s))
  <2>3. diff \subseteq Sections
    BY DEF Compare
  <2>4. /\ UNCHANGED <<windows, docLock>>
        /\ \/ UNCHANGED <<latest, changes, docs, seen>>
           \/ /\ latest' = [latest EXCEPT ![sync[s].c] = Merged(s)]
              /\ changes' = [changes EXCEPT ![sync[s].c] = diff]
              /\ docs' = [docs EXCEPT ![sync[s].c] = FALSE]
              /\ Observe(sync[s].c, sync[s].got)
    BY <1>3 DEF Save
  <2> HIDE DEF diff
  <2>5. seen' \in [Connectors -> [Sections -> Values \cup {Absent, "never"}]]
    BY <2>1, <2>4, ObserveType DEF DbTypes
  <2>6. changes' \in [Connectors -> SUBSET Sections]
    BY <2>1, <2>3, <2>4 DEF DbTypes
  <2>7. latest' \in [Connectors -> Snapshot \cup {NoSnapshot}]
    BY <2>2, <2>4 DEF DbTypes
  <2>8. docs' \in [Connectors -> BOOLEAN]
    BY <2>4 DEF DbTypes
  <2> QED BY <2>4, <2>5, <2>6, <2>7, <2>8, ConnKept DEF DbTypes
<1>4. ASSUME NEW s \in Syncs, Regenerate(s) PROVE DbTypes'
  <2>1. UNCHANGED <<windows, latest, changes, docLock, seen>> /\ docs' \in [Connectors -> BOOLEAN]
    BY <1>4 DEF Regenerate, DbTypes
  <2> QED BY <2>1, ConnKept DEF DbTypes
<1>5. ASSUME NEW s \in Syncs, SyncStep(s) PROVE DbTypes'
  BY <1>1, <1>2, <1>3, <1>4, <1>5
     DEF SyncStep, Claim, TurnAway, Acquire, TakeLease, Read, Credentials, Fetch, ReadWindow,
         Finish, Exit, dbVars
<1>6. ASSUME NEW c \in Connectors, Operate(c) PROVE DbTypes'
  <2>1. CASE UNCHANGED <<latest, changes, docs, seen, docLock>>
             /\ windows' \in [Connectors -> SUBSET (Nat \ {0})]
    BY <2>1, ConnKept DEF DbTypes
  <2>2. CASE \E n \in WindowLengths : OpenMaintenanceWindow(c, n)
    <3>1. PICK n \in WindowLengths : OpenMaintenanceWindow(c, n)
      BY <2>2
    <3>2. n \in Nat \ {0}
      BY EngineAssumption
    <3>3. windows' \in [Connectors -> SUBSET (Nat \ {0})]
      BY <3>1, <3>2 DEF OpenMaintenanceWindow, DbTypes
    <3> QED BY <2>1, <3>1, <3>3 DEF OpenMaintenanceWindow
  <2>3. CASE CloseMaintenanceWindow(c)
    BY <2>1, <2>3 DEF CloseMaintenanceWindow, DbTypes
  <2>4. CASE LockDocs(c) \/ UnlockDocs(c)
    <3>1. docLock' \in [Connectors -> BOOLEAN] /\ UNCHANGED <<windows, latest, changes, docs, seen>>
      BY <2>4 DEF LockDocs, UnlockDocs, DbTypes
    <3> QED BY <3>1, ConnKept DEF DbTypes
  <2> QED BY <1>1, <1>6, <2>2, <2>3, <2>4
          DEF Operate, ReadSchedule, Reconcile, SetEnabled, dbVars
<1>7. CASE Tick
  <2>1. \A c \in Connectors : {n - 1 : n \in windows[c] \ {1}} \subseteq Nat \ {0}
    BY DEF DbTypes
  <2>2. windows' \in [Connectors -> SUBSET (Nat \ {0})]
    BY <1>7, <2>1 DEF Tick
  <2> QED BY <1>7, <2>2, ConnKept DEF Tick, DbTypes
<1>8. ASSUME NEW e \in Engines, ProcStep(e) PROVE DbTypes'
  BY <1>1, <1>8 DEF ProcStep, Boot, Campaign, NoticeLostLock, Signal, StopScheduler, BeginWait,
     ProcessExit, Crash, Kill, OnlyProcesses, dbVars
<1>9. CASE \/ \E e \in Engines : Poll(e) \/ Launch(e)
           \/ \E e \in Engines, c \in Connectors, kind \in RequestKinds : Request(e, c, kind)
           \/ \E s \in Syncs : CancelRun(s)
           \/ \E c \in Connectors : ChangeLab(c)
           \/ WriteSchedule \/ LoseLock \/ UNCHANGED vars
  BY <1>1, <1>9 DEF Poll, Launch, Request, CancelRun, ChangeLab, WriteSchedule, LoseLock,
     OnlyProcesses, dbVars, vars
<1> QED
  BY <1>5, <1>6, <1>7, <1>8, <1>9 DEF Next

-----------------------------------------------------------------------------
(* Types of the processes, the request under way and the counters. *)

LEMMA CountersKept ==
    ASSUME ProcTypes
    PROVE  /\ StoreError => faults' \in 0 .. MaxFaults
           /\ Edits => edits' \in 0 .. MaxEdits
           /\ Stops => stops' \in 0 .. MaxStops
<1>1. MaxEdits \in Nat /\ MaxStops \in Nat /\ MaxFaults \in Nat
  BY EngineAssumption
<1> QED
  BY <1>1 DEF ProcTypes, StoreError, Edits, Stops

LEMMA ProcTypesKept ==
    ASSUME EngineInv, [Next]_vars
    PROVE  ProcTypes'
<1> USE DEF EngineInv
<1> DEFINE Faulty == faults' = faults \/ StoreError
<1>1. CASE UNCHANGED <<listed, life, baseDone, lock, stops, edit, lab, edits>> /\ Faulty
  BY <1>1, CountersKept DEF ProcTypes
<1>2. ASSUME NEW s \in Syncs, SyncStep(s)
      PROVE  UNCHANGED <<listed, life, baseDone, lock, stops, edit, lab, edits>> /\ Faulty
  BY <1>2 DEF SyncStep, Claim, TurnAway, Acquire, TakeLease, Read, Credentials, Fetch, ReadBase,
     ReadWindow, Save, Finish, Regenerate, Exit, procVars, Works, Breaks, NoFault
<1>3. ASSUME NEW c \in Connectors, Operate(c) PROVE ProcTypes'
  <2>1. ASSUME NEW k \in Cadences \cup {Manual}, ReadSchedule(c, k) PROVE ProcTypes'
    <3>1. edit' \in Edit
      BY <2>1 DEF ReadSchedule, Edit
    <3> QED BY <2>1, <3>1, CountersKept DEF ReadSchedule, procVars, ProcTypes
  <2>2. CASE \/ \E k : Reconcile(c, k)
             \/ SetEnabled(c) \/ \E n : OpenMaintenanceWindow(c, n) \/ LockDocs(c)
    BY <2>2, CountersKept DEF Reconcile, SetEnabled, OpenMaintenanceWindow, LockDocs, procVars,
       ProcTypes
  <2>3. CASE CloseMaintenanceWindow(c) \/ UnlockDocs(c)
    BY <1>1, <2>3 DEF CloseMaintenanceWindow, UnlockDocs, procVars
  <2> QED BY <1>3, <2>1, <2>2, <2>3 DEF Operate
<1>4. CASE WriteSchedule
  <2>1. NoEdit \in Edit
    BY DEF NoEdit, Edit
  <2> QED BY <1>4, <2>1 DEF WriteSchedule, procVars, ProcTypes
<1>5. ASSUME NEW e \in Engines, ProcStep(e) PROVE ProcTypes'
  <2>1. UNCHANGED <<edit, lab, edits, faults>>
    BY <1>5 DEF ProcStep, Boot, Campaign, NoticeLostLock, Signal, StopScheduler, BeginWait,
       ProcessExit, Crash, Kill, OnlyProcesses
  <2>2. listed' \in [Engines -> SUBSET Connectors] /\ baseDone' \in [Engines -> BOOLEAN]
    BY <1>5 DEF ProcStep, Boot, Campaign, NoticeLostLock, Signal, StopScheduler, BeginWait,
       ProcessExit, Crash, Kill, ProcTypes
  <2>3. lock' \in Engines \cup {Nobody}
    BY <1>5 DEF ProcStep, Boot, Campaign, NoticeLostLock, Signal, StopScheduler, BeginWait,
       ProcessExit, Crash, Kill, Unlocked, ProcTypes
  <2>4. stops' \in 0 .. MaxStops
    BY <1>5, CountersKept DEF ProcStep, Boot, Campaign, NoticeLostLock, Signal, StopScheduler,
       BeginWait, ProcessExit, Crash, ProcTypes
  <2>5. \E phase \in {"down", "standby", "up", "stopping", "quiescing", "waiting"} : Live(e, phase)
    BY <1>5 DEF ProcStep, Boot, Campaign, NoticeLostLock, Signal, StopScheduler,
       BeginWait, ProcessExit, Crash, Kill
  <2>6. life' \in [Engines -> {"down", "standby", "up", "stopping", "quiescing", "waiting"}]
    BY <2>5 DEF Live, ProcTypes
  <2> QED BY <2>1, <2>2, <2>3, <2>4, <2>6 DEF ProcTypes
<1>6. ASSUME NEW e \in Engines, Poll(e) \/ Launch(e) PROVE ProcTypes'
  BY <1>6 DEF Poll, Launch, procVars, ProcTypes
<1>7. ASSUME NEW s \in Syncs, CancelRun(s) PROVE ProcTypes'
  BY <1>7, CountersKept DEF CancelRun, procVars, ProcTypes
<1>8. ASSUME NEW c \in Connectors, ChangeLab(c) PROVE ProcTypes'
  <2>1. Labs \subseteq Observation
    BY EngineAssumption
  <2> QED BY <1>8, <2>1 DEF ChangeLab, procVars, ProcTypes
<1>9. CASE LoseLock
  BY <1>9, CountersKept DEF LoseLock, OnlyProcesses, ProcTypes
<1>10. CASE \/ \E e \in Engines, c \in Connectors, kind \in RequestKinds : Request(e, c, kind)
            \/ Tick \/ UNCHANGED vars
  BY <1>1, <1>10 DEF Request, Tick, procVars, vars
<1> QED
  BY <1>1, <1>2, <1>3, <1>4, <1>5, <1>6, <1>7, <1>8, <1>9, <1>10 DEF Next

-----------------------------------------------------------------------------
(* The first theorems. *)

LEMMA EngineInit == Init => EngineInv
<1> SUFFICES ASSUME Init PROVE EngineInv
  OBVIOUS
<1> USE DEF Init
<1>1. sync \in [Syncs -> Sync]
  BY NoSyncType
<1>2. NoSync.pc \notin Holding \cup WithData
  BY DEF NoSync, Holding, InTime, WithData
<1>3. SyncInv
  BY <1>1, <1>2 DEF SyncInv, Assigned, DataInHand, SlotNames
<1>4. conn \in [Connectors -> Connector]
  <2>1. Unset \in Ticks /\ 0 \in 0 .. Len(RetryDelays)
    BY EngineAssumption DEF Ticks
  <2>2. \A k \in Cadences \cup {Manual} :
          [enabled |-> TRUE, cadence |-> k, due |-> Unset, retries |-> 0] \in Connector
    BY <2>1 DEF Connector
  <2> QED BY <2>2
<1>5. DbTypes
  BY <1>4 DEF DbTypes
<1>6. ProcTypes
  <2>1. NoEdit \in Edit
    BY DEF NoEdit, Edit
  <2>2. Labs \subseteq Observation /\ MaxEdits \in Nat /\ MaxStops \in Nat /\ MaxFaults \in Nat
    BY EngineAssumption
  <2> QED BY <2>1, <2>2 DEF ProcTypes
<1> QED BY <1>3, <1>5, <1>6 DEF EngineInv

LEMMA EngineStep == EngineInv /\ [Next]_vars => EngineInv'
  BY SyncInvKept, DbTypesKept, ProcTypesKept DEF EngineInv

LEMMA EngineAlways == Spec => []EngineInv
  BY EngineInit, EngineStep, PTL DEF Spec

(* Every variable of the engine keeps its type, whatever is cancelled,     *)
(* stopped or fails: rows, snapshots, goroutines, slots and processes.     *)
THEOREM EngineTypeCorrect == Spec => []TypeOK
<1>1. EngineInv => TypeOK
  BY DEF EngineInv, SyncInv, DbTypes, ProcTypes, TypeOK
<1> QED
  BY <1>1, EngineAlways, PTL

(* A connector has at most one sync between claim and exit in a process,   *)
(* and the in-flight map names it (sync/run.go, runClaimed).               *)
THEOREM SlotsExclusive == Spec => []SlotsAreExclusive
<1>1. EngineInv => SlotsAreExclusive
  <2> SUFFICES ASSUME SyncInv, NEW e \in Engines, NEW c \in Connectors
               PROVE  {s \in Alive(e) : sync[s].c = c /\ sync[s].pc \in Holding}
                        = IF slot[e][c] = Nobody THEN {} ELSE {slot[e][c]}
    BY DEF SlotsAreExclusive, EngineInv, Holding
  <2>1. \A s \in Alive(e) : sync[s].c = c /\ sync[s].pc \in Holding => slot[e][c] = s
    BY DEF SyncInv, SlotNames, SlotOf, Alive
  <2>2. slot[e][c] # Nobody => slot[e][c] \in {s \in Alive(e) : sync[s].c = c /\ sync[s].pc \in Holding}
    BY DEF SyncInv, SlotNames, Alive
  <2>3. \A s \in Alive(e) : s # Nobody
    BY EngineAssumption DEF Alive
  <2> QED BY <2>1, <2>2, <2>3
<1> QED
  BY <1>1, EngineAlways, PTL

-----------------------------------------------------------------------------
(* What a step of a sync at work does to its own record. *)

Ended == {"finish", "docs", "exit"}

Moved(s) ==
    /\ \A t \in Syncs \ {s} : sync'[t] = sync[t]
    /\ sync'[s].kind = sync[s].kind /\ sync'[s].left = sync[s].left /\ sync'[s].c = sync[s].c
    /\ sync[s].pc \in InTime \cup {"sem"} /\ sync'[s].pc \in InTime \cup {"exit"}
    /\ sync[s].pc \in Ended => sync[s].pc = "docs" /\ sync'[s].pc = "exit"
    /\ \/ sync'[s].outcome = sync[s].outcome /\ sync'[s].saved = sync[s].saved
       \/ /\ sync'[s].pc = "finish"
          /\ sync'[s].outcome = "success" => sync'[s].saved \/ sync[s].kind = "fields"
    /\ sync'[s].pc \in {"window", "save"} =>
         \/ sync[s].pc = "base" /\ sync'[s].base = latest[sync[s].c]
         \/ sync[s].pc = "window" /\ sync'[s].base = sync[s].base

LEMMA GotoMoves ==
    ASSUME SyncInv, NEW s \in Syncs, sync[s].pc \in InTime \cup {"sem"},
           NEW pc \in {"exit", "lease", "read", "fetch"}, Goto(s, pc),
           sync[s].pc \in Ended => sync[s].pc = "docs" /\ pc = "exit"
    PROVE  Moved(s) /\ sync'[s].leased = sync[s].leased
<1>1. pc \in Pcs /\ pc \in InTime \cup {"exit"} /\ pc \notin {"window", "save"}
  BY DEF Pcs, InTime
<1> QED
  BY <1>1, GotoType DEF SyncInv, Moved

LEMMA ToFinishMoves ==
    ASSUME SyncInv, NEW s \in Syncs, sync[s].pc \in InTime, sync[s].pc \notin Ended,
           NEW outcome \in Outcomes, NEW saved \in BOOLEAN, ToFinish(s, outcome, saved),
           outcome = "success" => saved \/ sync[s].kind = "fields"
    PROVE  Moved(s) /\ sync'[s].leased = sync[s].leased
<1>1. /\ sync' \in [Syncs -> Sync] /\ sync' = [sync EXCEPT ![s] = sync'[s]]
      /\ sync'[s].pc = "finish" /\ sync'[s].c = sync[s].c
      /\ sync'[s].saved = saved /\ sync'[s].outcome = outcome
      /\ sync'[s].kind = sync[s].kind /\ sync'[s].leased = sync[s].leased
      /\ sync'[s].left = sync[s].left
  BY ToFinishType DEF SyncInv
<1>2. \A t \in Syncs \ {s} : sync'[t] = sync[t]
  BY <1>1 DEF SyncInv
<1>3. "finish" \in InTime /\ "finish" \notin {"window", "save"}
  BY DEF InTime
<1> QED
  BY <1>1, <1>2, <1>3 DEF Moved

LEMMA ReadRowMoves ==
    ASSUME SyncInv, NEW s \in Syncs, sync[s].pc \in {"read", "creds"},
           NEW pc \in {"creds", "fetch"}, ReadRow(s, pc)
    PROVE  Moved(s) /\ sync'[s].leased = sync[s].leased
<1> DEFINE row == conn[sync[s].c]
           r == [sync[s] EXCEPT !.pc = pc, !.cadence = row.cadence, !.retries = row.retries]
<1>1. /\ r.pc = pc /\ r.c = sync[s].c /\ r.kind = sync[s].kind /\ r.left = sync[s].left
      /\ r.outcome = sync[s].outcome /\ r.saved = sync[s].saved /\ r.leased = sync[s].leased
  BY DEF SyncInv, Sync
<1>2. sync' = [sync EXCEPT ![s] = r]
  BY DEF ReadRow
<1> HIDE DEF r
<1>3. sync'[s] = r /\ \A t \in Syncs \ {s} : sync'[t] = sync[t]
  BY <1>2 DEF SyncInv
<1>4. sync[s].pc \in InTime /\ sync[s].pc \notin Ended /\ pc \in InTime /\ pc \notin {"window", "save"}
  BY DEF InTime, Ended
<1> QED
  BY <1>1, <1>3, <1>4 DEF Moved

LEMMA OneFieldMoves ==
    ASSUME SyncInv, NEW s \in Syncs,
           \/ /\ sync[s].pc = "fetch"
              /\ \E sn \in Fetched : sync' = [sync EXCEPT ![s].pc = "base", ![s].got = sn]
           \/ /\ sync[s].pc = "base"
              /\ sync' = [sync EXCEPT ![s].pc = "window", ![s].base = latest[sync[s].c]]
           \/ /\ sync[s].pc = "window"
              /\ \E muted \in BOOLEAN : sync' = [sync EXCEPT ![s].pc = "save", ![s].muted = muted]
    PROVE  Moved(s) /\ sync'[s].leased = sync[s].leased
<1>1. \A t \in Syncs \ {s} : sync'[t] = sync[t]
  BY DEF SyncInv
<1>2. /\ sync'[s].kind = sync[s].kind /\ sync'[s].left = sync[s].left /\ sync'[s].c = sync[s].c
      /\ sync'[s].outcome = sync[s].outcome /\ sync'[s].saved = sync[s].saved
      /\ sync'[s].leased = sync[s].leased
  BY DEF SyncInv, Sync
<1>3. \/ sync[s].pc = "fetch" /\ sync'[s].pc = "base"
      \/ sync[s].pc = "base" /\ sync'[s].pc = "window" /\ sync'[s].base = latest[sync[s].c]
      \/ sync[s].pc = "window" /\ sync'[s].pc = "save" /\ sync'[s].base = sync[s].base
  BY DEF SyncInv, Sync
<1>4. /\ {"fetch", "base", "window", "save"} \subseteq InTime
      /\ {"fetch", "base", "window", "save"} \cap Ended = {}
  BY DEF InTime, Ended
<1> QED
  BY <1>1, <1>2, <1>3, <1>4 DEF Moved

LEMMA LeaseMoves ==
    ASSUME SyncInv, NEW s \in Syncs, sync[s].pc = "lease",
           sync' = [sync EXCEPT ![s].pc = "read", ![s].leased = TRUE]
    PROVE  Moved(s)
<1>1. \A t \in Syncs \ {s} : sync'[t] = sync[t]
  BY DEF SyncInv
<1>2. /\ sync'[s].kind = sync[s].kind /\ sync'[s].left = sync[s].left /\ sync'[s].c = sync[s].c
      /\ sync'[s].outcome = sync[s].outcome /\ sync'[s].saved = sync[s].saved
      /\ sync'[s].pc = "read"
  BY DEF SyncInv, Sync
<1>3. {"lease", "read"} \subseteq InTime /\ "lease" \notin Ended
  BY DEF InTime, Ended
<1> QED
  BY <1>1, <1>2, <1>3 DEF Moved

LEMMA WorkMoves ==
    ASSUME SyncInv, NEW s \in Syncs,
           \/ Acquire(s) \/ TakeLease(s) \/ Read(s) \/ Credentials(s) \/ Fetch(s)
           \/ ReadBase(s) \/ ReadWindow(s) \/ Save(s) \/ Regenerate(s)
    PROVE  /\ Moved(s)
           /\ \/ sync'[s].leased = sync[s].leased /\ conn' = conn
              \/ TakeLease(s) /\ Due(sync[s].c)
<1>1. {"lease", "read", "creds", "fetch", "base", "window", "save", "docs"} \subseteq InTime
  BY DEF InTime
<1>2. {"sem", "lease", "read", "creds", "fetch", "base", "window", "save"} \cap Ended = {}
  BY DEF Ended
<1>3. \A sn : Outcome(sn) \in Outcomes
  BY DEF Outcome, Outcomes
<1>4. {"none", "success", "error", "skipped"} \subseteq Outcomes /\ {TRUE, FALSE} \subseteq BOOLEAN
  BY DEF Outcomes
<1>5. CASE Acquire(s)
  BY <1>1, <1>2, <1>5, GotoMoves DEF Acquire, dbVars
<1>6. CASE TakeLease(s)
  BY <1>1, <1>2, <1>6, GotoMoves, LeaseMoves DEF TakeLease
<1>7. CASE Read(s)
  BY <1>1, <1>2, <1>4, <1>7, GotoMoves, ReadRowMoves, ToFinishMoves DEF Read, dbVars
<1>8. CASE Credentials(s)
  BY <1>1, <1>2, <1>4, <1>8, GotoMoves, ReadRowMoves, ToFinishMoves DEF Credentials, dbVars
<1>9. CASE Fetch(s)
  BY <1>1, <1>2, <1>3, <1>4, <1>9, OneFieldMoves, ToFinishMoves DEF Fetch, dbVars
<1>10. CASE ReadBase(s)
  BY <1>1, <1>2, <1>3, <1>4, <1>10, OneFieldMoves, ToFinishMoves DEF ReadBase
<1>11. CASE ReadWindow(s)
  BY <1>11, OneFieldMoves DEF ReadWindow, dbVars
<1>12. CASE Save(s)
  BY <1>1, <1>2, <1>3, <1>4, <1>12, ToFinishMoves DEF Save
<1>13. CASE Regenerate(s)
  BY <1>1, <1>13, GotoMoves DEF Regenerate
<1> QED
  BY <1>5, <1>6, <1>7, <1>8, <1>9, <1>10, <1>11, <1>12, <1>13

Work(s) ==
    \/ Acquire(s) \/ TakeLease(s) \/ Read(s) \/ Credentials(s) \/ Fetch(s)
    \/ ReadBase(s) \/ ReadWindow(s) \/ Save(s) \/ Regenerate(s)

-----------------------------------------------------------------------------
(* What every other step does to a sync: it starts or is gone, or it stays *)
(* where it is, at most with the slot in hand and without its lease.       *)

Fresh(t) ==
    /\ sync'[t].pc \in {"none", "claim"}
    /\ sync'[t].outcome = "none" /\ sync'[t].leased = FALSE

Rests(t) ==
    /\ sync'[t].pc = sync[t].pc \/ (sync[t].pc = "claim" /\ sync'[t].pc = "sem")
    /\ sync'[t].c = sync[t].c /\ sync'[t].kind = sync[t].kind
    /\ sync'[t].base = sync[t].base
    /\ sync'[t].outcome = sync[t].outcome /\ sync'[t].saved = sync[t].saved

KeepsLease(t) ==
    /\ sync'[t].left = sync[t].left
    /\ sync'[t].leased => sync[t].leased /\ conn'[sync[t].c].due = conn[sync[t].c].due

LEMMA NoSyncFields == NoSync.pc = "none" /\ NoSync.outcome = "none" /\ NoSync.leased = FALSE
  BY DEF NoSync

LEMMA StartMoves ==
    ASSUME SyncInv, NEW s \in Syncs, NEW e \in Engines, NEW c \in Connectors,
           NEW kind \in {"manual", "fields", "own", "scheduled"}, Start(s, e, c, kind)
    PROVE  Fresh(s) /\ \A t \in Syncs \ {s} : sync'[t] = sync[t]
<1> DEFINE r == [NoSync EXCEPT !.pc = "claim", !.e = e, !.c = c, !.kind = kind, !.left = Timeout]
<1>1. r.pc = "claim" /\ r.outcome = "none" /\ r.leased = FALSE
  BY DEF NoSync
<1>2. sync' = [sync EXCEPT ![s] = r]
  BY DEF Start
<1> HIDE DEF r
<1> QED BY <1>1, <1>2 DEF SyncInv, Fresh

(* A connector whose leases are gone may get any next run. *)
LEMMA UnleasedMoves ==
    ASSUME SyncInv, NEW c, sync' = Unleased(c, sync),
           \A d \in Connectors \ {c} : conn'[d].due = conn[d].due
    PROVE  \A t \in Syncs : Rests(t) /\ (sync[t] = NoSync \/ KeepsLease(t))
<1>1. \A t \in Syncs :
        /\ sync'[t].pc = sync[t].pc /\ sync'[t].c = sync[t].c /\ sync'[t].kind = sync[t].kind
        /\ sync'[t].base = sync[t].base /\ sync'[t].outcome = sync[t].outcome
        /\ sync'[t].saved = sync[t].saved /\ sync'[t].left = sync[t].left
        /\ sync'[t].leased = (sync[t].leased /\ sync[t].c # c)
  BY UnleasedType DEF SyncInv
<1>2. \A t \in Syncs : sync[t] = NoSync \/ sync[t].c \in Connectors
  BY DEF SyncInv, Assigned
<1> QED BY <1>1, <1>2 DEF Rests, KeepsLease

LEMMA OtherMoves ==
    ASSUME EngineInv, [Next]_vars, \A s \in Syncs : ~Work(s) /\ ~Finish(s)
    PROVE  /\ UNCHANGED <<latest, changes, seen>>
           /\ \A t \in Syncs : Fresh(t) \/ Rests(t)
           /\ Tick \/ \A t \in Syncs : Fresh(t) \/ KeepsLease(t)
<1> DEFINE Goal == /\ UNCHANGED <<latest, changes, seen>>
                   /\ \A t \in Syncs : Fresh(t) \/ Rests(t)
                   /\ Tick \/ \A t \in Syncs : Fresh(t) \/ KeepsLease(t)
<1> SUFFICES Goal
  OBVIOUS
<1> USE DEF EngineInv
<1>1. \A t \in Syncs : sync'[t] = sync[t] => Rests(t) /\ (conn' = conn => KeepsLease(t))
  BY DEF Rests, KeepsLease
<1>2. \A t \in Syncs : sync'[t] = NoSync => Fresh(t)
  BY NoSyncFields DEF Fresh
<1>3. CASE UNCHANGED <<sync, conn, latest, changes, seen>>
  BY <1>1, <1>3
<1>4. ASSUME NEW s \in Syncs, Claim(s) PROVE Goal
  <2>1. UNCHANGED <<conn, latest, changes, seen>> /\ Goto(s, "sem") /\ sync[s].pc = "claim"
    BY <1>4 DEF Claim, dbVars
  <2>2. /\ \A t \in Syncs \ {s} : sync'[t] = sync[t]
        /\ sync'[s].pc = "sem" /\ sync'[s].c = sync[s].c /\ sync'[s].kind = sync[s].kind
        /\ sync'[s].base = sync[s].base /\ sync'[s].outcome = sync[s].outcome
        /\ sync'[s].saved = sync[s].saved /\ sync'[s].leased = sync[s].leased
        /\ sync'[s].left = sync[s].left
    BY <2>1, GotoType DEF SyncInv, Pcs
  <2>3. Rests(s) /\ KeepsLease(s)
    BY <2>1, <2>2 DEF Rests, KeepsLease
  <2> QED BY <1>1, <2>1, <2>2, <2>3
<1>5. ASSUME NEW s \in Syncs, TurnAway(s) \/ Exit(s) PROVE Goal
  <2>1. UNCHANGED <<conn, latest, changes, seen>> /\ sync' = [sync EXCEPT ![s] = NoSync]
    BY <1>5 DEF TurnAway, Exit, dbVars
  <2> QED BY <1>1, <1>2, <2>1 DEF SyncInv
<1>6. ASSUME NEW e \in Engines, Launch(e) PROVE Goal
  <2>1. UNCHANGED <<conn, latest, changes, seen>>
    BY <1>6 DEF Launch, dbVars
  <2>2. \E c \in Connectors, s \in Syncs : Start(s, e, c, "scheduled")
    BY <1>6 DEF Launch, ProcTypes
  <2> QED BY <1>1, <2>1, <2>2, StartMoves
<1>7. ASSUME NEW e \in Engines, NEW c \in Connectors, NEW kind \in RequestKinds,
             Request(e, c, kind)
      PROVE  Goal
  <2>1. kind \in {"manual", "fields", "own", "scheduled"}
    BY EngineAssumption
  <2> QED BY <1>1, <1>7, <2>1, StartMoves DEF Request, dbVars
<1>8. ASSUME NEW e \in Engines, ProcStep(e) PROVE Goal
  <2>1. CASE Kill(e)
    BY <1>1, <1>2, <2>1 DEF Kill, OnlyProcesses, dbVars
  <2>2. CASE ~Kill(e)
    BY <1>3, <1>8, <2>2 DEF ProcStep, Boot, Campaign, NoticeLostLock, Signal, StopScheduler,
                            BeginWait, ProcessExit, Crash, OnlyProcesses, dbVars
  <2> QED BY <2>1, <2>2
<1>9. ASSUME NEW s \in Syncs, CancelRun(s) PROVE Goal
  <2>1. UNCHANGED <<conn, latest, changes, seen>>
    BY <1>9 DEF CancelRun, dbVars
  <2> QED BY <1>9, <2>1, CancelSame DEF Same, Rests, KeepsLease
<1>10. ASSUME NEW c \in Connectors, Operate(c) PROVE Goal
  <2>1. CASE \E k : Reconcile(c, k)
    <3>1. UNCHANGED <<latest, changes, seen>> /\ sync' = Unleased(c, sync)
          /\ \A d \in Connectors \ {c} : conn'[d].due = conn[d].due
      BY <2>1 DEF Reconcile, DbTypes
    <3>2. \A t \in Syncs : Rests(t) /\ (sync[t] = NoSync \/ KeepsLease(t))
      BY <3>1, UnleasedMoves
    <3>3. \A t \in Syncs : sync[t] = NoSync => sync'[t] = NoSync
      BY <3>1, UnleasedType DEF SyncInv
    <3> QED BY <1>2, <3>1, <3>2, <3>3
  <2>2. CASE SetEnabled(c)
    <3>1. \A d \in Connectors : conn'[d].due = conn[d].due
      BY <2>2 DEF SetEnabled, DbTypes, Connector
    <3>2. \A t \in Syncs : sync[t] = NoSync \/ sync[t].c \in Connectors
      BY DEF SyncInv, Assigned
    <3> QED BY <1>1, <1>2, <2>2, <3>1, <3>2 DEF SetEnabled, KeepsLease
  <2>3. CASE ~SetEnabled(c) /\ ~\E k : Reconcile(c, k)
    BY <1>3, <1>10, <2>3 DEF Operate, ReadSchedule, OpenMaintenanceWindow,
                            CloseMaintenanceWindow, LockDocs, UnlockDocs, dbVars
  <2> QED BY <2>1, <2>2, <2>3
<1>11. CASE WriteSchedule
  <2>1. UNCHANGED <<latest, changes, seen>>
        /\ \A d \in Connectors \ {edit.c} : conn'[d].due = conn[d].due
    BY <1>11 DEF WriteSchedule, DbTypes
  <2>2. \A t \in Syncs : sync[t] = NoSync \/ sync[t].c \in Connectors
    BY DEF SyncInv, Assigned
  <2>3. CASE edit.pull
    <3>1. sync' = Unleased(edit.c, sync)
      BY <1>11, <2>3 DEF WriteSchedule
    <3>2. \A t \in Syncs : Rests(t) /\ (sync[t] = NoSync \/ KeepsLease(t))
      BY <2>1, <3>1, UnleasedMoves
    <3>3. \A t \in Syncs : sync[t] = NoSync => sync'[t] = NoSync
      BY <3>1, UnleasedType DEF SyncInv
    <3> QED BY <1>2, <2>1, <3>2, <3>3
  <2>4. CASE ~edit.pull
    <3>1. sync' = sync /\ \A d \in Connectors : conn'[d].due = conn[d].due
      BY <1>11, <2>4 DEF WriteSchedule, DbTypes, Connector
    <3> QED BY <1>1, <1>2, <2>1, <2>2, <3>1 DEF KeepsLease
  <2> QED BY <2>3, <2>4
<1>12. CASE Tick
  BY <1>12, TickSame DEF Same, Rests, Tick
<1>13. CASE \/ \E e \in Engines : Poll(e)
            \/ \E c \in Connectors : ChangeLab(c)
            \/ LoseLock \/ UNCHANGED vars
  BY <1>3, <1>13 DEF Poll, ChangeLab, LoseLock, OnlyProcesses, dbVars, vars
<1>14. ASSUME NEW s \in Syncs, SyncStep(s) PROVE Goal
  BY <1>4, <1>5, <1>14 DEF SyncStep, Work
<1> HIDE DEF Goal
<1> QED
  BY <1>6, <1>7, <1>8, <1>9, <1>10, <1>11, <1>12, <1>13, <1>14 DEF Next

LEMMA FinishMoves ==
    ASSUME EngineInv, NEW s \in Syncs, Finish(s)
    PROVE  /\ \A t \in Syncs \ {s} : Rests(t)
           /\ sync'[s].pc \in {"docs", "exit"} /\ sync'[s].c = sync[s].c
           /\ \A t \in Syncs : sync'[t].left = sync[t].left
           /\ \A t \in Syncs : sync'[t].leased =>
                 sync[t].leased /\ (sync[t].c \in Connectors => conn'[sync[t].c].due = conn[sync[t].c].due)
<1>1. /\ \A t \in Syncs \ {s} : Same(t)
      /\ sync'[s].pc \in {"docs", "exit"} /\ sync'[s].c = sync[s].c
      /\ \A t \in Syncs : sync'[t].left = sync[t].left
  BY FinishFacts DEF EngineInv
<1>2. \/ conn' = conn /\ \A t \in Syncs : sync'[t].leased = sync[t].leased
      \/ /\ \A d \in Connectors : d # sync[s].c => conn'[d] = conn[d]
         /\ \A t \in Syncs : sync'[t].leased = (sync[t].leased /\ sync[t].c # sync[s].c)
  <2>1. \/ conn' = conn /\ \A t \in Syncs : sync'[t].leased = sync[t].leased
        \/ /\ conn' = [conn EXCEPT
                ![sync[s].c].due = NextRun(sync[s].cadence, sync[s].retries,
                                           sync[s].outcome = "success"),
                ![sync[s].c].retries = NextRetries(sync[s].retries, sync[s].outcome = "success")]
           /\ \A t \in Syncs : sync'[t].leased = (sync[t].leased /\ sync[t].c # sync[s].c)
    BY FinishFacts DEF EngineInv
  <2> QED BY <2>1 DEF EngineInv, DbTypes
<1>4. \A t \in Syncs : sync'[t].leased =>
                 sync[t].leased /\ (sync[t].c \in Connectors => conn'[sync[t].c].due = conn[sync[t].c].due)
  BY <1>2
<1> QED
  BY <1>1, <1>4 DEF Same, Rests

-----------------------------------------------------------------------------
(* The lease. *)

(* A lease outlives the time its holder has left, so while the holder is   *)
(* at work the connector is due for nobody.                                *)
LeaseInv ==
    /\ \A s \in Syncs : sync[s].leased => sync[s].pc \in InTime \cup {"exit"}
    /\ \A s \in Syncs : UnderLease(s) => conn[sync[s].c].due > sync[s].left
    /\ LeaseHolds

(* A step that extends nobody's lease and takes none keeps the leases. *)
LEMMA LeaseKept ==
    ASSUME EngineInv, LeaseInv,
           \A t \in Syncs : sync'[t].leased =>
              /\ sync[t].leased /\ sync'[t].c = sync[t].c /\ sync'[t].left = sync[t].left
              /\ sync'[t].pc \in InTime \cup {"exit"} /\ (sync'[t].pc \in InTime => sync[t].pc \in InTime)
              /\ conn'[sync[t].c].due = conn[sync[t].c].due
    PROVE  LeaseInv'
<1>1. \A t \in Syncs : UnderLease(t)' => UnderLease(t)
  BY DEF UnderLease
<1>2. LeaseHolds'
  BY <1>1 DEF LeaseInv, LeaseHolds, UnderLease
<1>3. \A s \in Syncs : UnderLease(s)' => conn'[sync'[s].c].due > sync'[s].left
  BY <1>1 DEF LeaseInv, UnderLease
<1> QED
  BY <1>2, <1>3 DEF LeaseInv

LEMMA LeaseStep == EngineInv /\ LeaseInv /\ [Next]_vars => LeaseInv'
<1> SUFFICES ASSUME EngineInv, LeaseInv, [Next]_vars PROVE LeaseInv'
  OBVIOUS
<1>1. "sem" \notin InTime \cup {"exit"} /\ "claim" \notin InTime \cup {"exit"} /\ "none" \notin InTime
      /\ "docs" \in InTime /\ "finish" \in InTime
  BY DEF InTime
<1>2. \A t \in Syncs : sync[t].pc # "none" => sync[t].c \in Connectors
  BY DEF EngineInv, SyncInv, Assigned, NoSync
<1>3. \A t \in Syncs : sync[t].leased => sync[t].c \in Connectors
  BY <1>1, <1>2 DEF LeaseInv
<1>4. ASSUME NEW s \in Syncs, Work(s) PROVE LeaseInv'
  <2>1. Moved(s) /\ (\/ sync'[s].leased = sync[s].leased /\ conn' = conn
                     \/ TakeLease(s) /\ Due(sync[s].c))
    BY <1>4, WorkMoves DEF EngineInv, Work
  <2>2. CASE sync'[s].leased = sync[s].leased /\ conn' = conn
    <3>1. sync[s].leased => sync[s].pc \in InTime
      BY <1>1, <2>1 DEF LeaseInv, Moved
    <3>2. \A t \in Syncs : sync'[t].leased =>
              /\ sync[t].leased /\ sync'[t].c = sync[t].c /\ sync'[t].left = sync[t].left
              /\ sync'[t].pc \in InTime \cup {"exit"} /\ (sync'[t].pc \in InTime => sync[t].pc \in InTime)
              /\ conn'[sync[t].c].due = conn[sync[t].c].due
      BY <2>1, <2>2, <3>1 DEF Moved, LeaseInv
    <3> QED BY <3>2, LeaseKept
  <2>3. CASE TakeLease(s) /\ ~(sync'[s].leased = sync[s].leased /\ conn' = conn)
    <3> DEFINE c == sync[s].c
    <3>1. Due(c) /\ c \in Connectors
      BY <1>2, <2>1, <2>3 DEF TakeLease
    <3>2. conn' = conn \/ (conn' = [conn EXCEPT ![c].due = LeaseTicks])
      BY <2>3 DEF TakeLease
    <3>3. sync'[s].left = sync[s].left /\ sync[s].left \in 0 .. Timeout /\ sync'[s].c = c
      BY <2>1 DEF Moved, EngineInv, SyncInv, Sync
    <3>4. conn' = [conn EXCEPT ![c].due = LeaseTicks] /\ sync'[s].pc = "read"
      <4>1. \/ conn' = [conn EXCEPT ![c].due = LeaseTicks]
                /\ sync' = [sync EXCEPT ![s].pc = "read", ![s].leased = TRUE]
            \/ conn' = conn /\ Goto(s, "exit")
        BY <2>3 DEF TakeLease
      <4>2. Goto(s, "exit") => sync'[s].leased = sync[s].leased
        BY GotoType DEF EngineInv, SyncInv, Pcs
      <4>3. sync' = [sync EXCEPT ![s].pc = "read", ![s].leased = TRUE] => sync'[s].pc = "read"
        BY DEF EngineInv, SyncInv, Sync
      <4> QED BY <2>3, <4>1, <4>2, <4>3
    <3>5. conn'[c].due > sync'[s].left /\ \A d \in Connectors \ {c} : conn'[d].due = conn[d].due
      <4>1. conn'[c].due = Timeout + 1 /\ \A d \in Connectors \ {c} : conn'[d].due = conn[d].due
        BY <3>1, <3>4 DEF LeaseTicks, EngineInv, DbTypes, Connector
      <4> QED BY <3>3, <4>1, EngineAssumption
    <3>6. \A t \in Syncs : UnderLease(t) => sync[t].c # c
      <4>1. \A t \in Syncs : sync[t].left \in Nat
        BY DEF EngineInv, SyncInv, Sync
      <4>2. conn[c].due \in Int /\ conn[c].due <= 0
        BY <3>1 DEF Due, EngineInv, DbTypes, Connector, Ticks, Unset
      <4> QED BY <4>1, <4>2 DEF LeaseInv
    <3>7. \A t \in Syncs \ {s} : sync'[t] = sync[t]
      BY <2>1 DEF Moved
    <3>8. \A t \in Syncs \ {s} : UnderLease(t)' => UnderLease(t) /\ sync[t].c \in Connectors \ {c}
      BY <1>3, <3>6, <3>7 DEF UnderLease
    <3> HIDE DEF c
    <3>9. LeaseHolds'
      BY <3>3, <3>7, <3>8 DEF LeaseHolds, LeaseInv, UnderLease
    <3>10. \A t \in Syncs : UnderLease(t)' => conn'[sync'[t].c].due > sync'[t].left
      BY <3>3, <3>5, <3>7, <3>8 DEF LeaseInv
    <3>11. \A t \in Syncs : sync'[t].leased => sync'[t].pc \in InTime \cup {"exit"}
      BY <2>1, <3>7 DEF LeaseInv, Moved
    <3> QED BY <3>9, <3>10, <3>11 DEF LeaseInv
  <2> QED BY <2>1, <2>2, <2>3
<1>5. ASSUME NEW s \in Syncs, Finish(s) PROVE LeaseInv'
  <2>1. sync[s].pc = "finish"
    BY <1>5 DEF Finish
  <2>2. \A t \in Syncs : sync'[t].leased =>
              /\ sync[t].leased /\ sync'[t].c = sync[t].c /\ sync'[t].left = sync[t].left
              /\ sync'[t].pc \in InTime \cup {"exit"} /\ (sync'[t].pc \in InTime => sync[t].pc \in InTime)
              /\ conn'[sync[t].c].due = conn[sync[t].c].due
    BY <1>1, <1>3, <1>5, <2>1, FinishMoves DEF Rests, LeaseInv
  <2> QED BY <2>2, LeaseKept
<1>6. CASE Tick
  <2>1. /\ \A t \in Syncs : /\ Same(t) /\ sync'[t].leased = sync[t].leased
                            /\ sync'[t].left = IF sync[t].pc \in InTime THEN sync[t].left - 1
                                               ELSE sync[t].left
    BY <1>6, TickSame DEF EngineInv
  <2>2. \A t \in Syncs : UnderLease(t)' => UnderLease(t)
    BY <2>1 DEF Same, UnderLease
  <2>3. ASSUME NEW t \in Syncs, UnderLease(t) PROVE conn'[sync'[t].c].due > sync'[t].left
    <3>1. sync[t].left \in Nat /\ sync'[t].left = sync[t].left - 1 /\ sync'[t].c = sync[t].c
      BY <2>1, <2>3 DEF Same, UnderLease, EngineInv, SyncInv, Sync
    <3>2. sync[t].c \in Connectors /\ conn[sync[t].c].due > sync[t].left
      BY <1>3, <2>3 DEF LeaseInv, UnderLease
    <3>3. conn[sync[t].c] \in Connector /\ conn[sync[t].c].due \in Int
      BY <3>2 DEF EngineInv, DbTypes, Connector, Ticks, Unset
    <3>4. conn'[sync[t].c].due = Down(conn[sync[t].c].due)
      BY <1>6, <3>2, <3>3 DEF Tick, Connector
    <3> QED BY <3>1, <3>2, <3>3, <3>4 DEF Down
  <2>4. LeaseHolds'
    BY <2>1, <2>2 DEF LeaseInv, LeaseHolds, Same
  <2> QED BY <2>1, <2>2, <2>3, <2>4 DEF LeaseInv, Same
<1>7. CASE ~Tick /\ \A s \in Syncs : ~Work(s) /\ ~Finish(s)
  <2>1. \A t \in Syncs : (Fresh(t) \/ Rests(t)) /\ (Fresh(t) \/ KeepsLease(t))
    BY <1>7, OtherMoves
  <2>2. \A t \in Syncs : sync'[t].leased =>
              /\ sync[t].leased /\ sync'[t].c = sync[t].c /\ sync'[t].left = sync[t].left
              /\ sync'[t].pc \in InTime \cup {"exit"} /\ (sync'[t].pc \in InTime => sync[t].pc \in InTime)
              /\ conn'[sync[t].c].due = conn[sync[t].c].due
    <3> SUFFICES ASSUME NEW t \in Syncs, sync'[t].leased
                 PROVE  /\ sync[t].leased /\ sync'[t].c = sync[t].c /\ sync'[t].left = sync[t].left
                        /\ sync'[t].pc \in InTime \cup {"exit"}
                        /\ (sync'[t].pc \in InTime => sync[t].pc \in InTime)
                        /\ conn'[sync[t].c].due = conn[sync[t].c].due
      OBVIOUS
    <3>1. Rests(t) /\ KeepsLease(t)
      BY <2>1 DEF Fresh
    <3>2. sync[t].pc \in InTime \cup {"exit"}
      BY <3>1 DEF KeepsLease, LeaseInv
    <3>3. sync[t].pc # "claim"
      BY <1>1, <3>2
    <3> QED BY <3>1, <3>2, <3>3 DEF Rests, KeepsLease
  <2> QED BY <2>2, LeaseKept
<1> QED
  BY <1>4, <1>5, <1>6, <1>7

LEMMA LeaseInit == Init => LeaseInv
  BY NoSyncFields DEF Init, LeaseInv, LeaseHolds, UnderLease

(* While a scheduled sync runs under its lease, no process claims its      *)
(* connector, whatever operators and syncs without a lease write over it   *)
(* (store/connector_sync.go, ClaimDueConnector).                           *)
THEOREM LeaseExclusive == Spec => []LeaseHolds
<1>1. LeaseInv => LeaseHolds
  BY DEF LeaseInv
<1> QED
  BY <1>1, EngineAlways, EngineInit, EngineStep, LeaseInit, LeaseStep, PTL DEF Spec

-----------------------------------------------------------------------------
(* The documents. *)

(* A full sync that reports success has stored or reused a snapshot. *)
SuccessInv ==
    \A s \in Syncs : sync[s].outcome = "success" =>
        sync[s].pc \in Ended /\ (sync[s].kind # "fields" => sync[s].saved)

LEMMA FinishOutcome ==
    ASSUME EngineInv, NEW s \in Syncs, Finish(s)
    PROVE  /\ sync'[s].kind = sync[s].kind /\ sync'[s].outcome = sync[s].outcome
           /\ sync'[s].saved = sync[s].saved
           /\ sync[s].outcome = "success" /\ sync[s].saved => sync'[s].pc = "docs"
  BY FinishFacts DEF EngineInv

LEMMA SuccessStep == EngineInv /\ SuccessInv /\ [Next]_vars => SuccessInv'
<1> SUFFICES ASSUME EngineInv, SuccessInv, [Next]_vars PROVE SuccessInv'
  OBVIOUS
<1>1. ASSUME NEW s \in Syncs, Work(s) PROVE SuccessInv'
  <2>1. Moved(s)
    BY <1>1, WorkMoves DEF EngineInv, Work
  <2>2. sync'[s].outcome = "success" =>
          sync'[s].pc \in Ended /\ (sync'[s].kind # "fields" => sync'[s].saved)
    BY <2>1 DEF Moved, SuccessInv, Ended
  <2> QED BY <2>1, <2>2 DEF Moved, SuccessInv
<1>2. ASSUME NEW s \in Syncs, Finish(s) PROVE SuccessInv'
  <2>1. sync'[s].outcome = "success" =>
          sync'[s].pc \in Ended /\ (sync'[s].kind # "fields" => sync'[s].saved)
    BY <1>2, FinishOutcome, FinishMoves DEF SuccessInv, Ended
  <2> QED BY <1>2, <2>1, FinishMoves DEF Rests, SuccessInv, Ended
<1>3. CASE \A s \in Syncs : ~Work(s) /\ ~Finish(s)
  BY <1>3, OtherMoves DEF Fresh, Rests, SuccessInv, Ended
<1> QED
  BY <1>1, <1>2, <1>3

LEMMA SuccessInit == Init => SuccessInv
  BY NoSyncFields DEF Init, SuccessInv

(* A full sync that reports success leaves the documents rendered from the *)
(* newest snapshot, unless a lock, its context or the store prevents it    *)
(* (sync/run.go, finishSync).                                              *)
THEOREM DocumentsCaughtUp == Spec => DocsCaughtUp
<1>1. ASSUME EngineInv, SuccessInv, [Next]_vars
      PROVE  \A s \in Syncs :
               (/\ sync[s].outcome = "success" /\ sync[s].kind # "fields"
                /\ sync[s].pc # "exit" /\ sync'[s].pc = "exit")
               => docs'[sync[s].c] \/ docLock[sync[s].c] \/ CtxDone(s) \/ faults' # faults
  <2> SUFFICES ASSUME NEW s \in Syncs, sync[s].outcome = "success", sync[s].kind # "fields",
                      sync[s].pc # "exit", sync'[s].pc = "exit"
               PROVE  docs'[sync[s].c] \/ docLock[sync[s].c] \/ CtxDone(s) \/ faults' # faults
    OBVIOUS
  <2>1. sync[s].pc \in {"finish", "docs"} /\ sync[s].saved
    BY <1>1 DEF SuccessInv, Ended
  <2>2. ~Finish(s)
    BY <1>1, <2>1, FinishOutcome
  <2>3. ASSUME NEW t \in Syncs, t # s, Work(t) \/ Finish(t) PROVE FALSE
    <3>1. sync'[s].pc = sync[s].pc
      BY <1>1, <2>1, <2>3, WorkMoves, FinishMoves DEF EngineInv, Work, Moved, Rests
    <3> QED BY <3>1
  <2>4. Work(s)
    <3>1. CASE \A t \in Syncs : ~Work(t) /\ ~Finish(t)
      <4>1. Fresh(s) \/ Rests(s)
        BY <1>1, <3>1, OtherMoves
      <4> QED BY <4>1 DEF Fresh, Rests
    <3> QED BY <2>2, <2>3, <3>1
  <2>5. Regenerate(s)
    <3>1. Moved(s)
      BY <1>1, <2>4, WorkMoves DEF EngineInv, Work
    <3>2. sync[s].pc = "docs"
      BY <2>1, <3>1 DEF Moved, Ended
    <3> QED BY <2>4, <3>2 DEF Work, Acquire, TakeLease, Read, Credentials, Fetch, ReadBase,
                             ReadWindow, Save
  <2>6. sync[s].c \in Connectors /\ faults \in Nat
    BY <1>1, <2>1, EngineAssumption DEF EngineInv, SyncInv, Assigned, NoSync, ProcTypes
  <2>7. CASE ~docLock[sync[s].c] /\ docs' = [docs EXCEPT ![sync[s].c] = TRUE]
    BY <1>1, <2>6, <2>7 DEF EngineInv, DbTypes
  <2>8. CASE docLock[sync[s].c]
    BY <2>8
  <2>9. CASE Breaks(s)
    BY <2>6, <2>9 DEF Breaks, StoreError
  <2> QED BY <2>5, <2>7, <2>8, <2>9 DEF Regenerate
<1> QED
  BY <1>1, EngineInit, EngineStep, SuccessInit, SuccessStep, PTL DEF Spec, DocsCaughtUp

-----------------------------------------------------------------------------
(* The chain of snapshots, in one process. *)

OneProcess == \A e, f \in Engines : e = f

(* Then nobody else is at work on the connector of a sync at work. *)
LEMMA AloneAtWork ==
    ASSUME OneProcess, SyncInv, NEW s \in Syncs, NEW t \in Syncs,
           sync[s].pc \in Holding, sync[t].pc \in Holding, sync[s].c = sync[t].c
    PROVE  s = t
<1>1. \A u \in Syncs : sync[u].pc \in Holding => sync[u].e \in Engines /\ SlotOf(u) = u
  BY DEF SyncInv, SlotNames, Assigned, NoSync, Holding, InTime
<1> QED
  BY <1>1 DEF OneProcess, SlotOf

(* A snapshot merged into the newest one keeps what was observed. *)
LEMMA StoreKeeps ==
    ASSUME DbTypes, KeepsLastSeen, NEW c \in Connectors, NEW sn \in Fetched, Observe(c, sn),
           latest' = [latest EXCEPT ![c] = preserveFailedSections(latest[c], sn)]
    PROVE  KeepsLastSeen'
<1> DEFINE new == preserveFailedSections(latest[c], sn)
<1>1. new \in Snapshot
  BY MergedType DEF DbTypes
<1>2. new # NoSnapshot
  BY <1>1, SnapshotAssumption DEF Snapshot, Section
<1>3. \A x \in Sections : seen'[c][x] = IF sn[x] = Failed THEN seen[c][x] ELSE sn[x]
  BY DEF Observe, DbTypes
<1>4. \A x \in Sections : new[x].content = IF sn[x] = Failed THEN PreviousContent(latest[c], x)
                                           ELSE sn[x]
  BY DEF preserveFailedSections
<1>5. \A x \in Sections : seen[c][x] \in Values => PreviousContent(latest[c], x) = seen[c][x]
  BY SnapshotAssumption DEF KeepsLastSeen, PreviousContent
<1>6. \A d \in Connectors \ {c} : seen'[d] = seen[d] /\ latest'[d] = latest[d]
  BY DEF Observe, DbTypes
<1>7. latest'[c] = new
  BY DEF DbTypes
<1> HIDE DEF new
<1> QED
  BY <1>2, <1>3, <1>4, <1>5, <1>6, <1>7 DEF KeepsLastSeen

ChainInv == BaseIsLatest /\ KeepsLastSeen

LEMMA ChainStep ==
    ASSUME OneProcess, EngineInv, ChainInv, [Next]_vars
    PROVE  ChainInv'
<1> USE DEF EngineInv, ChainInv
<1>1. {"window", "save"} \subseteq Holding /\ {"sem", "docs", "exit", "finish"} \cap {"window", "save"} = {}
      /\ {"none", "claim"} \cap {"window", "save"} = {}
  BY DEF Holding, InTime
<1>2. ASSUME NEW s \in Syncs, Moved(s), latest' = latest PROVE BaseIsLatest'
  BY <1>2 DEF Moved, BaseIsLatest
<1>3. ASSUME NEW s \in Syncs, Save(s) PROVE ChainInv'
  <2> DEFINE c == sync[s].c
  <2>1. Moved(s) /\ sync[s].pc = "save" /\ sync'[s].pc \notin {"window", "save"}
    BY <1>3, WorkMoves DEF Moved, Save
  <2>2. c \in Connectors /\ sync[s].got \in Fetched /\ sync[s].base = latest[c]
    BY <2>1 DEF SyncInv, Assigned, NoSync, DataInHand, WithData, BaseIsLatest
  <2>3. CASE UNCHANGED <<latest, seen>>
    BY <1>2, <2>1, <2>3 DEF KeepsLastSeen
  <2>4. CASE /\ latest' = [latest EXCEPT ![c] = Merged(s)] /\ Observe(c, sync[s].got)
    <3>1. KeepsLastSeen'
      BY <2>2, <2>4, StoreKeeps DEF Merged
    <3>2. \A t \in Syncs \ {s} : sync[t].pc \in {"window", "save"} => sync[t].c # c
      BY <1>1, <2>1, AloneAtWork
    <3>3. \A t \in Syncs : sync[t].pc \in {"window", "save"} => sync[t].c \in Connectors
      BY DEF SyncInv, Assigned, NoSync
    <3>4. \A d \in Connectors \ {c} : latest'[d] = latest[d]
      BY <2>4 DEF DbTypes
    <3>5. BaseIsLatest'
      BY <2>1, <3>2, <3>3, <3>4 DEF Moved, BaseIsLatest
    <3> QED BY <3>1, <3>5
  <2> QED BY <1>3, <2>3, <2>4 DEF Save
<1>4. ASSUME NEW s \in Syncs, ReadBase(s) PROVE ChainInv'
  <2> DEFINE c == sync[s].c
  <2>1. Moved(s) /\ latest' = latest
    BY <1>4, WorkMoves DEF ReadBase
  <2>2. c \in Connectors /\ sync[s].got \in Fetched
    BY <1>4 DEF ReadBase, SyncInv, Assigned, NoSync, DataInHand, WithData
  <2>3. CASE seen' = seen
    BY <1>2, <2>1, <2>3 DEF KeepsLastSeen
  <2>4. CASE preserveFailedSections(latest[c], sync[s].got) = latest[c] /\ Observe(c, sync[s].got)
    <3>1. latest' = [latest EXCEPT ![c] = preserveFailedSections(latest[c], sync[s].got)]
      BY <2>1, <2>2, <2>4 DEF DbTypes
    <3>2. KeepsLastSeen'
      BY <2>2, <2>4, <3>1, StoreKeeps
    <3> QED BY <1>2, <2>1, <3>2
  <2> QED BY <1>4, <2>3, <2>4 DEF ReadBase
<1>5. ASSUME NEW s \in Syncs, Work(s), ~Save(s), ~ReadBase(s) PROVE ChainInv'
  <2>1. UNCHANGED <<latest, seen>>
    BY <1>5 DEF Work, Acquire, TakeLease, Read, Credentials, Fetch, ReadWindow, Regenerate, dbVars
  <2>2. Moved(s)
    BY <1>5, WorkMoves DEF Work
  <2> QED BY <1>2, <2>1, <2>2 DEF KeepsLastSeen
<1>6. ASSUME NEW s \in Syncs, Finish(s) PROVE ChainInv'
  <2>1. UNCHANGED <<latest, seen>>
    BY <1>6 DEF Finish
  <2>2. BaseIsLatest'
    BY <1>1, <1>6, <2>1, FinishMoves DEF Rests, BaseIsLatest
  <2> QED BY <2>1, <2>2 DEF KeepsLastSeen
<1>7. CASE \A s \in Syncs : ~Work(s) /\ ~Finish(s)
  <2>1. UNCHANGED <<latest, seen>> /\ \A t \in Syncs : Fresh(t) \/ Rests(t)
    BY <1>7, OtherMoves
  <2>2. BaseIsLatest'
    BY <1>1, <2>1 DEF Fresh, Rests, BaseIsLatest
  <2> QED BY <2>1, <2>2 DEF KeepsLastSeen
<1> QED
  BY <1>3, <1>4, <1>5, <1>6, <1>7

LEMMA ChainInit == Init => ChainInv
<1> SUFFICES ASSUME Init PROVE ChainInv
  OBVIOUS
<1> QED
  BY NoSyncFields, EngineAssumption DEF Init, ChainInv, BaseIsLatest, KeepsLastSeen

LEMMA ChainAlways ==
    ASSUME OneProcess
    PROVE  Spec => [](EngineInv /\ ChainInv)
<1>1. EngineInv /\ ChainInv /\ [Next]_vars => ChainInv'
  BY ChainStep
<1> QED
  BY <1>1, EngineInit, EngineStep, ChainInit, PTL DEF Spec

(* The diff is made against the snapshot that is still the newest when it  *)
(* is stored, as long as one process syncs (sync/run.go,                   *)
(* persistSyncSnapshot).                                                   *)
THEOREM BaseStaysLatest ==
    ASSUME OneProcess
    PROVE  Spec => []BaseIsLatest
<1>1. ChainInv => BaseIsLatest
  BY DEF ChainInv
<1> QED
  BY <1>1, ChainAlways, PTL

(* Whatever failed since, the newest snapshot holds the last content that  *)
(* was observed of a section (sync/preserve.go, preserveFailedSections).   *)
THEOREM LastSeenKept ==
    ASSUME OneProcess
    PROVE  Spec => []KeepsLastSeen
<1>1. ChainInv => KeepsLastSeen
  BY DEF ChainInv
<1> QED
  BY <1>1, ChainAlways, PTL

(* What the diff says of a section whose content was known. *)
LEMMA DiffOfKnown ==
    ASSUME NEW old \in Snapshot, NEW sn \in Fetched, NEW x \in Sections, old[x].content \in Values
    PROVE  x \in Compare(old, preserveFailedSections(old, sn))
              <=> sn[x] \notin {Failed, old[x].content}
<1> DEFINE new == preserveFailedSections(old, sn)
<1>1. old # NoSnapshot /\ old[x].content \notin {Absent, Blank, Failed}
  BY SnapshotAssumption DEF Snapshot, Section
<1>2. new[x] = IF sn[x] = Failed THEN [content |-> old[x].content, failed |-> TRUE]
               ELSE [content |-> sn[x], failed |-> FALSE]
  BY <1>1 DEF preserveFailedSections, PreviousContent
<1> HIDE DEF new
<1>3. x \in Compare(old, new) <=> \/ new[x].content = Absent
                                  \/ ~new[x].failed /\ old[x].content # new[x].content
  BY <1>1 DEF Compare, Has
<1>4. CASE sn[x] = Failed
  <2>1. new[x].content = old[x].content /\ new[x].failed
    BY <1>2, <1>4
  <2> QED BY <1>1, <1>3, <1>4, <2>1 DEF new
<1>5. CASE sn[x] # Failed
  <2>1. new[x].content = sn[x] /\ ~new[x].failed
    BY <1>2, <1>5
  <2> QED BY <1>1, <1>3, <1>5, <2>1 DEF new
<1> QED
  BY <1>4, <1>5

(* A section whose content was known is reported if, and only if, it was   *)
(* observed now and differs, unless a maintenance window was seen          *)
(* (sync/diff.go, Compare; sync/run.go, createSyncChanges).                *)
THEOREM DriftReported ==
    ASSUME OneProcess
    PROVE  Spec => DriftIsReported
<1> DEFINE Reported(s) ==
      LET c == sync[s].c
          now == sync[s].got IN
      \A x \in Sections : seen[c][x] \in Values =>
        (x \in changes'[c] <=> ~ sync[s].muted /\ now[x] \notin {Failed, seen[c][x]})
<1>1. ASSUME EngineInv, ChainInv, [Next]_vars
      PROVE  \A s \in Syncs : Stores(s) => Reported(s)
  <2> SUFFICES ASSUME NEW s \in Syncs, Stores(s) PROVE Reported(s)
    OBVIOUS
  <2> DEFINE c == sync[s].c  sn == sync[s].got
  <2>1. /\ sync[s].pc \in {"base", "save"} /\ sync'[s].pc = "finish" /\ sync'[s].saved
        /\ c \in Connectors /\ sn \in Fetched
    BY <1>1 DEF Stores, EngineInv, SyncInv, Assigned, NoSync, DataInHand, WithData
  <2>2. \A x \in Sections : seen[c][x] \in Values =>
          latest[c] \in Snapshot /\ latest[c][x].content = seen[c][x]
    BY <1>1, <2>1 DEF EngineInv, DbTypes, ChainInv, KeepsLastSeen
  <2>3. Save(s) \/ ReadBase(s)
    <3>1. ASSUME NEW t \in Syncs, t # s, Work(t) \/ Finish(t) PROVE FALSE
      BY <1>1, <2>1, <3>1, WorkMoves, FinishMoves DEF EngineInv, Work, Moved, Rests
    <3>2. CASE \A t \in Syncs : ~Work(t) /\ ~Finish(t)
      <4>1. Fresh(s) \/ Rests(s)
        BY <1>1, <3>2, OtherMoves
      <4> QED BY <2>1, <4>1 DEF Fresh, Rests
    <3>3. CASE Work(s)
      BY <2>1, <3>3 DEF Work, Acquire, TakeLease, Read, Credentials, Fetch, ReadWindow, Regenerate
    <3>4. ~Finish(s)
      BY <2>1 DEF Finish
    <3> QED BY <3>1, <3>2, <3>3, <3>4
  <2>4. CASE Save(s)
    <3>1. ~ToFinish(s, "error", FALSE)
      BY <1>1, <2>1, ToFinishType DEF EngineInv, SyncInv, Outcomes
    <3>2. sync[s].base = latest[c]
      BY <1>1, <2>4 DEF Save, ChainInv, BaseIsLatest
    <3> DEFINE diff == IF sync[s].base = NoSnapshot \/ sync[s].muted THEN {}
                       ELSE Compare(sync[s].base, Merged(s))
    <3>3. changes' = [changes EXCEPT ![c] = diff]
      BY <2>4, <3>1 DEF Save
    <3>4. changes'[c] = diff
      <4> HIDE DEF diff
      <4> QED BY <1>1, <2>1, <3>3 DEF EngineInv, DbTypes
    <3>5. changes'[c] = IF latest[c] = NoSnapshot \/ sync[s].muted THEN {}
                        ELSE Compare(latest[c], preserveFailedSections(latest[c], sn))
      BY <3>2, <3>4 DEF Merged
    <3>6. ASSUME NEW x \in Sections, seen[c][x] \in Values
          PROVE  x \in changes'[c] <=> ~ sync[s].muted /\ sn[x] \notin {Failed, seen[c][x]}
      <4>1. latest[c] \in Snapshot /\ latest[c][x].content = seen[c][x] /\ latest[c] # NoSnapshot
        BY <2>2, <3>6, SnapshotAssumption DEF Snapshot, Section
      <4>2. x \in Compare(latest[c], preserveFailedSections(latest[c], sn))
              <=> sn[x] \notin {Failed, seen[c][x]}
        BY <2>1, <3>6, <4>1, DiffOfKnown
      <4> QED BY <3>5, <4>1, <4>2
    <3> QED BY <3>6
  <2>5. CASE ReadBase(s)
    <3>1. ~ToFinish(s, "error", FALSE)
      BY <1>1, <2>1, ToFinishType DEF EngineInv, SyncInv, Outcomes
    <3>2. sync' # [sync EXCEPT ![s].pc = "window", ![s].base = latest[c]]
      BY <1>1, <2>1 DEF EngineInv, SyncInv, Sync
    <3>3. preserveFailedSections(latest[c], sn) = latest[c] /\ changes'[c] = {}
      BY <1>1, <2>1, <2>5, <3>1, <3>2 DEF ReadBase, EngineInv, DbTypes
    <3>4. ASSUME NEW x \in Sections, seen[c][x] \in Values
          PROVE  sn[x] \in {Failed, seen[c][x]}
      <4>1. latest[c][x].content = seen[c][x]
        BY <2>2, <3>4
      <4> QED BY <3>3, <4>1 DEF preserveFailedSections
    <3> QED BY <3>3, <3>4
  <2> QED BY <2>3, <2>4, <2>5
<1> QED
  BY <1>1, ChainAlways, PTL DEF Spec, DriftIsReported
=============================================================================
