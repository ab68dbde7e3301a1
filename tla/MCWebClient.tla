------------------------------ MODULE MCWebClient ------------------------------
(***************************************************************************)
(* The parts of the web client, checked side by side.  They share no state *)
(* (each keeps its own part of the caches and stores), so a behaviour is   *)
(* one of one part, chosen by the route, while the others rest in a state  *)
(* in which nothing is under way.                                          *)
(***************************************************************************)
EXTENDS DocDraft, DocLock, LiveEvents, WebSession, DiscoveryPanel, RunDecision

VARIABLE route   \* the part that the behaviour is about

webVars == <<route, docVars, lockVars, liveVars, sessionVars, panelVars, decisionVars>>

(* The texts are interchangeable: any of them will do for the first version. *)
OneText == DocInit /\ docText = CHOOSE t \in Texts : TRUE
SessionRests ==
  /\ cookie = 0 /\ liveTokens = {} /\ status = "anonymous" /\ mfaTicket = FALSE
  /\ access = "none" /\ call = [c \in Calls |-> NoCall]
  /\ flight = [f \in Callers |-> NoFlight]
PanelRests ==
  /\ scan = NoScan /\ stopping = FALSE /\ mine = 0
  /\ shownScan = NoScan /\ scanCache = NoScan /\ readError = "absent"
  /\ scanRead = Idle /\ start = Idle /\ cancel = Idle /\ socketOpen = TRUE
  /\ scanFrames = <<>> /\ cancels = 0 /\ drops = 0 /\ readFaults = 0
DecisionRests ==
  /\ runNow = NoRun /\ runShown = NoRun /\ runFetch = NoFetch /\ dialog = "none"
  /\ choice = "none" /\ basis = NoBasis /\ resumeReq = NoResume /\ knowsGone = FALSE
  /\ opened = NoRun

WebInit ==
  /\ route \in {"doc", "lock", "live", "session", "panel", "decision"}
  /\ OneText /\ LockInit /\ LiveInit /\ alerts = (IF route = "live" THEN MaxAlerts ELSE 0)
  /\ IF route = "session" THEN SessionInit ELSE SessionRests
  /\ IF route = "panel" THEN PanelInit ELSE PanelRests
  /\ IF route = "decision" THEN DecisionInit ELSE DecisionRests

WebNext ==
  /\ route' = route
  /\ \/ /\ route = "doc" /\ DocNext
        /\ UNCHANGED <<lockVars, liveVars, sessionVars, panelVars, decisionVars>>
     \/ /\ route = "lock" /\ LockNext
        /\ UNCHANGED <<docVars, liveVars, sessionVars, panelVars, decisionVars>>
     \/ /\ route = "live" /\ LiveNext
        /\ UNCHANGED <<docVars, lockVars, sessionVars, panelVars, decisionVars>>
     \/ /\ route = "session" /\ SessionNext
        /\ UNCHANGED <<docVars, lockVars, liveVars, panelVars, decisionVars>>
     \/ /\ route = "panel" /\ PanelNext
        /\ UNCHANGED <<docVars, lockVars, liveVars, sessionVars, decisionVars>>
     \/ /\ route = "decision" /\ DecisionNext
        /\ UNCHANGED <<docVars, lockVars, liveVars, sessionVars, panelVars>>

(* No fair action is enabled in a part that rests, so each part's fairness is *)
(* asked of it alone.                                                         *)
WebSpec ==
  /\ WebInit /\ [][WebNext]_webVars
  /\ LockFairness /\ LiveFairness /\ SessionFairness /\ PanelFairness

(* Every part keeps to its types, the resting ones included. *)
WebTypeOK ==
  /\ DocTypeOK /\ LockTypeOK /\ LiveTypeOK /\ SessionTypeOK /\ PanelTypeOK /\ DecisionTypeOK

=============================================================================
