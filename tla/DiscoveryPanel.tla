---------------------------- MODULE DiscoveryPanel ----------------------------
(***************************************************************************)
(* The panel of a network scan: it shows the scan that the server runs or  *)
(* ran last, from three sources that overtake one another: the answers to  *)
(* starting and cancelling, a read that is polled while the panel shows a  *)
(* running scan, and events, which only reach the admin who started the    *)
(* scan and only while the socket is open.                                 *)
(***************************************************************************)
EXTENDS Naturals, Sequences

CONSTANTS Hosts,           \* candidates that a scan can find
          MaxScans,        \* bound: scans started
          MaxCancels,      \* bound: times the admin cancels
          MaxTroubles      \* bound: times the socket breaks, an event is dropped or a read fails

ASSUME PanelAssumption == MaxScans \in Nat /\ MaxCancels \in Nat /\ MaxTroubles \in Nat

VARIABLES
  scan,         \* server: the scan, number 0 when there is none
  stopping,     \* server: the running scan was cancelled and winds down
  mine,         \* number of the scan that this panel started last
  shownScan,    \* discovery store: the scan on display
  scanCache,    \* query cache: the scan read last
  readError,    \* how the last read failed: "none", "absent" (no scan) or "other"
  scanRead,     \* the read under way
  start,        \* the request that starts a scan
  cancel,       \* the request that cancels it
  socketOpen,   \* the event socket is open
  scanFrames,   \* events on their way
  cancels,      \* times the admin cancelled so far
  drops,        \* times the socket broke or an event was dropped so far
  readFaults    \* reads that failed so far

panelVars == <<scan, stopping, mine, shownScan, scanCache, readError, scanRead, start, cancel,
               socketOpen, scanFrames, cancels, drops, readFaults>>

NoScan == [id |-> 0, state |-> "none", found |-> {}]
Scans == [id : 0..MaxScans, state : {"none", "running", "ended"}, found : SUBSET Hosts]
Idle == [st |-> "none", scan |-> NoScan]
Requested == [Idle EXCEPT !.st = "sent"]
Requests == [st : {"none", "sent", "waiting", "answered"}, scan : Scans]

(* The state has its types. *)
PanelTypeOK ==
  /\ scan \in Scans /\ shownScan \in Scans /\ scanCache \in Scans
  /\ stopping \in BOOLEAN
  /\ mine \in 0..MaxScans /\ readError \in {"none", "absent", "other"} /\ socketOpen \in BOOLEAN
  /\ scanRead \in Requests /\ start \in Requests /\ cancel \in Requests
  /\ scanFrames \in Seq([id : 1..MaxScans, host : Hosts \cup {"complete"}])
  /\ cancels \in 0..MaxCancels /\ drops \in 0..MaxTroubles /\ readFaults \in 0..MaxTroubles

(* The panel is opened; it reads the scan of the server first, which others *)
(* may have started and ended before the read is served.                    *)
PanelInit ==
  /\ scan = NoScan /\ stopping = FALSE
  /\ mine = 0
  /\ shownScan = NoScan /\ scanCache = NoScan /\ readError = "none"
  /\ scanRead = Requested /\ start = Idle /\ cancel = Idle
  /\ socketOpen = TRUE /\ scanFrames = <<>>
  /\ cancels = 0 /\ drops = 0 /\ readFaults = 0

requests == <<start, cancel>>
faultVars == <<cancels, drops, readFaults>>
eventVars == <<socketOpen, scanFrames>>
scanner == <<scan, stopping, mine>>
panel == <<shownScan, scanCache, readError, scanRead>>

(* An event goes to the admin who started the scan, if the socket is open and *)
(* the hub does not drop it.                                                  *)
Heard == socketOpen /\ scan.id = mine
Emit(e) ==
  \/ /\ scanFrames' = IF Heard THEN Append(scanFrames, [id |-> scan.id, host |-> e])
                      ELSE scanFrames
     /\ drops' = drops
  \/ /\ Heard /\ drops + readFaults < MaxTroubles /\ drops' = drops + 1
     /\ scanFrames' = scanFrames

(* A read starts, replacing one under way if something was read before.  The *)
(* effect that copies what was read runs again, with what was read before.   *)
ReadAgain ==
  /\ scanRead' = IF scanRead.st = "none" \/ scanCache.id > 0 THEN Requested ELSE scanRead
  /\ shownScan' = IF scanRead.st = "none" /\ scanCache.id > 0 /\ readError = "none"
                  THEN scanCache ELSE shownScan

-----------------------------------------------------------------------------
(* The server. *)

(* A candidate is found; a scan that was cancelled takes no more. *)
ScanFinds(h) ==
  /\ scan.state = "running" /\ ~stopping /\ h \notin scan.found
  /\ scan' = [scan EXCEPT !.found = @ \cup {h}]
  /\ Emit(h)
  /\ UNCHANGED <<stopping, mine, panel, requests, socketOpen, cancels, readFaults>>

(* The run ends, says so, and a cancel that waits for it is answered.  What *)
(* takes time between these is time on the way to the panel.                *)
ScanEnds ==
  /\ scan.state = "running"
  /\ scan' = [scan EXCEPT !.state = "ended"] /\ stopping' = FALSE
  /\ Emit("complete")
  /\ cancel' = IF cancel.st = "waiting" THEN [st |-> "answered", scan |-> scan'] ELSE cancel
  /\ UNCHANGED <<mine, panel, start, socketOpen, cancels, readFaults>>

NewScan == [id |-> scan.id + 1, state |-> "running", found |-> {}]

(* Another admin starts a scan. *)
OtherStarts ==
  /\ scan.state # "running" /\ scan.id < MaxScans
  /\ scan' = NewScan
  /\ UNCHANGED <<stopping, mine, panel, requests, eventVars, faultVars>>

(* One scan runs at a time: starting another is refused. *)
StartServed ==
  /\ start.st = "sent"
  /\ IF scan.state = "running"
     THEN /\ start' = [Idle EXCEPT !.st = "answered"]
          /\ UNCHANGED <<scan, mine>>
     ELSE /\ scan.id < MaxScans
          /\ scan' = NewScan /\ mine' = scan'.id
          /\ start' = [st |-> "answered", scan |-> scan']
  /\ UNCHANGED <<stopping, panel, cancel, eventVars, faultVars>>

(* Cancelling stops the running scan and waits for its end; without one it *)
(* fails.                                                                  *)
CancelServed ==
  /\ cancel.st = "sent"
  /\ IF scan.state = "running"
     THEN stopping' = TRUE /\ cancel' = [Idle EXCEPT !.st = "waiting"]
     ELSE cancel' = [Idle EXCEPT !.st = "answered"] /\ UNCHANGED stopping
  /\ UNCHANGED <<scan, mine, panel, start, eventVars, faultVars>>

(* It does not wait for good, and then answers the scan as it stands. *)
CancelTimesOut ==
  /\ cancel.st = "waiting"
  /\ cancel' = [st |-> "answered", scan |-> scan]
  /\ UNCHANGED <<scanner, panel, start, eventVars, faultVars>>

ReadServed ==
  /\ scanRead.st = "sent"
  /\ scanRead' = [st |-> "answered", scan |-> scan]
  /\ UNCHANGED <<scanner, shownScan, scanCache, readError, requests, eventVars, faultVars>>

-----------------------------------------------------------------------------
(* The panel. *)

(* The admin asks for one thing at a time: that starting and cancelling do not *)
(* overlap is a bound.                                                         *)
AdminBusy == start.st # "none" \/ cancel.st # "none"

(* The admin starts a scan; the form is off while one is shown running. *)
StartScan ==
  /\ shownScan.state # "running" /\ ~AdminBusy /\ scan.id < MaxScans
  /\ start' = Requested
  /\ UNCHANGED <<scanner, panel, cancel, eventVars, faultVars>>

(* The started scan is shown; the one that is in the way is read. *)
StartAnswered ==
  /\ start.st = "answered" /\ start' = Idle
  /\ IF start.scan.id > 0
     THEN shownScan' = start.scan /\ UNCHANGED scanRead
     ELSE ReadAgain
  /\ UNCHANGED <<scanner, scanCache, readError, cancel, eventVars, faultVars>>

CancelScan ==
  /\ shownScan.state = "running" /\ ~AdminBusy
  /\ cancel' = Requested
  /\ cancels < MaxCancels /\ cancels' = cancels + 1
  /\ UNCHANGED <<scanner, panel, start, eventVars, drops, readFaults>>

CancelAnswered ==
  /\ cancel.st = "answered" /\ cancel' = Idle
  /\ IF cancel.scan.id > 0
     THEN shownScan' = cancel.scan /\ UNCHANGED scanRead
     ELSE ReadAgain
  /\ UNCHANGED <<scanner, scanCache, readError, start, eventVars, faultVars>>

Poll_Off == FALSE /\ UNCHANGED panelVars

(* While the panel shows a running scan it is read every three seconds. *)
Poll ==
  /\ shownScan.state = "running" /\ scanRead.st = "none"
  /\ ReadAgain
  /\ UNCHANGED <<scanner, scanCache, readError, requests, eventVars, faultVars>>

(* What was read replaces what is on display, "no scan" included. *)
ReadArrives ==
  /\ scanRead.st = "answered" /\ scanRead' = Idle
  /\ shownScan' = scanRead.scan
  /\ readError' = IF scanRead.scan.id = 0 THEN "absent" ELSE "none"
  /\ scanCache' = IF scanRead.scan.id = 0 THEN scanCache ELSE scanRead.scan
  /\ UNCHANGED <<scanner, requests, eventVars, faultVars>>

(* Any other failure keeps what is on display. *)
ReadFails ==
  /\ scanRead.st # "none" /\ scanRead' = Idle
  /\ drops + readFaults < MaxTroubles /\ readFaults' = readFaults + 1
  /\ readError' = "other"
  /\ UNCHANGED <<scanner, shownScan, scanCache, requests, eventVars, cancels, drops>>

(* An event changes the running scan that it is about, if that is on display; *)
(* completion also asks for a read, which brings the candidates whose events  *)
(* were lost.                                                                 *)
ScanEvent ==
  /\ scanFrames # <<>> /\ scanFrames' = Tail(scanFrames)
  /\ LET e == Head(scanFrames)
         about == shownScan.id = e.id /\ shownScan.state = "running"
     IN IF e.host = "complete"
        THEN /\ scanRead' = IF scanRead.st = "none" \/ scanCache.id > 0 THEN Requested ELSE scanRead
             /\ shownScan' = IF scanRead.st = "none" /\ scanCache.id > 0 /\ readError = "none"
                             THEN scanCache
                             ELSE IF about THEN [shownScan EXCEPT !.state = "ended"] ELSE shownScan
        ELSE /\ shownScan' = IF about THEN [shownScan EXCEPT !.found = @ \cup {e.host}] ELSE shownScan
             /\ UNCHANGED scanRead
  /\ UNCHANGED <<scanner, scanCache, readError, requests, socketOpen, faultVars>>

(* The socket breaks; its events are lost. *)
SocketBreaks ==
  /\ socketOpen /\ drops + readFaults < MaxTroubles /\ drops' = drops + 1
  /\ socketOpen' = FALSE /\ scanFrames' = <<>>
  /\ UNCHANGED <<scanner, panel, requests, cancels, readFaults>>

(* The socket comes back and the scan is read again. *)
SocketReturns ==
  /\ ~socketOpen /\ socketOpen' = TRUE
  /\ ReadAgain
  /\ UNCHANGED <<scanner, scanCache, readError, requests, scanFrames, faultVars>>

-----------------------------------------------------------------------------

PanelNext ==
  \/ \E h \in Hosts : ScanFinds(h)
  \/ ScanEnds \/ OtherStarts \/ StartServed \/ CancelServed \/ CancelTimesOut
  \/ ReadServed
  \/ StartScan \/ StartAnswered \/ CancelScan \/ CancelAnswered
  \/ Poll \/ ReadArrives \/ ReadFails
  \/ ScanEvent \/ SocketBreaks \/ SocketReturns

(* Scans end (they have a timeout), requests are answered, the poll fires, *)
(* events on an open socket arrive and the socket comes back.              *)
PanelFairness ==
  /\ WF_panelVars(ScanEnds) /\ WF_panelVars(ScanEvent) /\ WF_panelVars(SocketReturns)
  /\ WF_panelVars(StartServed \/ StartAnswered)
  /\ WF_panelVars(CancelServed \/ CancelTimesOut \/ CancelAnswered)
  /\ WF_panelVars(Poll) /\ WF_panelVars(ReadServed \/ ReadArrives)

PanelSpec == PanelInit /\ [][PanelNext]_panelVars /\ PanelFairness

-----------------------------------------------------------------------------

(* The panel does not go on showing a running scan for good, and if it ends *)
(* up with the server's scan, it shows all that was found, although events  *)
(* of the scan are dropped or lost with the socket, arrive before the       *)
(* answer that starts it, or meet an older read (DiscoveryPanel.tsx:93-     *)
(* 118).  A last read that failed may leave candidates out; and an answer   *)
(* about an older scan (a slow cancel, a slow first read) may replace a     *)
(* newer one.                                                               *)
PanelCatchesUp ==
  <>[](/\ shownScan.state # "running"
       /\ shownScan.id = scan.id /\ readFaults = 0 => shownScan = scan)

=============================================================================
