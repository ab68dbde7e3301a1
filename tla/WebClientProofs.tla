---------------------------- MODULE WebClientProofs ----------------------------
(***************************************************************************)
(* The web client, for every value of its constants: the advisory lock     *)
(* comes back from a page that is gone, the client's own requests never    *)
(* end a session that the server would have kept, and all six parts keep   *)
(* to their types, the numbers of the badge and of the panel included.     *)
(***************************************************************************)
EXTENDS MCWebClient, DocDraftProofs, RunDecisionProofs, FiniteSetTheorems, FunctionTheorems, TLAPS

-----------------------------------------------------------------------------
(* The lock. *)

(* What still answers for a row in the user's name: a release or an answer   *)
(* under way that was not lost, or the open page that believes to hold it.   *)
NothingUnderWay ==
  releases = 0 /\ lockFaults = 0 /\ \A p \in Pages : lockReq[p] # "granted"
HeldHere == pageOpen /\ lockRef[page] /\ lockReq[page] # "refused"
Accounted == lockRow = "user" /\ NothingUnderWay => HeldHere

LockInv == LockTypeOK /\ (pageOpen => page \in Pages) /\ Accounted

(* Initially the lock is nobody's. *)
LEMMA LockInitInv == LockInit => LockInv
<1> SUFFICES ASSUME LockInit PROVE LockInv
  OBVIOUS
<1>1. frames \in Seq(Holders) /\ Len(frames) <= MaxFrames
  BY LockAssumption DEF LockInit
<1>2. /\ lockRef \in [Pages -> BOOLEAN] /\ saving \in [Pages -> BOOLEAN]
      /\ lockReq \in [Pages -> {"none", "sent", "granted", "refused"}]
  BY DEF LockInit
<1>3. /\ page \in 0..MaxPages /\ releases \in Nat /\ lockFaults \in 0..MaxLockFaults
  BY LockAssumption DEF LockInit
<1>6. /\ pageOpen \in BOOLEAN /\ lockHeld \in BOOLEAN
      /\ lockShown \in Holders /\ lockRow \in Holders
  BY DEF LockInit, Holders
<1>4. LockTypeOK
  BY <1>1, <1>2, <1>3, <1>6 DEF LockTypeOK
<1>5. ~pageOpen /\ lockRow # "user"
  BY DEF LockInit
<1> QED BY <1>4, <1>5 DEF LockInv, Accounted

(* An event that is queued keeps the queue within its type and bound. *)
LEMMA BroadcastType ==
  ASSUME NEW f \in Holders, frames \in Seq(Holders), Len(frames) <= MaxFrames, Broadcast(f)
  PROVE  frames' \in Seq(Holders) /\ Len(frames') <= MaxFrames
<1>1. CASE frames' = frames
  BY <1>1
<1>2. CASE Len(frames) < MaxFrames /\ frames' = Append(frames, f)
  BY <1>2, LockAssumption
<1> QED BY <1>1, <1>2 DEF Broadcast

(* The user's steps that send nothing away: the page opens, asks or saves. *)
LEMMA PageStepInv ==
  ASSUME LockInv, OpenPage \/ StartEditing \/ RenewLock \/ SendSave
  PROVE  LockInv'
<1> USE LockAssumption DEF LockInv, here, serverLock
<1>1. CASE OpenPage
  <2>1. LockTypeOK' /\ page' \in Pages
    BY <1>1 DEF OpenPage, LockTypeOK, Pages
  <2>2. Accounted'
    BY <1>1 DEF OpenPage, Accounted, NothingUnderWay, HeldHere
  <2> QED BY <2>1, <2>2
<1>2. CASE StartEditing \/ RenewLock
  <2>1. /\ lockReq[page] = "none" /\ page \in Pages
        /\ lockReq' = [lockReq EXCEPT ![page] = "sent"]
        /\ UNCHANGED <<pageOpen, page, lockHeld, lockRef, saving, lockShown, lockRow, frames,
                       releases, lockFaults>>
    BY <1>2 DEF StartEditing, RenewLock
  <2>2. LockTypeOK'
    BY <2>1 DEF LockTypeOK
  <2>3. lockReq' \in [Pages -> {"none", "sent", "granted", "refused"}]
    BY <2>2 DEF LockTypeOK
  <2>4. Accounted'
    BY <2>1 DEF Accounted, NothingUnderWay, HeldHere, LockTypeOK
  <2> QED BY <2>1, <2>2, <2>4
<1>3. CASE SendSave
  <2>1. LockTypeOK'
    BY <1>3 DEF SendSave, LockTypeOK
  <2>2. Accounted'
    BY <1>3 DEF SendSave, Accounted, NothingUnderWay, HeldHere
  <2> QED BY <1>3, <2>1, <2>2 DEF SendSave
<1> QED BY <1>1, <1>2, <1>3

(* The page closes, by hand or with a save: what it held is being released. *)
LEMMA PageClosesInv ==
  ASSUME LockInv, LeavePage \/ \E p \in Pages : SaveCloses(p)
  PROVE  LockInv'
<1> USE LockAssumption DEF LockInv, serverLock
<1>1. CASE LeavePage
  <2>2. /\ releases' = IF lockRef[page] THEN releases + 1 ELSE releases
        /\ ~pageOpen' /\ pageOpen' \in BOOLEAN /\ lockHeld' = FALSE
        /\ UNCHANGED <<page, lockRef, lockReq, saving, lockShown, lockRow, frames, lockFaults>>
    BY <1>1 DEF LeavePage
  <2>0. releases' \in Nat
    BY <2>2 DEF LockTypeOK
  <2>1. LockTypeOK' /\ ~pageOpen'
    BY <2>2, <2>0 DEF LockTypeOK
  <2>3. HeldHere => releases' # 0
    BY <2>2 DEF HeldHere, LockTypeOK
  <2>4. NothingUnderWay' => NothingUnderWay
    BY <2>2 DEF NothingUnderWay, LockTypeOK
  <2>5. Accounted'
    BY <2>2, <2>3, <2>4 DEF Accounted, NothingUnderWay
  <2> QED BY <2>1, <2>5
<1>2. ASSUME NEW p \in Pages, SaveCloses(p)
      PROVE  LockInv'
  <2> DEFINE other == pageOpen /\ page # p /\ lockRef[page]
  <2>1. /\ releases' = releases + (IF lockRef[p] THEN 1 ELSE 0) + (IF other THEN 1 ELSE 0)
        /\ lockRef' = [lockRef EXCEPT ![p] = FALSE]
        /\ saving' = [saving EXCEPT ![p] = FALSE]
        /\ pageOpen' = FALSE /\ lockHeld' = FALSE
        /\ UNCHANGED <<page, lockReq, lockShown, lockRow, frames, lockFaults>>
    BY <1>2 DEF SaveCloses
  <2>0. releases' \in Nat
    BY <2>1 DEF LockTypeOK
  <2>2. LockTypeOK'
    BY <2>0, <2>1 DEF LockTypeOK
  <2>3. HeldHere => releases' # 0
    BY <2>1 DEF HeldHere, LockTypeOK
  <2>4. NothingUnderWay' => NothingUnderWay
    BY <2>1 DEF NothingUnderWay, LockTypeOK
  <2>5. Accounted'
    BY <2>1, <2>3, <2>4 DEF Accounted, NothingUnderWay
  <2> QED BY <2>1, <2>2, <2>5
<1> QED BY <1>1, <1>2

(* A page that is gone sends a late lock back; the open one holds it. *)
LEMMA GrantedInv ==
  ASSUME LockInv, NEW p \in Pages, LockGranted(p)
  PROVE  LockInv'
<1> USE LockAssumption DEF LockInv, here, serverLock
<1>1. /\ lockReq[p] = "granted" /\ lockReq' = [lockReq EXCEPT ![p] = "none"]
      /\ UNCHANGED <<pageOpen, page, saving, lockRow, frames, lockFaults>>
  BY DEF LockGranted
<1>2. CASE OnPage(p)
  <2>1. /\ lockShown' = "nobody" /\ lockRef' = [lockRef EXCEPT ![p] = TRUE] /\ lockHeld' = TRUE
        /\ UNCHANGED releases
    BY <1>2 DEF LockGranted
  <2>2. LockTypeOK'
    BY <1>1, <2>1 DEF LockTypeOK, Holders
  <2>3. HeldHere'
    BY <1>1, <1>2, <2>1 DEF HeldHere, OnPage, LockTypeOK
  <2> QED BY <1>1, <2>2, <2>3 DEF Accounted
<1>3. CASE ~OnPage(p)
  <2>1. releases' = releases + 1 /\ UNCHANGED <<lockShown, lockRef, lockHeld>>
    BY <1>3 DEF LockGranted
  <2>2. LockTypeOK'
    BY <1>1, <2>1 DEF LockTypeOK
  <2>3. releases' # 0
    BY <2>1 DEF LockTypeOK
  <2> QED BY <1>1, <2>2, <2>3 DEF Accounted, NothingUnderWay
<1> QED BY <1>2, <1>3

(* A refusal is old news if the row is the user's: then another page's request *)
(* took the lock, and something of it is still under way.                      *)
LEMMA NotHeldInv ==
  ASSUME LockInv, NEW p \in Pages, LockRefused(p) \/ LockFailed(p)
  PROVE  LockInv'
<1> USE LockAssumption DEF LockInv, NotHeld, here, serverLock
<1>1. /\ lockReq' = [lockReq EXCEPT ![p] = "none"]
      /\ lockRef' = [lockRef EXCEPT ![p] = FALSE]
      /\ lockHeld' = (lockHeld /\ ~OnPage(p))
      /\ UNCHANGED <<pageOpen, page, saving, lockRow, frames, releases>>
  BY DEF LockRefused, LockFailed
<1>2. CASE LockRefused(p)
  <2>1. lockReq[p] = "refused" /\ lockShown' = "other" /\ UNCHANGED lockFaults
    BY <1>2 DEF LockRefused
  <2>2. LockTypeOK'
    BY <1>1, <2>1 DEF LockTypeOK, Holders
  <2>3. ASSUME lockRow' = "user", NothingUnderWay' PROVE HeldHere'
    <3>1. NothingUnderWay
      BY <1>1, <2>1, <2>3 DEF NothingUnderWay, LockTypeOK
    <3>2. HeldHere
      BY <1>1, <2>3, <3>1 DEF Accounted
    <3>3. page # p
      BY <2>1, <3>2 DEF HeldHere
    <3> QED BY <1>1, <3>2, <3>3 DEF HeldHere, LockTypeOK
  <2> QED BY <1>1, <2>2, <2>3 DEF Accounted
<1>3. CASE LockFailed(p)
  <2>1. lockFaults < MaxLockFaults /\ lockFaults' = lockFaults + 1 /\ UNCHANGED lockShown
    BY <1>3 DEF LockFailed
  <2>2. LockTypeOK'
    BY <1>1, <2>1 DEF LockTypeOK
  <2>3. lockFaults' # 0
    BY <2>1 DEF LockTypeOK
  <2> QED BY <1>1, <2>2, <2>3 DEF Accounted, NothingUnderWay
<1> QED BY <1>2, <1>3

(* A save's other answers, events and lost releases. *)
LEMMA BystandersInv ==
  ASSUME LockInv, FrameArrives \/ ReleaseLost \/ \E p \in Pages : SaveStays(p)
  PROVE  LockInv'
<1> USE LockAssumption DEF LockInv, here, serverLock
<1>1. CASE FrameArrives
  <2>1. LockTypeOK'
    <3>1. Head(frames) \in Holders /\ Tail(frames) \in Seq(Holders)
          /\ Len(Tail(frames)) <= MaxFrames
      BY <1>1 DEF FrameArrives, LockTypeOK
    <3> QED BY <1>1, <3>1 DEF FrameArrives, LockTypeOK
  <2>2. Accounted'
    BY <1>1 DEF FrameArrives, Accounted, NothingUnderWay, HeldHere
  <2> QED BY <1>1, <2>1, <2>2 DEF FrameArrives
<1>2. CASE ReleaseLost
  <2>1. LockTypeOK' /\ lockFaults' # 0
    BY <1>2 DEF ReleaseLost, LockTypeOK
  <2> QED BY <1>2, <2>1 DEF ReleaseLost, Accounted, NothingUnderWay
<1>3. ASSUME NEW p \in Pages, SaveStays(p)
      PROVE  LockInv'
  <2>1. LockTypeOK'
    BY <1>3 DEF SaveStays, LockTypeOK
  <2>2. Accounted'
    BY <1>3 DEF SaveStays, Accounted, NothingUnderWay, HeldHere
  <2> QED BY <1>3, <2>1, <2>2 DEF SaveStays
<1> QED BY <1>1, <1>2, <1>3

(* The row becomes the user's only with an answer that says so. *)
LEMMA RowInv ==
  ASSUME LockInv,
         ReleaseServed \/ OtherLocks \/ LockEnds \/ \E p \in Pages : LockServed(p)
  PROVE  LockInv'
<1> USE LockAssumption DEF LockInv, here, serverLock
<1>1. CASE ReleaseServed
  <2>1. Broadcast("nobody") /\ lockRow' \in Holders /\ lockRow' # "user" /\ releases' \in Nat
    BY <1>1 DEF ReleaseServed, LockTypeOK, Holders
  <2>2. frames' \in Seq(Holders) /\ Len(frames') <= MaxFrames
    BY <2>1, BroadcastType DEF LockTypeOK, Holders
  <2>3. LockTypeOK'
    BY <1>1, <2>1, <2>2 DEF ReleaseServed, LockTypeOK
  <2> QED BY <1>1, <2>1, <2>3 DEF ReleaseServed, Accounted
<1>2. CASE OtherLocks \/ LockEnds
  <2>1. PICK f \in {"other", "nobody"} : lockRow' = f /\ Broadcast(f)
    BY <1>2 DEF OtherLocks, LockEnds
  <2>2. frames' \in Seq(Holders) /\ Len(frames') <= MaxFrames
    BY <2>1, BroadcastType DEF LockTypeOK, Holders
  <2>3. UNCHANGED <<pageOpen, page, lockHeld, lockRef, lockReq, saving, lockShown, releases,
                    lockFaults>>
    BY <1>2 DEF OtherLocks, LockEnds
  <2>4. LockTypeOK'
    BY <2>1, <2>2, <2>3 DEF LockTypeOK, Holders
  <2> QED BY <2>1, <2>3, <2>4 DEF Accounted
<1>3. ASSUME NEW p \in Pages, LockServed(p)
      PROVE  LockInv'
  <2>1. UNCHANGED <<pageOpen, page, lockHeld, lockRef, saving, lockShown, releases, lockFaults>>
    BY <1>3 DEF LockServed
  <2>2. CASE lockRow = "other"
    <3>1. lockReq' = [lockReq EXCEPT ![p] = "refused"] /\ UNCHANGED <<lockRow, frames>>
      BY <1>3, <2>2 DEF LockServed
    <3>2. LockTypeOK'
      BY <2>1, <3>1 DEF LockTypeOK
    <3> QED BY <2>1, <2>2, <3>1, <3>2 DEF Accounted
  <2>3. CASE lockRow # "other"
    <3>1. lockReq' = [lockReq EXCEPT ![p] = "granted"] /\ lockRow' = "user" /\ Broadcast("user")
      BY <1>3, <2>3 DEF LockServed
    <3>2. frames' \in Seq(Holders) /\ Len(frames') <= MaxFrames
      BY <3>1, BroadcastType DEF LockTypeOK, Holders
    <3>3. LockTypeOK'
      BY <2>1, <3>1, <3>2 DEF LockTypeOK, Holders
    <3>4. lockReq'[p] = "granted"
      BY <3>1 DEF LockTypeOK
    <3> QED BY <2>1, <3>3, <3>4 DEF Accounted, NothingUnderWay
  <2> QED BY <2>2, <2>3
<1> QED BY <1>1, <1>2, <1>3

(* Every step preserves the invariant. *)
LEMMA LockStepInv == LockInv /\ [LockNext]_lockVars => LockInv'
<1> SUFFICES ASSUME LockInv, [LockNext]_lockVars PROVE LockInv'
  OBVIOUS
<1>1. CASE UNCHANGED lockVars
  BY <1>1 DEF lockVars, LockInv, LockTypeOK, Accounted, NothingUnderWay, HeldHere
<1>2. CASE OpenPage \/ StartEditing \/ RenewLock \/ LeavePage \/ SendSave
  BY <1>2, PageStepInv, PageClosesInv
<1>3. CASE \E p \in Pages : SaveCloses(p) \/ SaveStays(p) \/ LockServed(p)
  BY <1>3, PageClosesInv, BystandersInv, RowInv
<1>4. CASE \E p \in Pages : LockGranted(p) \/ LockRefused(p) \/ LockFailed(p)
  BY <1>4, GrantedInv, NotHeldInv
<1>5. CASE FrameArrives \/ ReleaseServed \/ ReleaseLost \/ OtherLocks \/ LockEnds
  BY <1>5, BystandersInv, RowInv
<1> QED BY <1>1, <1>2, <1>3, <1>4, <1>5 DEF LockNext

(* The invariant holds in every state: the user's row is the open page's, or *)
(* something that gives it back is under way or was lost.                    *)
THEOREM LockInvariant == LockSpec => []LockInv
<1> QED BY LockInitInv, LockStepInv, PTL DEF LockSpec

(* A page that is gone holds no lock (DocEditorPage.tsx: mountedRef,         *)
(* lockAcquiredRef), for any number of visits, events and faults.            *)
THEOREM LockComesBack == LockSpec => []LockReturned
<1>1. LockInv => LockReturned
  BY DEF LockInv, Accounted, NothingUnderWay, HeldHere, LockReturned
<1> QED BY <1>1, LockInvariant, PTL

-----------------------------------------------------------------------------
(* The session. *)

(* All who were refused wait for one refresh; the others hold no token. *)
OneFlight ==
  /\ \A f, g \in Callers : flight[f].st # "none" /\ flight[g].st # "none" => f = g
  /\ \A f \in Callers : flight[f].st = "none" => flight[f].token = 0

(* A refresh of this sign-in went out with the cookie that the browser has. *)
OwnCookie ==
  \A f \in Callers : flight[f].st \in {"sent", "rejected"} /\ ~flight[f].old
                       => flight[f].token = cookie

(* It was rejected because that cookie is of no session, which stays so, or  *)
(* because the store failed.                                                 *)
DeadCookie ==
  \A f \in Callers : flight[f].st = "rejected" /\ ~flight[f].old /\ ~flight[f].fault
                       => cookie \notin liveTokens

SessionInv == SessionTypeOK /\ OneFlight /\ OwnCookie /\ DeadCookie

CallRecords == [kind : Kind,
                st : {"none", "sent", "ok", "factor", "refused", "waiting"},
                access : {"none", "valid", "expired"}, retried : BOOLEAN,
                token : 0..TokenCount, joined : Callers]
Flights == [st : {"none", "sent", "granted", "rejected"}, token : 0..TokenCount, old : BOOLEAN,
            fault : BOOLEAN]

(* The records of a rest. *)
LEMMA NoCallType == NoCall \in CallRecords /\ NoFlight \in Flights
  BY SessionAssumption DEF NoCall, NoFlight, CallRecords, Flights, Callers, Bootstrap, Kind

(* There is a token that nobody holds: the requests and the one refresh under *)
(* way hold one each, and the browser one more.                               *)
LEMMA FreshToken ==
  ASSUME SessionInv
  PROVE  Fresh \in Tokens /\ Fresh \notin Held
<1> DEFINE given == {call[c].token : c \in Calls}
<1> USE SessionAssumption
<1>1. IsFiniteSet(given) /\ Cardinality(given) <= Cardinality(Calls)
  <2>1. [c \in Calls |-> call[c].token] \in Surjection(Calls, given)
    BY DEF Surjection
  <2> QED BY <2>1, FS_Surjection
<1>2. PICK refreshing : \A f \in Callers : flight[f].token \in {0, refreshing}
  <2>1. CASE \E f \in Callers : flight[f].st # "none"
    <3>1. PICK f \in Callers : flight[f].st # "none"
      BY <2>1
    <3>2. \A g \in Callers : flight[g].token \in {0, flight[f].token}
      BY <3>1 DEF SessionInv, OneFlight
    <3> QED BY <3>2
  <2>2. CASE \A f \in Callers : flight[f].st = "none"
    BY <2>2 DEF SessionInv, OneFlight
  <2> QED BY <2>1, <2>2
<1> DEFINE others == given \cup {cookie}
           all == others \cup {refreshing}
<1>3. IsFiniteSet(others) /\ Cardinality(others) <= Cardinality(Calls) + 1
  <2>0. IsFiniteSet(given)
    BY <1>1
  <2>3. Cardinality(given) \in Nat
    BY <2>0, FS_CardinalityType
  <2>4. /\ IsFiniteSet(given \cup {cookie})
        /\ Cardinality(given \cup {cookie})
             = IF cookie \in given THEN Cardinality(given) ELSE Cardinality(given) + 1
    BY <2>0, FS_AddElement
  <2>1. IsFiniteSet(given \cup {cookie}) /\ Cardinality(given \cup {cookie}) <= Cardinality(given) + 1
    BY <2>3, <2>4
  <2>2. Cardinality(given) \in Nat /\ Cardinality(Calls) \in Nat /\ Cardinality(others) \in Nat
    BY <1>1, <2>1, FS_CardinalityType
  <2> QED BY <1>1, <2>1, <2>2
<1>4. IsFiniteSet(all) /\ Cardinality(all) <= Cardinality(Calls) + 2
  <2>0. IsFiniteSet(others)
    BY <1>3
  <2>3. Cardinality(others) \in Nat
    BY <2>0, FS_CardinalityType
  <2>4. /\ IsFiniteSet(others \cup {refreshing})
        /\ Cardinality(others \cup {refreshing})
             = IF refreshing \in others THEN Cardinality(others) ELSE Cardinality(others) + 1
    BY <2>0, FS_AddElement
  <2>1. IsFiniteSet(others \cup {refreshing})
        /\ Cardinality(others \cup {refreshing}) <= Cardinality(others) + 1
    BY <2>3, <2>4
  <2>2. Cardinality(others) \in Nat /\ Cardinality(Calls) \in Nat /\ Cardinality(all) \in Nat
    BY <1>3, <2>1, FS_CardinalityType
  <2> QED BY <1>3, <2>1, <2>2
<1>5. Held \ {0} \subseteq all
  BY <1>2 DEF Held
<1>6. \E t \in Tokens : t \notin all
  <2>1. SUFFICES ASSUME Tokens \subseteq all PROVE FALSE
    OBVIOUS
  <2>2. Cardinality(Tokens) <= Cardinality(all)
    BY <1>4, <2>1, FS_Subset
  <2>3. Cardinality(Tokens) = TokenCount
    BY FS_Interval DEF Tokens
  <2>4. Cardinality(Calls) \in Nat /\ Cardinality(all) \in Nat
    BY <1>4, FS_CardinalityType
  <2> QED BY <1>4, <2>2, <2>3, <2>4
<1>7. 0 \notin Tokens
  BY DEF Tokens
<1>8. \E t \in Tokens : t \notin Held
  BY <1>5, <1>6, <1>7
<1> QED BY <1>8 DEF Fresh

(* Initially, and after a reload, there is the refresh of a page just loaded. *)
LEMMA BootstrapInv ==
  ASSUME cookie \in 0..TokenCount,
         flight = [f \in Callers |-> IF f = Bootstrap
                                     THEN [NoFlight EXCEPT !.st = "sent", !.token = cookie]
                                     ELSE NoFlight]
  PROVE  flight \in [Callers -> Flights] /\ OneFlight /\ OwnCookie /\ DeadCookie
<1> DEFINE boot == [NoFlight EXCEPT !.st = "sent", !.token = cookie]
<1>2. flight = [f \in Callers |-> IF f = Bootstrap THEN boot ELSE NoFlight]
  OBVIOUS
<1>3. boot \in Flights /\ NoFlight \in Flights
  BY NoCallType DEF Flights
<1>4. flight \in [Callers -> Flights]
  BY <1>2, <1>3
<1>5. \A f \in Callers : /\ f = Bootstrap => flight[f] = boot
                         /\ f # Bootstrap => flight[f] = NoFlight
  BY <1>2
<1>6. boot.st = "sent" /\ boot.token = cookie /\ NoFlight.st = "none" /\ NoFlight.token = 0
  BY DEF NoFlight
<1>7. \A f \in Callers : /\ flight[f].st = "none" => flight[f].token = 0
                         /\ flight[f].st \in {"none", "sent"}
                         /\ flight[f].st = "sent" => f = Bootstrap /\ flight[f].token = cookie
  BY <1>5, <1>6
<1>8. OneFlight
  BY <1>7 DEF OneFlight
<1>9. OwnCookie /\ DeadCookie
  BY <1>7 DEF OwnCookie, DeadCookie
<1> QED BY <1>4, <1>8, <1>9

LEMMA SessionInitInv == SessionInit => SessionInv
<1> SUFFICES ASSUME SessionInit PROVE SessionInv
  OBVIOUS
<1> USE SessionAssumption
<1>1. Cardinality(Calls) \in Nat
  BY FS_CardinalityType
<1>2. cookie \in 0..TokenCount /\ liveTokens \subseteq Tokens
  BY <1>1 DEF SessionInit, Tokens
<1>3. flight \in [Callers -> Flights] /\ OneFlight /\ OwnCookie /\ DeadCookie
  BY <1>2, BootstrapInv DEF SessionInit
<1>4. call \in [Calls -> CallRecords]
  BY NoCallType DEF SessionInit
<1>5. SessionTypeOK
  <2>1. /\ status \in {"unknown", "authenticated", "anonymous"} /\ mfaTicket \in BOOLEAN
        /\ access \in {"none", "valid", "expired"}
    BY DEF SessionInit
  <2> QED BY <1>2, <1>3, <1>4, <2>1 DEF SessionTypeOK, CallRecords, Flights
<1> QED BY <1>3, <1>5 DEF SessionInv

-----------------------------------------------------------------------------

(* Steps that leave the cookie, the server's tokens and the refreshes alone. *)
LEMMA RequestsInv ==
  ASSUME SessionInv, call' \in [Calls -> CallRecords],
         status' \in {"unknown", "authenticated", "anonymous"}, mfaTicket' \in BOOLEAN,
         access' \in {"none", "valid", "expired"},
         UNCHANGED <<liveTokens, cookie, flight>>
  PROVE  SessionInv'
<1>1. SessionTypeOK'
  BY DEF SessionInv, SessionTypeOK, CallRecords
<1>2. OneFlight' /\ OwnCookie' /\ DeadCookie'
  BY DEF SessionInv, OneFlight, OwnCookie, DeadCookie
<1> QED BY <1>1, <1>2 DEF SessionInv

(* The user asks, signs in or out, or goes back; an access token expires. *)
LEMMA UserInv ==
  ASSUME SessionInv,
         \/ \E c \in Calls, kind \in Kind : SendCall(c, kind)
         \/ CancelMfa \/ AccessExpires
  PROVE  SessionInv'
<1>1. ASSUME NEW c \in Calls, NEW kind \in Kind, SendCall(c, kind)
      PROVE  SessionInv'
  <2>1. /\ call' = [call EXCEPT ![c] = [NoCall EXCEPT !.kind = kind, !.st = "sent",
                                                      !.access = access]]
        /\ UNCHANGED <<liveTokens, cookie, status, access, mfaTicket, flight>>
    BY <1>1 DEF SendCall, store
  <2>2. [NoCall EXCEPT !.kind = kind, !.st = "sent", !.access = access] \in CallRecords
    BY NoCallType DEF CallRecords, SessionInv, SessionTypeOK
  <2>3. call' \in [Calls -> CallRecords]
    BY <2>1, <2>2 DEF SessionInv, SessionTypeOK, CallRecords
  <2> QED BY <2>1, <2>3, RequestsInv DEF SessionInv, SessionTypeOK
<1>2. CASE CancelMfa \/ AccessExpires
  <2>1. /\ UNCHANGED <<liveTokens, cookie, status, call, flight>>
        /\ mfaTicket' \in BOOLEAN /\ access' \in {"none", "valid", "expired"}
    BY <1>2 DEF CancelMfa, AccessExpires, SessionInv, SessionTypeOK
  <2>2. call' \in [Calls -> CallRecords]
    BY <2>1 DEF SessionInv, SessionTypeOK, CallRecords
  <2> QED BY <2>1, <2>2, RequestsInv DEF SessionInv, SessionTypeOK
<1> QED BY <1>1, <1>2

(* A reload leaves only the cookie. *)
LEMMA ReloadInv ==
  ASSUME SessionInv, Reload
  PROVE  SessionInv'
<1>1. cookie' \in 0..TokenCount
  BY DEF Reload, SessionInv, SessionTypeOK
<1>2. flight' = [f \in Callers |-> IF f = Bootstrap
                                   THEN [NoFlight EXCEPT !.st = "sent", !.token = cookie']
                                   ELSE NoFlight]
  BY DEF Reload
<1> DEFINE boot == [NoFlight EXCEPT !.st = "sent", !.token = cookie']
<1>3. boot \in Flights /\ NoFlight \in Flights
  BY <1>1, NoCallType DEF Flights
<1>4. flight' = [f \in Callers |-> IF f = Bootstrap THEN boot ELSE NoFlight]
  BY <1>2, <1>3
<1>8. flight' \in [Callers -> Flights]
  BY <1>3, <1>4
<1>9. \A f \in Callers : /\ f = Bootstrap => flight'[f] = boot
                         /\ f # Bootstrap => flight'[f] = NoFlight
  BY <1>4
<1>10. boot.st = "sent" /\ boot.token = cookie' /\ NoFlight.st = "none" /\ NoFlight.token = 0
  BY DEF NoFlight
<1>11. \A f \in Callers : /\ flight'[f].st = "none" => flight'[f].token = 0
                          /\ flight'[f].st \in {"none", "sent"}
                          /\ flight'[f].st = "sent" => f = Bootstrap /\ flight'[f].token = cookie'
  BY <1>9, <1>10
<1>5. OneFlight' /\ OwnCookie' /\ DeadCookie'
  <2>1. OneFlight'
    BY <1>11 DEF OneFlight
  <2>2. OwnCookie' /\ DeadCookie'
    BY <1>11 DEF OwnCookie, DeadCookie
  <2> QED BY <2>1, <2>2
<1>6. call' \in [Calls -> CallRecords]
  BY NoCallType DEF Reload
<1>7. SessionTypeOK'
  BY <1>1, <1>8, <1>6 DEF Reload, SessionInv, SessionTypeOK, CallRecords, Flights
<1> QED BY <1>5, <1>7 DEF SessionInv

(* The server's set of tokens grows by one that the browser does not hold, and *)
(* so never by its cookie.                                                     *)
LEMMA StartedInv ==
  ASSUME SessionInv, call' \in [Calls -> CallRecords],
         liveTokens' \subseteq liveTokens \cup {Fresh},
         UNCHANGED <<cookie, status, access, mfaTicket, flight>>
  PROVE  SessionInv'
<1>1. Fresh \in Tokens /\ Fresh # cookie
  BY FreshToken DEF Held
<1>2. SessionTypeOK'
  BY <1>1 DEF SessionInv, SessionTypeOK, CallRecords
<1>3. DeadCookie'
  BY <1>1 DEF SessionInv, DeadCookie
<1>4. OneFlight' /\ OwnCookie'
  BY DEF SessionInv, OneFlight, OwnCookie
<1> QED BY <1>2, <1>3, <1>4 DEF SessionInv

(* The answer to a request: a token that is new, or none. *)
LEMMA AnswerTypes ==
  ASSUME SessionInv, NEW c \in Calls, NEW st \in {"ok", "factor", "refused"},
         NEW token \in {0, Fresh}, Answer(c, st, token)
  PROVE  call' \in [Calls -> CallRecords]
<1>1. token \in 0..TokenCount
  BY FreshToken, SessionAssumption DEF Tokens
<1>2. call \in [Calls -> CallRecords]
  BY DEF SessionInv, SessionTypeOK, CallRecords
<1>3. [call[c] EXCEPT !.st = st, !.token = token, !.access = "none"] \in CallRecords
  BY <1>1, <1>2 DEF CallRecords
<1>4. call' = [call EXCEPT ![c] = [call[c] EXCEPT !.st = st, !.token = token, !.access = "none"]]
  BY <1>2 DEF Answer, CallRecords
<1> QED BY <1>2, <1>3, <1>4

(* A request is served, or sessions are ended from elsewhere. *)
LEMMA ServerInv ==
  ASSUME SessionInv, SessionsEnd \/ \E c \in Calls : CallServed(c)
  PROVE  SessionInv'
<1>1. CASE SessionsEnd
  <2>1. call' \in [Calls -> CallRecords]
    BY <1>1 DEF SessionsEnd, SessionInv, SessionTypeOK, CallRecords
  <2> QED BY <1>1, <2>1, StartedInv DEF SessionsEnd, store
<1>2. ASSUME NEW c \in Calls, CallServed(c)
      PROVE  SessionInv'
  <2>1. UNCHANGED <<cookie, status, access, mfaTicket, flight>>
    BY <1>2 DEF CallServed, store
  <2>2. SignInServed(c) \/ Unauthorized(c) \/ DataServed(c) \/ PasswordServed(c) \/ SignOutServed(c)
    BY <1>2 DEF CallServed
  <2>3. \E st \in {"ok", "factor", "refused"}, token \in {0, Fresh} : Answer(c, st, token)
    BY <2>2 DEF SignInServed, Unauthorized, DataServed, PasswordServed, SignOutServed
  <2>4. liveTokens' \subseteq liveTokens \cup {Fresh}
    BY <2>2 DEF SignInServed, Unauthorized, DataServed, PasswordServed, SignOutServed, StillHeld
  <2>5. call' \in [Calls -> CallRecords]
    BY <2>3, AnswerTypes
  <2> QED BY <2>1, <2>4, <2>5, StartedInv
<1> QED BY <1>1, <1>2

(* A refresh is served.  If it is rejected, the store failed or its token is  *)
(* of no session, and if it is of this sign-in, that token is the cookie.     *)
LEMMA RefreshServedInv ==
  ASSUME SessionInv, NEW f \in Callers, RefreshServed(f)
  PROVE  SessionInv'
<1>1. flight[f].st = "sent" /\ UNCHANGED <<cookie, status, access, mfaTicket, call>>
  BY DEF RefreshServed, store
<1>2. flight \in [Callers -> Flights] /\ call \in [Calls -> CallRecords]
  BY DEF SessionInv, SessionTypeOK, Flights, CallRecords
<1>3. \A g \in Callers : g # f => flight[g].st = "none" /\ flight[g].token = 0
  BY <1>1 DEF SessionInv, OneFlight
<1>4. ASSUME NEW new \in Flights, flight' = [flight EXCEPT ![f] = new], new.st # "none",
             liveTokens' \subseteq liveTokens \cup {Fresh},
             new.st \in {"sent", "rejected"} /\ ~new.old => new.token = cookie,
             new.st = "rejected" /\ ~new.old /\ ~new.fault => cookie \notin liveTokens'
      PROVE  SessionInv'
  <2>1. /\ flight' \in [Callers -> Flights] /\ flight'[f] = new
        /\ \A g \in Callers : g # f => flight'[g] = flight[g]
    BY <1>2, <1>4
  <2>2. \A g \in Callers : g # f => flight'[g].st = "none" /\ flight'[g].token = 0
    BY <1>3, <2>1
  <2>3. liveTokens' \subseteq Tokens
    BY <1>4, FreshToken DEF SessionInv, SessionTypeOK
  <2>4. SessionTypeOK'
    BY <1>1, <1>2, <2>1, <2>3 DEF SessionInv, SessionTypeOK, Flights, CallRecords
  <2>5. OneFlight'
    BY <1>4, <2>1, <2>2 DEF OneFlight
  <2>6. OwnCookie' /\ DeadCookie'
    BY <1>1, <1>4, <2>1, <2>2 DEF OwnCookie, DeadCookie
  <2> QED BY <2>4, <2>5, <2>6 DEF SessionInv
<1>5. ~flight[f].old => flight[f].token = cookie
  BY <1>1 DEF SessionInv, OwnCookie
<1>6. CASE flight' = [flight EXCEPT ![f].st = "granted", ![f].token = Fresh]
  <2>1. flight' = [flight EXCEPT ![f] = [flight[f] EXCEPT !.st = "granted", !.token = Fresh]]
    BY <1>2, <1>6 DEF Flights
  <2>2. Fresh \in 0..TokenCount
    BY FreshToken, SessionAssumption DEF Tokens
  <2>3. /\ [flight[f] EXCEPT !.st = "granted", !.token = Fresh] \in Flights
        /\ [flight[f] EXCEPT !.st = "granted", !.token = Fresh].st = "granted"
    BY <1>2, <2>2 DEF Flights
  <2>4. liveTokens' \subseteq liveTokens \cup {Fresh}
    BY DEF RefreshServed, StillHeld
  <2> QED BY <1>4, <2>1, <2>3, <2>4
<1>7. CASE /\ flight[f].token \notin liveTokens /\ UNCHANGED liveTokens
           /\ flight' = [flight EXCEPT ![f].st = "rejected"]
  <2> DEFINE new == [flight[f] EXCEPT !.st = "rejected"]
  <2>1. flight' = [flight EXCEPT ![f] = new]
    BY <1>2, <1>7 DEF Flights
  <2>2. new \in Flights /\ new.st = "rejected" /\ new.token = flight[f].token
        /\ new.old = flight[f].old
    BY <1>2 DEF Flights
  <2> HIDE DEF new
  <2>3. ~new.old => new.token = cookie /\ cookie \notin liveTokens'
    BY <1>5, <1>7, <2>2
  <2> QED BY <1>4, <1>7, <2>1, <2>2, <2>3
<1>8. CASE /\ flight' = [flight EXCEPT ![f].st = "rejected", ![f].fault = TRUE]
           /\ UNCHANGED liveTokens
  <2> DEFINE new == [flight[f] EXCEPT !.st = "rejected", !.fault = TRUE]
  <2>1. flight' = [flight EXCEPT ![f] = new]
    BY <1>2, <1>8 DEF Flights
  <2>2. new \in Flights /\ new.st = "rejected" /\ new.token = flight[f].token
        /\ new.old = flight[f].old /\ new.fault
    BY <1>2 DEF Flights
  <2> HIDE DEF new
  <2>3. ~new.old => new.token = cookie
    BY <1>5, <2>2
  <2> QED BY <1>4, <1>8, <2>1, <2>2, <2>3
<1> QED BY <1>6, <1>7, <1>8 DEF RefreshServed

-----------------------------------------------------------------------------

(* A new cookie, or none, ages the refresh under way, whatever cookie it had. *)
LEMMA AgedInv ==
  ASSUME SessionInv, call' \in [Calls -> CallRecords],
         status' \in {"unknown", "authenticated", "anonymous"}, mfaTicket' \in BOOLEAN,
         access' \in {"none", "valid", "expired"},
         cookie' \in 0..TokenCount, flight' = Aged, UNCHANGED liveTokens
  PROVE  SessionInv'
<1>1. flight \in [Callers -> Flights]
  BY DEF SessionInv, SessionTypeOK, Flights
<1>2. \A f \in Callers : /\ flight'[f] = [flight[f] EXCEPT !.old = flight[f].st # "none"]
                         /\ flight'[f] \in Flights
                         /\ flight'[f].st = flight[f].st /\ flight'[f].token = flight[f].token
                         /\ flight'[f].old = (flight[f].st # "none")
  BY <1>1 DEF Aged, Flights
<1>3. flight' \in [Callers -> Flights]
  BY <1>2 DEF Aged
<1>4. SessionTypeOK'
  BY <1>3 DEF SessionInv, SessionTypeOK, Flights, CallRecords
<1>6. \A f \in Callers : /\ flight'[f].st = flight[f].st /\ flight'[f].token = flight[f].token
                         /\ ~flight'[f].old => flight[f].st = "none"
  BY <1>2
<1>7. OneFlight'
  BY <1>6 DEF SessionInv, OneFlight
<1>8. OwnCookie' /\ DeadCookie'
  BY <1>6 DEF OwnCookie, DeadCookie
<1> QED BY <1>4, <1>7, <1>8 DEF SessionInv

(* A request is answered: a sign-in or a new password brings a cookie, a  *)
(* sign-out takes it.                                                     *)
LEMMA CallAnsweredInv ==
  ASSUME SessionInv, NEW c \in Calls, CallAnswered(c)
  PROVE  SessionInv'
<1>1. /\ call[c].st \in {"ok", "factor"} /\ call' = [call EXCEPT ![c] = NoCall]
      /\ UNCHANGED liveTokens
  BY DEF CallAnswered
<1>2. call \in [Calls -> CallRecords]
  BY DEF SessionInv, SessionTypeOK, CallRecords
<1>3. call' \in [Calls -> CallRecords]
  BY <1>1, <1>2, NoCallType
<1>4. /\ status \in {"unknown", "authenticated", "anonymous"} /\ mfaTicket \in BOOLEAN
      /\ access \in {"none", "valid", "expired"}
  BY DEF SessionInv, SessionTypeOK
<1>5. CASE call[c].st = "factor"
  <2>1. mfaTicket' = TRUE /\ UNCHANGED <<cookie, status, access, flight>>
    BY <1>5 DEF CallAnswered
  <2> QED BY <1>1, <1>3, <1>4, <2>1, RequestsInv
<1>6. CASE call[c].st = "ok" /\ call[c].kind \in SigningIn
  <2>1. /\ cookie' = call[c].token /\ flight' = Aged
        /\ status' = "authenticated" /\ access' = "valid" /\ mfaTicket' = FALSE
    BY <1>6 DEF CallAnswered, Apply, SigningIn
  <2>2. cookie' \in 0..TokenCount
    BY <1>2, <2>1 DEF CallRecords
  <2> QED BY <1>1, <1>3, <1>4, <2>1, <2>2, AgedInv
<1>7. CASE call[c].st = "ok" /\ call[c].kind = "logout"
  <2>1. /\ cookie' = 0 /\ flight' = Aged
        /\ status' = "anonymous" /\ access' = "none" /\ mfaTicket' = FALSE
    BY <1>7 DEF CallAnswered, ClearSession, SigningIn
  <2>2. cookie' \in 0..TokenCount
    BY <2>1, SessionAssumption
  <2> QED BY <1>1, <1>3, <1>4, <2>1, <2>2, AgedInv
<1>8. CASE call[c].st = "ok" /\ call[c].kind = "password"
  <2>1. cookie' = call[c].token /\ flight' = Aged /\ UNCHANGED <<status, access, mfaTicket>>
    BY <1>8 DEF CallAnswered, store, SigningIn
  <2>2. cookie' \in 0..TokenCount
    BY <1>2, <2>1 DEF CallRecords
  <2> QED BY <1>1, <1>3, <1>4, <2>1, <2>2, AgedInv
<1>9. CASE call[c].st = "ok" /\ call[c].kind = "data"
  <2>1. UNCHANGED <<cookie, status, access, mfaTicket, flight>>
    BY <1>9 DEF CallAnswered, store, SigningIn
  <2> QED BY <1>1, <1>3, <1>4, <2>1, RequestsInv
<1>10. call[c].kind \in Kind
  BY <1>2 DEF CallRecords
<1> QED BY <1>1, <1>5, <1>6, <1>7, <1>8, <1>9, <1>10 DEF Kind, SigningIn

(* A request that fails for its caller. *)
LEMMA RejectsInv ==
  ASSUME SessionInv, NEW c \in Calls, Rejects(c),
         UNCHANGED <<liveTokens, cookie>>
  PROVE  SessionInv'
<1>1. call' \in [Calls -> CallRecords]
  BY NoCallType DEF Rejects, SessionInv, SessionTypeOK, CallRecords
<1>2. /\ status \in {"unknown", "authenticated", "anonymous"} /\ mfaTicket \in BOOLEAN
      /\ access \in {"none", "valid", "expired"} /\ cookie \in 0..TokenCount
  BY DEF SessionInv, SessionTypeOK
<1>3. CASE call[c].kind = "logout"
  <2>1. /\ flight' = Aged /\ status' = "anonymous" /\ access' = "none" /\ mfaTicket' = FALSE
    BY <1>3 DEF Rejects, ClearSession
  <2> QED BY <1>1, <1>2, <2>1, AgedInv
<1>4. CASE call[c].kind # "logout"
  <2>1. UNCHANGED <<status, access, mfaTicket, flight>>
    BY <1>4 DEF Rejects, store
  <2> QED BY <1>1, <1>2, <2>1, RequestsInv
<1> QED BY <1>3, <1>4

(* A refused request joins the refresh under way, or starts the only one. *)
LEMMA CallRefusedInv ==
  ASSUME SessionInv, NEW c \in Calls, CallRefused(c) \/ CallLost(c)
  PROVE  SessionInv'
<1>1. /\ call \in [Calls -> CallRecords] /\ flight \in [Callers -> Flights]
      /\ status \in {"unknown", "authenticated", "anonymous"} /\ mfaTicket \in BOOLEAN
      /\ access \in {"none", "valid", "expired"} /\ cookie \in 0..TokenCount
  BY DEF SessionInv, SessionTypeOK, CallRecords, Flights
<1>2. CASE CallLost(c)
  BY <1>2, RejectsInv DEF CallLost
<1>3. CASE CallRefused(c) /\ call[c].retried
  <2>1. Rejects(c) /\ UNCHANGED <<liveTokens, cookie>>
    BY <1>3 DEF CallRefused
  <2> QED BY <1>1, <2>1, RejectsInv
<1>4. CASE CallRefused(c) /\ ~call[c].retried
  <2> DEFINE own == [NoFlight EXCEPT !.st = "sent", !.token = cookie]
  <2>1. /\ call' = [call EXCEPT ![c].st = "waiting", ![c].retried = TRUE, ![c].joined = Flight(c)]
        /\ flight' = IF flight[Flight(c)].st # "none" THEN flight
                     ELSE [flight EXCEPT ![Flight(c)] = own]
        /\ UNCHANGED <<status, access, mfaTicket, liveTokens, cookie>>
    BY <1>4 DEF CallRefused, store
  <2>2. Flight(c) \in Callers
    <3>1. c \in Callers
      BY DEF Callers
    <3>2. CASE \E f \in Callers : flight[f].st # "none"
      BY <3>2 DEF Flight
    <3>3. CASE ~ \E f \in Callers : flight[f].st # "none"
      BY <3>1, <3>3 DEF Flight
    <3> QED BY <3>2, <3>3
  <2>6. PICK joined \in Callers : joined = Flight(c)
    BY <2>2
  <2>7. [call[c] EXCEPT !.st = "waiting", !.retried = TRUE, !.joined = joined] \in CallRecords
    BY <1>1, <2>6 DEF CallRecords
  <2>8. call' = [call EXCEPT ![c] = [call[c] EXCEPT !.st = "waiting", !.retried = TRUE,
                                                    !.joined = joined]]
    BY <1>1, <2>1, <2>6 DEF CallRecords
  <2>3. call' \in [Calls -> CallRecords]
    BY <1>1, <2>7, <2>8
  <2>4. CASE flight[Flight(c)].st # "none"
    BY <1>1, <2>1, <2>3, <2>4, RequestsInv
  <2>5. CASE flight[Flight(c)].st = "none"
    <3>1. \A f \in Callers : flight[f].st = "none"
      BY <2>5 DEF Flight
    <3>2. PICK g \in Callers : g = Flight(c)
      BY <2>2
    <3>3. flight' = [flight EXCEPT ![g] = own]
      BY <2>1, <2>5, <3>2
    <3>4. /\ own \in Flights /\ own.st = "sent" /\ own.token = cookie
      BY <1>1, NoCallType DEF Flights, NoFlight
    <3> HIDE DEF own
    <3>5. /\ flight' \in [Callers -> Flights] /\ flight'[g] = own
          /\ \A f \in Callers : f # g => flight'[f] = flight[f]
      BY <1>1, <3>3, <3>4
    <3>6. SessionTypeOK'
      BY <1>1, <2>1, <2>3, <3>5 DEF SessionInv, SessionTypeOK, Flights, CallRecords
    <3>7. OneFlight' /\ OwnCookie' /\ DeadCookie'
      BY <2>1, <3>1, <3>4, <3>5 DEF SessionInv, OneFlight, OwnCookie, DeadCookie
    <3> QED BY <3>6, <3>7 DEF SessionInv
  <2> QED BY <2>4, <2>5
<1> QED BY <1>2, <1>3, <1>4

(* The end of a refresh, well or badly, leaves none under way. *)
LEMMA RefreshEndsInv ==
  ASSUME SessionInv, NEW f \in Callers, flight[f].st # "none",
         flight' = [flight EXCEPT ![f] = NoFlight], call' \in [Calls -> CallRecords],
         status' \in {"unknown", "authenticated", "anonymous"}, mfaTicket' \in BOOLEAN,
         access' \in {"none", "valid", "expired"},
         cookie' \in 0..TokenCount, UNCHANGED liveTokens
  PROVE  SessionInv'
<1>1. flight \in [Callers -> Flights]
  BY DEF SessionInv, SessionTypeOK, Flights
<1>2. flight' \in [Callers -> Flights]
  BY <1>1, NoCallType
<1>3. \A g \in Callers : flight'[g].st = "none" /\ flight'[g].token = 0
  BY <1>1 DEF SessionInv, OneFlight, NoFlight
<1>4. SessionTypeOK'
  BY <1>2 DEF SessionInv, SessionTypeOK, Flights, CallRecords
<1>5. OneFlight' /\ OwnCookie' /\ DeadCookie'
  BY <1>3 DEF OneFlight, OwnCookie, DeadCookie
<1> QED BY <1>4, <1>5 DEF SessionInv

LEMMA RefreshInv ==
  ASSUME SessionInv, NEW f \in Callers,
         RefreshGranted(f) \/ RefreshRejected(f) \/ RefreshLost(f)
  PROVE  SessionInv'
<1>1. /\ call \in [Calls -> CallRecords] /\ flight \in [Callers -> Flights]
      /\ status \in {"unknown", "authenticated", "anonymous"} /\ mfaTicket \in BOOLEAN
      /\ access \in {"none", "valid", "expired"} /\ cookie \in 0..TokenCount
  BY DEF SessionInv, SessionTypeOK, CallRecords, Flights
<1>2. CASE RefreshGranted(f)
  <2>1. /\ flight[f].st # "none" /\ cookie' = flight[f].token
        /\ status' = "authenticated" /\ access' = "valid" /\ mfaTicket' = FALSE
        /\ flight' = [flight EXCEPT ![f] = NoFlight]
        /\ UNCHANGED liveTokens
    BY <1>2 DEF RefreshGranted, Apply
  <2>2. cookie' \in 0..TokenCount
    BY <1>1, <2>1 DEF Flights
  <2>3. \A c \in Calls : [call[c] EXCEPT !.st = "sent", !.access = "valid",
                                        !.joined = Bootstrap] \in CallRecords
    BY <1>1 DEF CallRecords, Callers
  <2>4. call' \in [Calls -> CallRecords]
    BY <1>1, <1>2, <2>3 DEF RefreshGranted
  <2> QED BY <1>1, <2>1, <2>2, <2>4, RefreshEndsInv
<1>3. CASE RefreshRejected(f) \/ RefreshLost(f)
  <2>1. /\ flight[f].st # "none" /\ WaitersFail(f)
        /\ UNCHANGED <<liveTokens, cookie>>
        /\ ClearSession \/ UNCHANGED store
    BY <1>1, <1>3, SessionAssumption DEF RefreshRejected, RefreshLost
  <2>2. /\ status' \in {"unknown", "authenticated", "anonymous"} /\ mfaTicket' \in BOOLEAN
        /\ access' \in {"none", "valid", "expired"}
    BY <1>1, <2>1 DEF ClearSession, store
  <2>3. call' \in [Calls -> CallRecords] /\ flight' = [flight EXCEPT ![f] = NoFlight]
    BY <1>1, <2>1, NoCallType DEF WaitersFail
  <2> QED BY <1>1, <2>1, <2>2, <2>3, RefreshEndsInv
<1> QED BY <1>2, <1>3

(* Every step preserves the invariant. *)
LEMMA SessionStepInv == SessionInv /\ [SessionNext]_sessionVars => SessionInv'
<1> SUFFICES ASSUME SessionInv, [SessionNext]_sessionVars PROVE SessionInv'
  OBVIOUS
<1>1. CASE UNCHANGED sessionVars
  BY <1>1 DEF sessionVars, SessionInv, SessionTypeOK, OneFlight, OwnCookie, DeadCookie
<1>2. CASE \/ \E c \in Calls, kind \in Kind : SendCall(c, kind)
           \/ CancelMfa \/ AccessExpires
  BY <1>2, UserInv
<1>3. CASE Reload
  BY <1>3, ReloadInv
<1>4. CASE SessionsEnd \/ \E c \in Calls : CallServed(c)
  BY <1>4, ServerInv
<1>5. CASE \E c \in Calls : CallAnswered(c) \/ CallRefused(c) \/ CallLost(c)
  BY <1>5, CallAnsweredInv, CallRefusedInv
<1>6. CASE \E f \in Callers : \/ RefreshServed(f) \/ RefreshGranted(f)
                              \/ RefreshRejected(f) \/ RefreshLost(f)
  BY <1>6, RefreshServedInv, RefreshInv
<1> QED BY <1>1, <1>2, <1>3, <1>4, <1>5, <1>6 DEF SessionNext

(* The invariant holds in every state: one refresh at a time, and one of this *)
(* sign-in carries the browser's cookie, which a rejection proves dead unless *)
(* the store failed (auth.ts:120-141, session.go:15-80).                      *)
THEOREM SessionInvariant == SessionSpec => []SessionInv
<1> QED BY SessionInitInv, SessionStepInv, PTL DEF SessionSpec

(* A rejected refresh signs the user out only if the cookie is of no session  *)
(* any more, the store failed, or the cookie was replaced meanwhile           *)
(* (auth.ts:120-141), for any number of requests under way, of any kind.      *)
THEOREM NoSignOutByItself == SessionSpec => NoSpuriousSignOut
<1>1. SessionInv => \A f \in Callers :
        RefreshRejected(f) /\ status = "authenticated" /\ ~flight[f].old /\ ~flight[f].fault
          => cookie \notin liveTokens
  BY DEF SessionInv, DeadCookie, RefreshRejected
<1> QED BY <1>1, SessionInvariant, PTL DEF SessionSpec, NoSpuriousSignOut

-----------------------------------------------------------------------------
(* The event socket.  Its types bound the badge, which counts events that     *)
(* may be on their way twice: in a count of the server and in the wire.       *)

(* The events of a raised alert on the wire. *)
RaisedAt(w) == {i \in 1..Len(w) : w[i] = "raised"}
Raised(w) == Cardinality(RaisedAt(w))

(* Each change of an alert spends one of those left; so does each raise on the *)
(* wire, on top of what the server or the badge counts already.                *)
Counted ==
  /\ listServer + budget.event <= MaxEvents + 1
  /\ alerts + budget.alert <= 2 * MaxAlerts
  /\ Raised(wire) + budget.alert <= MaxAlerts
  /\ badge + Raised(wire) + budget.alert <= 3 * MaxAlerts

LiveInv == LiveTypeOK /\ Counted

(* The count of raised alerts, on the wire and as events come and go. *)
LEMMA RaisedType ==
  ASSUME NEW w \in Seq(Kinds)
  PROVE  IsFiniteSet(RaisedAt(w)) /\ Raised(w) \in Nat
<1>1. IsFiniteSet(1..Len(w))
  BY FS_Interval
<1>2. IsFiniteSet(RaisedAt(w))
  BY <1>1, FS_Subset DEF RaisedAt
<1> QED BY <1>2, FS_CardinalityType DEF Raised

LEMMA RaisedEmpty == Raised(<<>>) = 0
  BY FS_EmptySet DEF Raised, RaisedAt

LEMMA RaisedAppend ==
  ASSUME NEW w \in Seq(Kinds), NEW e \in Kinds
  PROVE  Raised(Append(w, e)) <= Raised(w) + (IF e = "raised" THEN 1 ELSE 0)
<1> DEFINE v == Append(w, e)
<1>1. /\ Len(v) = Len(w) + 1 /\ v[Len(w) + 1] = e /\ Len(w) \in Nat
      /\ \A i \in 1..Len(w) : v[i] = w[i]
  OBVIOUS
<1> HIDE DEF v
<1>2. RaisedAt(v) = IF e = "raised" THEN RaisedAt(w) \cup {Len(w) + 1} ELSE RaisedAt(w)
  BY <1>1 DEF RaisedAt
<1>3. IsFiniteSet(RaisedAt(w)) /\ Raised(w) \in Nat
  BY RaisedType
<1>4. Cardinality(RaisedAt(w) \cup {Len(w) + 1})
        = IF Len(w) + 1 \in RaisedAt(w) THEN Cardinality(RaisedAt(w))
                                        ELSE Cardinality(RaisedAt(w)) + 1
  BY <1>3, FS_AddElement
<1> QED BY <1>2, <1>3, <1>4 DEF Raised, v

LEMMA RaisedTail ==
  ASSUME NEW w \in Seq(Kinds), w # <<>>
  PROVE  Raised(Tail(w)) + (IF Head(w) = "raised" THEN 1 ELSE 0) <= Raised(w)
<1> DEFINE v == Tail(w)
           rest == {i \in RaisedAt(w) : i > 1}
<1>1. /\ v \in Seq(Kinds) /\ Len(w) \in Nat /\ Len(w) >= 1 /\ Len(v) = Len(w) - 1
      /\ Head(w) = w[1] /\ \A i \in 1..Len(v) : v[i] = w[i + 1]
  OBVIOUS
<1> HIDE DEF v
<1>2. /\ IsFiniteSet(RaisedAt(w)) /\ Cardinality(RaisedAt(w)) \in Nat
      /\ IsFiniteSet(RaisedAt(v)) /\ Cardinality(RaisedAt(v)) \in Nat
  BY <1>1, RaisedType DEF Raised
<1>3. IsFiniteSet(rest) /\ Cardinality(rest) <= Cardinality(RaisedAt(w))
  BY <1>2, FS_Subset
<1>4. Cardinality(rest) \in Nat
  BY <1>3, FS_CardinalityType
<1>5. Cardinality(RaisedAt(v)) <= Cardinality(rest)
  <2> DEFINE shift == [i \in rest |-> i - 1]
  <2>1. \A i \in rest : i - 1 \in RaisedAt(v)
    BY <1>1 DEF RaisedAt
  <2>2. \A j \in RaisedAt(v) : j + 1 \in rest /\ (j + 1) - 1 = j
    BY <1>1 DEF RaisedAt
  <2>3. shift \in [rest -> RaisedAt(v)]
    BY <2>1
  <2>4. \A j \in RaisedAt(v) : \E i \in rest : shift[i] = j
    BY <2>2
  <2>5. shift \in Surjection(rest, RaisedAt(v))
    BY <2>3, <2>4 DEF Surjection
  <2> QED BY <1>3, <2>5, FS_Surjection
<1>6. CASE w[1] = "raised"
  <2>1. 1 \in RaisedAt(w) /\ rest = RaisedAt(w) \ {1}
    BY <1>1, <1>6 DEF RaisedAt
  <2>2. Cardinality(RaisedAt(w) \ {1}) = Cardinality(RaisedAt(w)) - 1
    BY <1>2, <2>1, FS_RemoveElement
  <2>3. Cardinality(rest) = Cardinality(RaisedAt(w)) - 1
    BY <2>1, <2>2
  <2> HIDE DEF rest
  <2> QED BY <1>1, <1>2, <1>4, <1>5, <1>6, <2>3 DEF Raised, v
<1>7. CASE w[1] # "raised"
  <2> HIDE DEF rest
  <2> QED BY <1>1, <1>2, <1>3, <1>4, <1>5, <1>7 DEF Raised, v
<1> QED BY <1>6, <1>7

(* What the bounds rest on, as numbers. *)
LEMMA LiveNumbers ==
  ASSUME LiveInv
  PROVE  /\ MaxEvents \in Nat /\ MaxAlerts \in Nat /\ MaxBreaks \in Nat /\ MaxSignIns \in Nat
         /\ listServer \in Nat /\ alerts \in Nat /\ badge \in Nat /\ asking \in Nat
         /\ Raised(wire) \in Nat
         /\ budget.event \in Nat /\ budget.alert \in Nat
  BY LiveAssumption, RaisedType DEF LiveInv, LiveTypeOK

LEMMA LiveInitInv == LiveInit => LiveInv
<1> SUFFICES ASSUME LiveInit PROVE LiveInv
  OBVIOUS
<1>1. MaxEvents \in Nat /\ MaxAlerts \in Nat /\ MaxBreaks \in Nat /\ MaxSignIns \in Nat
  BY LiveAssumption
<1>2. /\ budget \in [event : 0..MaxEvents, alert : 0..MaxAlerts, break : 0..MaxBreaks,
                     signIn : 0..MaxSignIns]
      /\ budget.event = MaxEvents /\ budget.alert = MaxAlerts
  BY <1>1 DEF LiveInit
<1>3. wire \in Seq(Kinds) /\ Raised(wire) = 0
  BY RaisedEmpty DEF LiveInit
<1>4. /\ listRead.st = "none" /\ listRead.n = 0
      /\ asking = 0 /\ counts \in [0..(2 * MaxAlerts) -> Nat]
  BY DEF LiveInit, None, NoCounts
<1>5. /\ signedIn \in BOOLEAN /\ hasOpened \in BOOLEAN /\ debounce \in BOOLEAN /\ job \in BOOLEAN
      /\ owed \in BOOLEAN /\ carried \in BOOLEAN /\ silent \in BOOLEAN /\ syncing \in BOOLEAN
      /\ missed \subseteq Kinds /\ socket \in {"closed", "waiting", "connecting", "open"}
  BY DEF LiveInit
<1>6. listServer = 1 /\ listCache = 0 /\ badge = 0 /\ alerts \in 0..MaxAlerts
  BY DEF LiveInit
<1>7. LiveTypeOK
  BY <1>1, <1>2, <1>3, <1>4, <1>5, <1>6 DEF LiveTypeOK
<1>8. Counted
  BY <1>1, <1>2, <1>3, <1>6 DEF Counted
<1> QED BY <1>7, <1>8 DEF LiveInv

(* Steps that keep within what is left keep the counts; a count that arrives *)
(* is one of those the server may have.                                      *)
WithinLeft ==
  /\ listServer' \in Nat /\ alerts' \in Nat /\ badge' \in Nat
  /\ Raised(wire') \in Nat /\ budget'.event \in Nat /\ budget'.alert \in Nat
  /\ listServer' + budget'.event <= listServer + budget.event
  /\ alerts' + budget'.alert <= alerts + budget.alert
  /\ Raised(wire') + budget'.alert <= Raised(wire) + budget.alert
  /\ \/ badge' + Raised(wire') + budget'.alert <= badge + Raised(wire) + budget.alert
     \/ badge' <= 2 * MaxAlerts

LEMMA CountsKept ==
  ASSUME LiveInv, WithinLeft
  PROVE  Counted'
<1> USE DEF WithinLeft
<1>1. /\ listServer + budget.event <= MaxEvents + 1 /\ alerts + budget.alert <= 2 * MaxAlerts
      /\ Raised(wire) + budget.alert <= MaxAlerts
      /\ badge + Raised(wire) + budget.alert <= 3 * MaxAlerts
  BY DEF LiveInv, Counted
<1>2. Raised(wire)' = Raised(wire')
  BY DEF Raised, RaisedAt
<1>3. (listServer + budget.event <= MaxEvents + 1)'
  BY <1>1, LiveNumbers
<1>4. (alerts + budget.alert <= 2 * MaxAlerts)'
  BY <1>1, LiveNumbers
<1>5. (Raised(wire) + budget.alert <= MaxAlerts)'
  BY <1>1, <1>2, LiveNumbers
<1>6. (badge + Raised(wire) + budget.alert <= 3 * MaxAlerts)'
  <2>1. badge' + Raised(wire') + budget'.alert <= 3 * MaxAlerts
    BY <1>1, LiveNumbers
  <2> QED BY <1>2, <2>1
<1> QED BY <1>3, <1>4, <1>5, <1>6 DEF Counted

(* An event that is sent, or dropped by the hub. *)
LEMMA SendType ==
  ASSUME LiveInv, NEW e \in Kinds, Send(e)
  PROVE  /\ wire' \in Seq(Kinds) /\ missed' \subseteq Kinds
         /\ Raised(wire') <= Raised(wire) + (IF e = "raised" THEN 1 ELSE 0)
<1>1. wire \in Seq(Kinds) /\ missed \subseteq Kinds /\ Raised(wire) \in Nat
  BY LiveNumbers DEF LiveInv, LiveTypeOK
<1>2. Raised(Append(wire, e)) <= Raised(wire) + (IF e = "raised" THEN 1 ELSE 0)
  BY <1>1, RaisedAppend
<1>3. /\ wire' \in {wire, Append(wire, e)}
      /\ missed' \in {missed, missed \cup ({e} \cap {"changed", "complete"})}
  BY DEF Send
<1>4. wire' \in Seq(Kinds) /\ missed' \subseteq Kinds
  BY <1>1, <1>3
<1>5. CASE wire' = wire
  BY <1>1, <1>4, <1>5
<1>6. CASE wire' = Append(wire, e)
  BY <1>2, <1>4, <1>6
<1> QED BY <1>3, <1>5, <1>6

(* Spending takes one of what is left. *)
LEMMA SpendType ==
  ASSUME LiveInv, NEW k \in {"event", "alert", "break", "signIn"}, Spend(k)
  PROVE  /\ budget' \in [event : 0..MaxEvents, alert : 0..MaxAlerts, break : 0..MaxBreaks,
                         signIn : 0..MaxSignIns]
         /\ budget'.event = IF k = "event" THEN budget.event - 1 ELSE budget.event
         /\ budget'.alert = IF k = "alert" THEN budget.alert - 1 ELSE budget.alert
<1> DEFINE B == [event : 0..MaxEvents, alert : 0..MaxAlerts, break : 0..MaxBreaks,
                 signIn : 0..MaxSignIns]
<1>1. budget \in B
  BY DEF LiveInv, LiveTypeOK
<1>2. budget[k] > 0 /\ budget' = [budget EXCEPT ![k] = budget[k] - 1]
  BY DEF Spend
<1>3. CASE k = "event"
  BY <1>1, <1>2, <1>3, LiveNumbers
<1>4. CASE k = "alert"
  BY <1>1, <1>2, <1>4, LiveNumbers
<1>5. CASE k = "break"
  BY <1>1, <1>2, <1>5, LiveNumbers
<1>6. CASE k = "signIn"
  BY <1>1, <1>2, <1>6, LiveNumbers
<1> QED BY <1>3, <1>4, <1>5, <1>6

(* Steps that count nothing keep the counts. *)
LEMMA UncountedInv ==
  ASSUME LiveInv, LiveTypeOK', UNCHANGED <<listServer, alerts, wire, badge>>,
         budget'.event = budget.event, budget'.alert = budget.alert
  PROVE  LiveInv'
  BY DEF LiveInv, Counted

(* The requests and answers of the page and its socket, in their types. *)
LEMMA RestTypes ==
  ASSUME LiveInv
  PROVE  /\ None.st \in {"none", "sent", "served"} /\ None.n = 0
         /\ Asked.st \in {"none", "sent", "served"} /\ Asked.n = 0
         /\ Invalidated.st \in {"none", "sent", "served"}
         /\ Invalidated.n \in 0..(MaxEvents + 1)
         /\ \A n : Served(n).st \in {"none", "sent", "served"} /\ Served(n).n = n
<1>1. 0 \in 0..(MaxEvents + 1)
  BY LiveNumbers
<1>2. None.st = "none" /\ None.n = 0 /\ Asked.st = "sent" /\ Asked.n = 0
  BY DEF None, Asked
<1>3. \A n : Served(n).st = "served" /\ Served(n).n = n
  BY DEF Served
<1> QED BY <1>1, <1>2, <1>3 DEF Invalidated, LiveInv, LiveTypeOK

(* The server's steps.  Each that may raise the badge spends one of what is left. *)
LEMMA ServerEventsInv ==
  ASSUME LiveInv,
         ListChanges \/ AlertChanges \/ SyncProgresses \/ SyncEnds \/ SyncEndsSilently
  PROVE  LiveInv'
<1> USE DEF conn, list, live
<1>0. wire \in Seq(Kinds) /\ missed \subseteq Kinds /\ Raised(wire) \in Nat
  BY LiveNumbers DEF LiveInv, LiveTypeOK
<1>1. CASE ListChanges
  <2>1. /\ listServer' = listServer + 1 /\ Spend("event") /\ Send("changed") /\ "changed" \in Kinds
        /\ owed' = (owed \/ (hasOpened /\ listCache > 0))
        /\ UNCHANGED <<alerts, syncing, signedIn, socket, hasOpened, listCache, listRead, debounce,
                       asking, counts, badge, job, carried, silent>>
    BY <1>1 DEF ListChanges, Kinds
  <2>2. /\ wire' \in Seq(Kinds) /\ missed' \subseteq Kinds /\ Raised(wire') <= Raised(wire)
        /\ Raised(wire') \in Nat
    BY <2>1, SendType, LiveNumbers, RaisedType
  <2>3. /\ budget' \in [event : 0..MaxEvents, alert : 0..MaxAlerts, break : 0..MaxBreaks,
                        signIn : 0..MaxSignIns]
        /\ budget'.event = budget.event - 1 /\ budget'.alert = budget.alert /\ budget.event > 0
    BY <2>1, SpendType DEF Spend
  <2>4. listServer' \in 1..(MaxEvents + 1)
    BY <2>1, <2>3, LiveNumbers DEF LiveInv, Counted
  <2>5. owed' \in BOOLEAN
    BY <2>1 DEF LiveInv, LiveTypeOK
  <2>6. LiveTypeOK'
    BY <2>1, <2>2, <2>3, <2>4, <2>5 DEF LiveInv, LiveTypeOK
  <2>7. Counted'
    <3>1. listServer' = listServer + 1 /\ UNCHANGED <<alerts, badge>>
      BY <2>1
    <3>2. /\ budget.event > 0 /\ budget'.event = budget.event - 1
          /\ budget'.alert = budget.alert
      BY <2>3
    <3>3. Raised(wire') <= Raised(wire) /\ Raised(wire') \in Nat
      BY <2>2
    <3>4. WithinLeft
      BY <3>1, <3>2, <3>3, LiveNumbers DEF WithinLeft
    <3> QED BY <3>4, CountsKept
  <2> QED BY <2>6, <2>7 DEF LiveInv
<1>2. CASE AlertChanges
  <2>1. /\ Spend("alert") /\ "raised" \in Kinds
        /\ UNCHANGED <<listServer, syncing, signedIn, socket, hasOpened, listCache, listRead,
                       debounce, asking, counts, badge, job, owed, carried, silent>>
    BY <1>2 DEF AlertChanges, Kinds
  <2>2. \/ alerts' = alerts + 1 /\ Send("raised")
        \/ alerts > 0 /\ alerts' = alerts - 1 /\ UNCHANGED <<wire, missed>>
    BY <1>2 DEF AlertChanges
  <2>3. /\ wire' \in Seq(Kinds) /\ missed' \subseteq Kinds
        /\ Raised(wire') <= Raised(wire) + 1
    <3>1. CASE Send("raised")
      BY <2>1, <3>1, SendType
    <3>2. CASE UNCHANGED <<wire, missed>>
      BY <1>0, <3>2
    <3> QED BY <2>2, <3>1, <3>2
  <2>4. Raised(wire') \in Nat
    BY <2>3, RaisedType
  <2>5. /\ budget' \in [event : 0..MaxEvents, alert : 0..MaxAlerts, break : 0..MaxBreaks,
                        signIn : 0..MaxSignIns]
        /\ budget'.event = budget.event /\ budget'.alert = budget.alert - 1 /\ budget.alert > 0
    BY <2>1, SpendType DEF Spend
  <2>6. alerts' \in Nat /\ alerts' <= alerts + 1
    BY <2>2, LiveNumbers
  <2>7. Counted'
    <3>1. UNCHANGED <<listServer, badge>>
      BY <2>1
    <3>2. /\ budget.alert > 0 /\ budget'.alert = budget.alert - 1
          /\ budget'.event = budget.event
      BY <2>5
    <3>3. Raised(wire') <= Raised(wire) + 1 /\ Raised(wire') \in Nat
      BY <2>3, <2>4
    <3>4. WithinLeft
      BY <2>6, <3>1, <3>2, <3>3, LiveNumbers DEF WithinLeft
    <3> QED BY <3>4, CountsKept
  <2>8. alerts' \in 0..(2 * MaxAlerts)
    BY <2>5, <2>6, <2>7, LiveNumbers DEF Counted
  <2>9. LiveTypeOK'
    <3>1. /\ UNCHANGED <<listServer, syncing, signedIn, socket, hasOpened, listCache, listRead,
                         debounce, asking, counts, badge, job, owed, carried, silent>>
          /\ wire' \in Seq(Kinds) /\ missed' \subseteq Kinds
      BY <2>1, <2>3
    <3>2. budget' \in [event : 0..MaxEvents, alert : 0..MaxAlerts, break : 0..MaxBreaks,
                       signIn : 0..MaxSignIns]
      BY <2>5
    <3> QED BY <2>8, <3>1, <3>2, ZenonT(40) DEF LiveInv, LiveTypeOK
  <2> QED BY <2>7, <2>9 DEF LiveInv
<1>3. CASE SyncProgresses
  <2>1. /\ Send("progress") /\ Spend("alert") /\ "progress" \in Kinds
        /\ syncing' = TRUE /\ silent' = FALSE
        /\ UNCHANGED <<listServer, alerts, signedIn, socket, hasOpened, listCache, listRead,
                       debounce, asking, counts, badge, job, owed, carried>>
    BY <1>3 DEF SyncProgresses, Kinds
  <2>2. /\ wire' \in Seq(Kinds) /\ missed' \subseteq Kinds /\ Raised(wire') <= Raised(wire)
        /\ Raised(wire') \in Nat
    BY <2>1, SendType, LiveNumbers, RaisedType
  <2>3. /\ budget' \in [event : 0..MaxEvents, alert : 0..MaxAlerts, break : 0..MaxBreaks,
                        signIn : 0..MaxSignIns]
        /\ budget'.event = budget.event /\ budget'.alert = budget.alert - 1 /\ budget.alert > 0
    BY <2>1, SpendType DEF Spend
  <2>4. Counted'
    <3>1. UNCHANGED <<listServer, alerts, badge>>
      BY <2>1
    <3>2. /\ budget.alert > 0 /\ budget'.alert = budget.alert - 1
          /\ budget'.event = budget.event
      BY <2>3
    <3>3. Raised(wire') <= Raised(wire) /\ Raised(wire') \in Nat
      BY <2>2
    <3>4. WithinLeft
      BY <3>1, <3>2, <3>3, LiveNumbers DEF WithinLeft
    <3> QED BY <3>4, CountsKept
  <2>5. LiveTypeOK'
    BY <2>1, <2>2, <2>3 DEF LiveInv, LiveTypeOK
  <2> QED BY <2>4, <2>5 DEF LiveInv
<1>4. CASE SyncEnds \/ SyncEndsSilently
  <2>1. /\ Send("progress") \/ Send("complete") \/ UNCHANGED <<wire, missed>>
        /\ "progress" \in Kinds /\ "complete" \in Kinds
        /\ syncing' = FALSE /\ silent' \in {silent, TRUE}
        /\ UNCHANGED <<listServer, alerts, signedIn, socket, hasOpened, listCache, listRead,
                       debounce, asking, counts, badge, job, budget, owed, carried>>
    BY <1>4 DEF SyncEnds, SyncEndsSilently, Kinds
  <2>2. wire' \in Seq(Kinds) /\ missed' \subseteq Kinds /\ Raised(wire') <= Raised(wire)
    <3>1. CASE Send("progress") \/ Send("complete")
      <4>1. PICK e \in {"progress", "complete"} : Send(e)
        BY <3>1
      <4>2. Raised(wire') <= Raised(wire) + 0
        BY <2>1, <4>1, SendType
      <4>3. wire' \in Seq(Kinds) /\ missed' \subseteq Kinds
        BY <2>1, <4>1, SendType
      <4> QED BY <1>0, <4>2, <4>3
    <3>2. CASE UNCHANGED <<wire, missed>>
      BY <1>0, <3>2
    <3> QED BY <2>1, <3>1, <3>2
  <2>3. Raised(wire') \in Nat
    BY <2>2, RaisedType
  <2>4. Counted'
    <3>1. UNCHANGED <<listServer, alerts, badge, budget>>
      BY <2>1
    <3>2. Raised(wire') <= Raised(wire) /\ Raised(wire') \in Nat
      BY <2>2, <2>3
    <3>3. WithinLeft
      BY <3>1, <3>2, LiveNumbers DEF WithinLeft
    <3> QED BY <3>3, CountsKept
  <2>5. silent' \in BOOLEAN
    BY <2>1 DEF LiveInv, LiveTypeOK
  <2>6. LiveTypeOK'
    <3>1. /\ UNCHANGED <<listServer, alerts, signedIn, socket, hasOpened, listCache, listRead,
                         debounce, asking, counts, badge, job, budget, owed, carried>>
          /\ syncing' = FALSE
      BY <2>1
    <3>2. wire' \in Seq(Kinds) /\ missed' \subseteq Kinds
      BY <2>2
    <3> QED BY <2>5, <3>1, <3>2, ZenonT(40) DEF LiveInv, LiveTypeOK
  <2> QED BY <2>4, <2>6 DEF LiveInv
<1> QED BY <1>1, <1>2, <1>3, <1>4

(* The list is asked for, served and shown. *)
LEMMA ListInv ==
  ASSUME LiveInv, ListServed \/ LoadList \/ BurstEnds \/ ListArrives
  PROVE  LiveInv'
<1> USE DEF server, conn, live, notes
<1>1. /\ UNCHANGED <<listServer, alerts, syncing, wire, signedIn, socket, hasOpened, asking, counts,
                     badge, job, budget, carried, silent>>
      /\ missed' \subseteq missed /\ owed' \in BOOLEAN /\ debounce' \in BOOLEAN
  BY DEF ListServed, LoadList, BurstEnds, ListArrives, LiveInv, LiveTypeOK
<1>2. /\ listServer \in 0..(MaxEvents + 1) /\ 0 \in 0..(MaxEvents + 1)
      /\ listRead.n \in 0..(MaxEvents + 1) /\ listCache \in 0..(MaxEvents + 1)
  <2>1. /\ listServer \in 1..(MaxEvents + 1) /\ listRead.n \in 0..(MaxEvents + 1)
        /\ listCache \in 0..(MaxEvents + 1)
    BY DEF LiveInv, LiveTypeOK
  <2>2. MaxEvents \in Nat
    BY LiveNumbers
  <2> QED BY <2>1, <2>2
<1>3. listRead' \in {None, Asked, Served(listServer), Invalidated}
  BY DEF ListServed, LoadList, BurstEnds, ListArrives
<1>4. listRead'.st \in {"none", "sent", "served"} /\ listRead'.n \in 0..(MaxEvents + 1)
  BY <1>2, <1>3, RestTypes
<1>5. listCache' \in 0..(MaxEvents + 1)
  BY <1>2 DEF ListServed, LoadList, BurstEnds, ListArrives
<1>6. LiveTypeOK'
  BY <1>1, <1>4, <1>5 DEF LiveInv, LiveTypeOK
<1> QED BY <1>1, <1>6, UncountedInv

(* The badge is counted again. *)
LEMMA CountInv ==
  ASSUME LiveInv,
         \/ CountServed \/ CountFails \/ RecountTimer
         \/ \E n \in 0..(2 * MaxAlerts) : CountArrives(n)
  PROVE  LiveInv'
<1> USE DEF server, conn, list, notes
<1>1. UNCHANGED <<listServer, alerts, syncing, wire, signedIn, socket, hasOpened, listCache,
                  listRead, debounce, job, owed, carried, silent, missed>>
  BY DEF CountServed, CountFails, RecountTimer, CountArrives
<1>2. asking \in Nat /\ counts \in [0..(2 * MaxAlerts) -> Nat] /\ badge \in 0..(3 * MaxAlerts)
  BY DEF LiveInv, LiveTypeOK
<1>3. /\ budget' \in [event : 0..MaxEvents, alert : 0..MaxAlerts, break : 0..MaxBreaks,
                      signIn : 0..MaxSignIns]
      /\ budget'.event = budget.event /\ budget'.alert = budget.alert
  <2>1. CASE CountFails
    BY <2>1, SpendType DEF CountFails
  <2>2. CASE UNCHANGED budget
    BY <2>2 DEF LiveInv, LiveTypeOK
  <2> QED BY <2>1, <2>2 DEF CountServed, RecountTimer, CountArrives
<1>4. asking' \in Nat
  BY <1>2 DEF CountServed, CountFails, RecountTimer, CountArrives
<1>5. counts' \in [0..(2 * MaxAlerts) -> Nat]
  <2>1. CASE CountServed
    <3>1. counts' = [counts EXCEPT ![alerts] = counts[alerts] + 1]
      BY <2>1 DEF CountServed
    <3>2. alerts \in 0..(2 * MaxAlerts)
      BY DEF LiveInv, LiveTypeOK
    <3>3. counts[alerts] + 1 \in Nat
      BY <1>2, <3>2
    <3> QED BY <1>2, <3>1, <3>3
  <2>2. CASE \E n \in 0..(2 * MaxAlerts) : CountArrives(n)
    <3>1. PICK n \in 0..(2 * MaxAlerts) :
            counts[n] > 0 /\ counts' = [counts EXCEPT ![n] = counts[n] - 1]
      BY <2>2 DEF CountArrives
    <3> QED BY <1>2, <3>1
  <2>3. CASE UNCHANGED counts
    BY <1>2, <2>3
  <2> QED BY <2>1, <2>2, <2>3 DEF CountFails, RecountTimer
<1>6. badge' = badge \/ badge' \in 0..(2 * MaxAlerts)
  BY DEF CountServed, CountFails, RecountTimer, CountArrives
<1>7. badge' \in 0..(3 * MaxAlerts)
  BY <1>2, <1>6, LiveNumbers
<1>8. Counted'
  <2>1. UNCHANGED <<listServer, alerts, wire>>
    BY <1>1
  <2>2. badge' \in Nat /\ (badge' = badge \/ badge' <= 2 * MaxAlerts)
    BY <1>6, LiveNumbers
  <2>3. budget'.event = budget.event /\ budget'.alert = budget.alert
    BY <1>3
  <2>4. WithinLeft
    BY <2>1, <2>2, <2>3, LiveNumbers DEF WithinLeft
  <2> QED BY <2>4, CountsKept
<1>9. LiveTypeOK'
  BY <1>1, <1>3, <1>4, <1>5, <1>7 DEF LiveInv, LiveTypeOK
<1> QED BY <1>8, <1>9 DEF LiveInv

(* The socket opens, breaks and is tried again; the user signs in and out. *)
LEMMA SocketInv ==
  ASSUME LiveInv, SignIn \/ SignOut \/ SessionLost \/ Opens \/ Breaks \/ Retries
  PROVE  LiveInv'
<1> USE DEF server, list, live, notes
<1>0. <<>> \in Seq(Kinds) /\ Raised(<<>>) = 0
  BY RaisedEmpty
<1>1. CASE SignIn \/ Breaks
  <2>1. /\ UNCHANGED <<listServer, alerts, syncing, listCache, listRead, debounce, asking, counts,
                       badge, job, owed, carried, silent, missed>>
        /\ wire' \in {wire, <<>>} /\ signedIn' \in BOOLEAN /\ hasOpened' \in BOOLEAN
        /\ socket' \in {"closed", "waiting", "connecting", "open"}
        /\ \E k \in {"signIn", "break"} : Spend(k)
    BY <1>1 DEF SignIn, Breaks, LiveInv, LiveTypeOK
  <2>2. /\ budget' \in [event : 0..MaxEvents, alert : 0..MaxAlerts, break : 0..MaxBreaks,
                        signIn : 0..MaxSignIns]
        /\ budget'.event = budget.event /\ budget'.alert = budget.alert
    BY <2>1, SpendType
  <2>3. wire' \in Seq(Kinds) /\ Raised(wire') <= Raised(wire) /\ Raised(wire') \in Nat
    <3>1. wire \in Seq(Kinds) /\ Raised(wire) \in Nat
      BY LiveNumbers DEF LiveInv, LiveTypeOK
    <3>2. CASE wire' = wire
      BY <3>1, <3>2
    <3>3. CASE wire' = <<>>
      BY <1>0, <3>1, <3>3
    <3> QED BY <2>1, <3>2, <3>3
  <2>4. Counted'
    <3>1. UNCHANGED <<listServer, alerts, badge>>
      BY <2>1
    <3>2. budget'.event = budget.event /\ budget'.alert = budget.alert
      BY <2>2
    <3>3. Raised(wire') <= Raised(wire) /\ Raised(wire') \in Nat
      BY <2>3
    <3>4. WithinLeft
      BY <3>1, <3>2, <3>3, LiveNumbers DEF WithinLeft
    <3> QED BY <3>4, CountsKept
  <2>5. LiveTypeOK'
    BY <2>1, <2>2, <2>3 DEF LiveInv, LiveTypeOK
  <2> QED BY <2>4, <2>5 DEF LiveInv
<1>2. CASE SignOut \/ SessionLost
  <2>1. /\ UNCHANGED <<listServer, alerts, syncing, debounce, badge, job, silent, budget>>
        /\ wire' = <<>> /\ signedIn' = FALSE /\ hasOpened' = FALSE /\ socket' = "closed"
        /\ asking' = 0 /\ counts' = NoCounts
        /\ owed' = FALSE /\ carried' = job /\ missed' = {}
    BY <1>2 DEF SignOut, SessionLost, Disconnects
  <2>2. listCache' \in {listCache, 0} /\ listRead' \in {listRead, None}
    BY <1>2 DEF SignOut, SessionLost
  <2>3. 0 \in 0..(MaxEvents + 1) /\ counts' \in [0..(2 * MaxAlerts) -> Nat] /\ asking' \in Nat
    BY <2>1, LiveNumbers DEF NoCounts
  <2>4. /\ listRead'.n \in 0..(MaxEvents + 1) /\ listRead'.st \in {"none", "sent", "served"}
        /\ listCache' \in 0..(MaxEvents + 1)
    <3>1. /\ listRead.n \in 0..(MaxEvents + 1) /\ listRead.st \in {"none", "sent", "served"}
          /\ listCache \in 0..(MaxEvents + 1)
      BY DEF LiveInv, LiveTypeOK
    <3>2. None.n \in 0..(MaxEvents + 1) /\ None.st \in {"none", "sent", "served"}
      BY <2>3, RestTypes
    <3> QED BY <2>2, <2>3, <3>1, <3>2
  <2>5. Counted'
    <3>1. UNCHANGED <<listServer, alerts, badge, budget>> /\ Raised(wire') = 0
      BY <1>0, <2>1
    <3>2. WithinLeft
      BY <3>1, LiveNumbers DEF WithinLeft
    <3> QED BY <3>2, CountsKept
  <2>6. LiveTypeOK'
    BY <1>0, <2>1, <2>3, <2>4 DEF LiveInv, LiveTypeOK
  <2> QED BY <2>5, <2>6 DEF LiveInv
<1>3. CASE Opens
  <2>1. /\ UNCHANGED <<listServer, alerts, syncing, wire, signedIn, listCache, debounce, counts,
                       badge, budget, owed, silent>>
        /\ socket' = "open" /\ hasOpened' = TRUE /\ asking' = asking + 1
        /\ job' \in {job, FALSE} /\ carried' \in {carried, FALSE} /\ missed' \in {missed, {}}
        /\ listRead' \in {listRead, Invalidated}
    BY <1>3 DEF Opens
  <2>2. /\ asking' \in Nat
        /\ listRead'.n \in 0..(MaxEvents + 1) /\ listRead'.st \in {"none", "sent", "served"}
    <3>1. asking' \in Nat
      BY <2>1, LiveNumbers
    <3>2. listRead'.n \in 0..(MaxEvents + 1) /\ listRead'.st \in {"none", "sent", "served"}
      BY <2>1, RestTypes DEF LiveInv, LiveTypeOK
    <3> QED BY <3>1, <3>2
  <2>3. Counted'
    <3>1. UNCHANGED <<listServer, alerts, badge, wire, budget>>
      BY <2>1
    <3>2. WithinLeft
      BY <3>1, LiveNumbers DEF WithinLeft
    <3> QED BY <3>2, CountsKept
  <2>4. job' \in BOOLEAN /\ carried' \in BOOLEAN /\ missed' \subseteq Kinds
    BY <2>1 DEF LiveInv, LiveTypeOK
  <2>5. LiveTypeOK'
    BY <2>1, <2>2, <2>4 DEF LiveInv, LiveTypeOK
  <2> QED BY <2>3, <2>5 DEF LiveInv
<1>4. CASE Retries
  <2>1. LiveTypeOK'
    BY <1>4 DEF Retries, LiveInv, LiveTypeOK
  <2> QED BY <1>4, <2>1, UncountedInv DEF Retries
<1> QED BY <1>1, <1>2, <1>3, <1>4

(* Events arrive, and a raise moves from the wire to the badge. *)
LEMMA WireInv ==
  ASSUME LiveInv, Changed \/ AlertEvent \/ ProgressEvent \/ CompleteEvent
  PROVE  LiveInv'
<1> USE DEF server, conn, list, live, notes
<1>1. /\ wire # <<>> /\ wire' = Tail(wire) /\ wire \in Seq(Kinds)
      /\ UNCHANGED <<listServer, alerts, syncing, signedIn, socket, hasOpened, listCache,
                     asking, counts, budget, owed, silent, missed>>
  BY DEF Changed, AlertEvent, ProgressEvent, CompleteEvent, LiveInv, LiveTypeOK
<1>2. /\ wire' \in Seq(Kinds)
      /\ Raised(wire') + (IF Head(wire) = "raised" THEN 1 ELSE 0) <= Raised(wire)
      /\ Raised(wire') \in Nat
  <2>1. Tail(wire) \in Seq(Kinds)
    BY <1>1
  <2>2. Raised(Tail(wire)) \in Nat
    BY <2>1, RaisedType
  <2>3. Raised(Tail(wire)) + (IF Head(wire) = "raised" THEN 1 ELSE 0) <= Raised(wire)
    BY <1>1, RaisedTail
  <2> QED BY <1>1, <2>1, <2>2, <2>3
<1>3. debounce' \in BOOLEAN /\ job' \in BOOLEAN /\ carried' \in BOOLEAN
  BY DEF Changed, AlertEvent, ProgressEvent, CompleteEvent, LiveInv, LiveTypeOK
<1>4. listRead'.st \in {"none", "sent", "served"} /\ listRead'.n \in 0..(MaxEvents + 1)
  <2>1. listRead' \in {listRead, Invalidated}
    BY DEF Changed, AlertEvent, ProgressEvent, CompleteEvent
  <2> QED BY <2>1, RestTypes DEF LiveInv, LiveTypeOK
<1>5. badge' \in Nat /\ badge' + Raised(wire') <= badge + Raised(wire)
  <2>1. /\ badge \in Nat /\ Raised(wire) \in Nat /\ Raised(wire') \in Nat
        /\ Raised(wire') + (IF Head(wire) = "raised" THEN 1 ELSE 0) <= Raised(wire)
    BY <1>2, LiveNumbers
  <2>2. CASE AlertEvent
    <3>1. badge' = badge + 1 /\ Head(wire) = "raised"
      BY <2>2 DEF AlertEvent
    <3> QED BY <2>1, <3>1
  <2>3. CASE Changed \/ ProgressEvent \/ CompleteEvent
    <3>1. badge' = badge
      BY <2>3 DEF Changed, ProgressEvent, CompleteEvent
    <3>2. Raised(wire') <= Raised(wire)
      BY <2>1
    <3> QED BY <2>1, <3>1, <3>2
  <2> QED BY <2>2, <2>3
<1>6. Counted'
  <2>1. UNCHANGED <<listServer, alerts, budget>>
    BY <1>1
  <2>2. Raised(wire') <= Raised(wire) /\ Raised(wire') \in Nat
    BY <1>2, LiveNumbers
  <2>3. WithinLeft
    BY <2>1, <2>2, <1>5, LiveNumbers DEF WithinLeft
  <2> QED BY <2>3, CountsKept
<1>7. badge' \in 0..(3 * MaxAlerts)
  <2>1. (badge + Raised(wire) + budget.alert <= 3 * MaxAlerts)'
    BY <1>6 DEF Counted
  <2>2. Raised(wire)' = Raised(wire')
    BY DEF Raised, RaisedAt
  <2>3. budget'.alert \in Nat /\ Raised(wire') \in Nat /\ MaxAlerts \in Nat
    BY <1>1, <1>2, LiveNumbers
  <2> QED BY <1>5, <2>1, <2>2, <2>3
<1>8. LiveTypeOK'
  BY <1>1, <1>2, <1>3, <1>4, <1>7 DEF LiveInv, LiveTypeOK
<1> QED BY <1>6, <1>8 DEF LiveInv

LEMMA LiveStepInv == LiveInv /\ [LiveNext]_liveVars => LiveInv'
<1> SUFFICES ASSUME LiveInv, [LiveNext]_liveVars PROVE LiveInv'
  OBVIOUS
<1>1. CASE UNCHANGED liveVars
  BY <1>1 DEF liveVars, LiveInv, LiveTypeOK, Counted
<1>2. CASE ListChanges \/ AlertChanges \/ SyncProgresses \/ SyncEnds \/ SyncEndsSilently
  BY <1>2, ServerEventsInv
<1>3. CASE ListServed \/ LoadList \/ BurstEnds \/ ListArrives
  BY <1>3, ListInv
<1>4. CASE \/ CountServed \/ CountFails \/ RecountTimer
           \/ \E n \in 0..(2 * MaxAlerts) : CountArrives(n)
  BY <1>4, CountInv
<1>5. CASE SignIn \/ SignOut \/ SessionLost \/ Opens \/ Breaks \/ Retries
  BY <1>5, SocketInv
<1>6. CASE Changed \/ AlertEvent \/ ProgressEvent \/ CompleteEvent
  BY <1>6, WireInv
<1> QED BY <1>1, <1>2, <1>3, <1>4, <1>5, <1>6 DEF LiveNext

-----------------------------------------------------------------------------
(* The discovery panel.  A scan that runs or ended has a number, which its *)
(* events carry.                                                           *)

Events == [id : 1..MaxScans, host : Hosts \cup {"complete"}]
Numbered == scan.state = "running" => scan.id \in 1..MaxScans
PanelInv == PanelTypeOK /\ Numbered

LEMMA PanelRecords ==
  /\ NoScan \in Scans /\ Idle \in Requests /\ Requested \in Requests
  /\ [Idle EXCEPT !.st = "answered"] \in Requests /\ [Idle EXCEPT !.st = "waiting"] \in Requests
  /\ \A s \in Scans : [st |-> "answered", scan |-> s] \in Requests
<1>1. NoScan \in Scans
  BY PanelAssumption DEF NoScan, Scans
<1>2. Idle \in Requests
  BY <1>1 DEF Idle, Requests
<1>3. Requested \in Requests
  BY <1>2 DEF Requested, Requests
<1>4. [Idle EXCEPT !.st = "answered"] \in Requests /\ [Idle EXCEPT !.st = "waiting"] \in Requests
  BY <1>2 DEF Requests
<1>5. \A s \in Scans : [st |-> "answered", scan |-> s] \in Requests
  BY DEF Requests
<1> QED BY <1>1, <1>2, <1>3, <1>4, <1>5

LEMMA PanelInitInv == PanelInit => PanelInv
<1> SUFFICES ASSUME PanelInit PROVE PanelInv
  OBVIOUS
<1>1. /\ 0 \in 0..MaxScans /\ 0 \in 0..MaxCancels /\ 0 \in 0..MaxTroubles
      /\ scanFrames \in Seq(Events)
  BY PanelAssumption DEF PanelInit
<1>2. PanelTypeOK
  BY <1>1, PanelRecords DEF PanelInit, PanelTypeOK, Events
<1>3. Numbered
  BY DEF PanelInit, NoScan, Numbered
<1> QED BY <1>2, <1>3 DEF PanelInv

(* An event of the running scan, sent or dropped. *)
LEMMA EmitTypes ==
  ASSUME PanelInv, scan.state = "running", NEW e \in Hosts \cup {"complete"}, Emit(e)
  PROVE  scanFrames' \in Seq(Events) /\ drops' \in 0..MaxTroubles
<1>1. /\ scanFrames \in Seq(Events) /\ drops \in 0..MaxTroubles /\ readFaults \in 0..MaxTroubles
      /\ [id |-> scan.id, host |-> e] \in Events
  BY DEF PanelInv, PanelTypeOK, Numbered, Events
<1>2. CASE drops' = drops
  <2>1. scanFrames' \in {scanFrames, Append(scanFrames, [id |-> scan.id, host |-> e])}
    BY DEF Emit
  <2> QED BY <1>1, <1>2, <2>1
<1>3. CASE drops + readFaults < MaxTroubles /\ drops' = drops + 1 /\ scanFrames' = scanFrames
  BY <1>1, <1>3, PanelAssumption
<1> QED BY <1>2, <1>3 DEF Emit

(* A read that starts again. *)
LEMMA ReadAgainTypes ==
  ASSUME PanelInv, ReadAgain
  PROVE  scanRead' \in Requests /\ shownScan' \in Scans
<1>1. scanRead \in Requests /\ shownScan \in Scans /\ scanCache \in Scans
  BY DEF PanelInv, PanelTypeOK
<1>2. scanRead' \in {Requested, scanRead} /\ shownScan' \in {scanCache, shownScan}
  BY DEF ReadAgain
<1> QED BY <1>1, <1>2, PanelRecords

(* The types of the panel's variables, one by one. *)
LEMMA PanelParts ==
  ASSUME PanelInv
  PROVE  /\ scan \in Scans /\ shownScan \in Scans /\ scanCache \in Scans
         /\ stopping \in BOOLEAN
         /\ mine \in 0..MaxScans /\ readError \in {"none", "absent", "other"}
         /\ socketOpen \in BOOLEAN
         /\ scanRead \in Requests /\ start \in Requests /\ cancel \in Requests
         /\ scanFrames \in Seq(Events)
         /\ cancels \in 0..MaxCancels /\ drops \in 0..MaxTroubles /\ readFaults \in 0..MaxTroubles
         /\ Numbered
  BY DEF PanelInv, PanelTypeOK, Events

(* Steps that leave the server's scan and its events alone. *)
LEMMA PanelOnly ==
  ASSUME PanelInv, UNCHANGED <<scan, mine>>, stopping' \in BOOLEAN,
         shownScan' \in Scans, scanCache' \in Scans, readError' \in {"none", "absent", "other"},
         scanRead' \in Requests, start' \in Requests, cancel' \in Requests,
         socketOpen' \in BOOLEAN, scanFrames' \in Seq(Events),
         cancels' \in 0..MaxCancels, drops' \in 0..MaxTroubles, readFaults' \in 0..MaxTroubles
  PROVE  PanelInv'
  BY PanelParts DEF PanelInv, PanelTypeOK, Numbered, Events

(* Steps of the server's scan. *)
LEMMA ScanOnly ==
  ASSUME PanelInv, scan' \in Scans, stopping' \in BOOLEAN, mine' \in 0..MaxScans, Numbered',
         UNCHANGED <<shownScan, scanCache, readError, scanRead, socketOpen, cancels, readFaults>>,
         start' \in Requests, cancel' \in Requests,
         scanFrames' \in Seq(Events), drops' \in 0..MaxTroubles
  PROVE  PanelInv'
  BY PanelParts DEF PanelInv, PanelTypeOK, Events

(* A scan that somebody starts. *)
LEMMA NextScan ==
  ASSUME PanelInv, scan.id < MaxScans
  PROVE  NewScan \in Scans /\ NewScan.id \in 1..MaxScans
<1>1. scan.id + 1 \in 1..MaxScans /\ scan.id + 1 \in 0..MaxScans
  BY PanelParts, PanelAssumption DEF Scans
<1> QED BY <1>1 DEF Scans, NewScan

LEMMA ServerScanInv ==
  ASSUME PanelInv,
         \/ \E h \in Hosts : ScanFinds(h)
         \/ ScanEnds \/ OtherStarts \/ StartServed \/ CancelServed \/ CancelTimesOut
  PROVE  PanelInv'
<1> USE PanelParts DEF requests, eventVars, faultVars, scanner, panel
<1>0. /\ scan.state = "running" => [scan EXCEPT !.state = "ended"] \in Scans
      /\ [scan EXCEPT !.state = "ended"].state = "ended"
  BY DEF Scans
<1>1. ASSUME NEW h \in Hosts, ScanFinds(h) PROVE PanelInv'
  <2>1. /\ scan.state = "running" /\ scan' = [scan EXCEPT !.found = scan.found \cup {h}]
        /\ UNCHANGED <<stopping, mine, shownScan, scanCache, readError, scanRead, start, cancel,
                       socketOpen, cancels, readFaults>>
    BY <1>1 DEF ScanFinds
  <2>2. scan' \in Scans /\ scan'.id = scan.id
    BY <2>1 DEF Scans
  <2>3. Numbered'
    BY <2>1, <2>2 DEF Numbered
  <2>4. scanFrames' \in Seq(Events) /\ drops' \in 0..MaxTroubles
    BY <1>1, <2>1, EmitTypes DEF ScanFinds
  <2> QED BY <2>1, <2>2, <2>3, <2>4, ScanOnly
<1>2. CASE ScanEnds
  <2>1. /\ scan.state = "running" /\ scan' = [scan EXCEPT !.state = "ended"] /\ stopping' = FALSE
        /\ cancel' \in {[st |-> "answered", scan |-> scan'], cancel}
        /\ UNCHANGED <<mine, shownScan, scanCache, readError, scanRead, start, socketOpen,
                       cancels, readFaults>>
    BY <1>2 DEF ScanEnds
  <2>2. Numbered'
    BY <1>0, <2>1 DEF Numbered
  <2>3. scanFrames' \in Seq(Events) /\ drops' \in 0..MaxTroubles
    BY <1>2, <2>1, EmitTypes DEF ScanEnds
  <2>4. cancel' \in Requests
    BY <1>0, <2>1, PanelRecords
  <2> QED BY <1>0, <2>1, <2>2, <2>3, <2>4, ScanOnly
<1>3. CASE OtherStarts
  <2>1. /\ scan.id < MaxScans /\ scan' = NewScan
        /\ UNCHANGED <<stopping, mine, shownScan, scanCache, readError, scanRead, start, cancel,
                       socketOpen, cancels, readFaults, scanFrames, drops>>
    BY <1>3 DEF OtherStarts
  <2>2. scan' \in Scans /\ Numbered'
    BY <2>1, NextScan DEF Numbered
  <2> QED BY <2>1, <2>2, ScanOnly
<1>4. CASE StartServed
  <2>1. UNCHANGED <<stopping, shownScan, scanCache, readError, scanRead, cancel, socketOpen,
                    cancels, readFaults, scanFrames, drops>>
    BY <1>4 DEF StartServed
  <2>2. CASE scan.state = "running"
    <3>1. start' = [Idle EXCEPT !.st = "answered"] /\ UNCHANGED <<scan, mine>>
      BY <1>4, <2>2 DEF StartServed
    <3>2. start' \in Requests
      BY <3>1, PanelRecords
    <3>3. Numbered'
      BY <3>1 DEF Numbered
    <3> QED BY <2>1, <3>1, <3>2, <3>3, ScanOnly
  <2>3. CASE scan.state # "running"
    <3>1. /\ scan.id < MaxScans /\ scan' = NewScan
          /\ mine' = scan'.id /\ start' = [st |-> "answered", scan |-> scan']
      BY <1>4, <2>3 DEF StartServed
    <3>2. scan' \in Scans /\ scan'.id \in 1..MaxScans
      BY <3>1, NextScan
    <3>3. mine' \in 0..MaxScans /\ Numbered'
      BY <3>1, <3>2, PanelAssumption DEF Numbered
    <3>4. start' \in Requests
      BY <3>1, <3>2, PanelRecords
    <3> QED BY <2>1, <3>2, <3>3, <3>4, ScanOnly
  <2> QED BY <2>2, <2>3
<1>5. CASE CancelServed
  <2>1. /\ UNCHANGED <<scan, mine, shownScan, scanCache, readError, scanRead, start, socketOpen,
                       cancels, readFaults, scanFrames, drops>>
        /\ stopping' \in {stopping, TRUE}
        /\ cancel' \in {[Idle EXCEPT !.st = "waiting"], [Idle EXCEPT !.st = "answered"]}
    BY <1>5 DEF CancelServed
  <2>2. cancel' \in Requests /\ stopping' \in BOOLEAN
    BY <2>1, PanelRecords
  <2> QED BY <2>1, <2>2, PanelOnly
<1>6. CASE CancelTimesOut
  <2>1. /\ UNCHANGED <<scan, stopping, mine, shownScan, scanCache, readError, scanRead, start,
                       socketOpen, cancels, readFaults, scanFrames, drops>>
        /\ cancel' = [st |-> "answered", scan |-> scan]
    BY <1>6 DEF CancelTimesOut
  <2>2. cancel' \in Requests
    BY <2>1, PanelRecords
  <2> QED BY <2>1, <2>2, PanelOnly
<1> QED BY <1>1, <1>2, <1>3, <1>4, <1>5, <1>6

(* What the admin asks for. *)
LEMMA AdminInv ==
  ASSUME PanelInv, ReadServed \/ StartScan \/ StartAnswered \/ CancelScan \/ CancelAnswered
  PROVE  PanelInv'
<1> USE PanelParts DEF requests, eventVars, faultVars, scanner, panel
<1>1. CASE ReadServed
  <2>1. scanRead' \in Requests
    BY <1>1, PanelRecords DEF ReadServed
  <2> QED BY <1>1, <2>1, PanelOnly DEF ReadServed
<1>2. CASE StartScan
  <2>1. start' \in Requests
    BY <1>2, PanelRecords DEF StartScan
  <2> QED BY <1>2, <2>1, PanelOnly DEF StartScan
<1>3. CASE StartAnswered
  <2>1. start' \in Requests /\ start.scan \in Scans
    BY <1>3, PanelRecords DEF StartAnswered, Requests
  <2>2. scanRead' \in Requests /\ shownScan' \in Scans
    BY <1>3, <2>1, ReadAgainTypes DEF StartAnswered
  <2> QED BY <1>3, <2>1, <2>2, PanelOnly DEF StartAnswered
<1>4. CASE CancelScan
  <2>1. cancel' \in Requests
    BY <1>4, PanelRecords DEF CancelScan
  <2>2. cancels' \in 0..MaxCancels
    BY <1>4, PanelAssumption DEF CancelScan
  <2> QED BY <1>4, <2>1, <2>2, PanelOnly DEF CancelScan
<1>5. CASE CancelAnswered
  <2>1. cancel' \in Requests /\ cancel.scan \in Scans
    BY <1>5, PanelRecords DEF CancelAnswered, Requests
  <2>2. scanRead' \in Requests /\ shownScan' \in Scans
    BY <1>5, <2>1, ReadAgainTypes DEF CancelAnswered
  <2> QED BY <1>5, <2>1, <2>2, PanelOnly DEF CancelAnswered
<1> QED BY <1>1, <1>2, <1>3, <1>4, <1>5

(* What is read, or told by an event, and the socket. *)
LEMMA SourcesInv ==
  ASSUME PanelInv, Poll \/ ReadArrives \/ ReadFails \/ ScanEvent \/ SocketBreaks \/ SocketReturns
  PROVE  PanelInv'
<1> USE PanelParts DEF requests, eventVars, faultVars, scanner, panel
<1>1. CASE Poll
  <2>1. scanRead' \in Requests /\ shownScan' \in Scans
    BY <1>1, ReadAgainTypes DEF Poll
  <2> QED BY <1>1, <2>1, PanelOnly DEF Poll
<1>2. CASE ReadArrives
  <2>1. scanRead' \in Requests /\ scanRead.scan \in Scans
    BY <1>2, PanelRecords DEF ReadArrives, Requests
  <2>2. shownScan' \in Scans /\ scanCache' \in Scans /\ readError' \in {"none", "absent", "other"}
    BY <1>2, <2>1 DEF ReadArrives
  <2> QED BY <1>2, <2>1, <2>2, PanelOnly DEF ReadArrives
<1>3. CASE ReadFails
  <2>1. scanRead' \in Requests /\ readError' \in {"none", "absent", "other"}
    BY <1>3, PanelRecords DEF ReadFails
  <2>2. readFaults' \in 0..MaxTroubles
    <3>1. drops + readFaults < MaxTroubles /\ readFaults' = readFaults + 1
      BY <1>3 DEF ReadFails
    <3>2. drops \in 0..MaxTroubles /\ readFaults \in 0..MaxTroubles
      OBVIOUS
    <3> HIDE PanelParts
    <3> QED BY <3>1, <3>2, PanelAssumption
  <2> QED BY <1>3, <2>1, <2>2, PanelOnly DEF ReadFails
<1>4. CASE ScanEvent
  <2>1. scanFrames' \in Seq(Events) /\ Head(scanFrames) \in Events
    BY <1>4 DEF ScanEvent
  <2>2. PICK e \in Events : e = Head(scanFrames)
    BY <2>1
  <2>3. /\ [shownScan EXCEPT !.state = "ended"] \in Scans
        /\ e.host # "complete" => [shownScan EXCEPT !.found = shownScan.found \cup {e.host}] \in Scans
    BY DEF Scans, Events
  <2>4. shownScan' \in Scans
    <3>1. CASE e.host = "complete"
      BY <1>4, <2>2, <2>3, <3>1 DEF ScanEvent
    <3>2. CASE e.host # "complete"
      BY <1>4, <2>2, <2>3, <3>2 DEF ScanEvent
    <3> QED BY <3>1, <3>2
  <2>5. scanRead' \in Requests
    <3>1. scanRead' \in {Requested, scanRead}
      BY <1>4 DEF ScanEvent
    <3> QED BY <3>1, PanelRecords
  <2> QED BY <1>4, <2>1, <2>4, <2>5, PanelOnly DEF ScanEvent
<1>5. CASE SocketBreaks
  <2>1. scanFrames' \in Seq(Events) /\ socketOpen' \in BOOLEAN
    <3>1. scanFrames' = <<>> /\ socketOpen' = FALSE
      BY <1>5 DEF SocketBreaks
    <3>2. <<>> \in Seq(Events)
      OBVIOUS
    <3> QED BY <3>1, <3>2
  <2>2. drops' \in 0..MaxTroubles
    <3>1. drops + readFaults < MaxTroubles /\ drops' = drops + 1
      BY <1>5 DEF SocketBreaks
    <3>2. drops \in 0..MaxTroubles /\ readFaults \in 0..MaxTroubles
      OBVIOUS
    <3> HIDE PanelParts
    <3> QED BY <3>1, <3>2, PanelAssumption
  <2> QED BY <1>5, <2>1, <2>2, PanelOnly DEF SocketBreaks
<1>6. CASE SocketReturns
  <2>1. scanRead' \in Requests /\ shownScan' \in Scans
    BY <1>6, ReadAgainTypes DEF SocketReturns
  <2>2. socketOpen' \in BOOLEAN
    BY <1>6 DEF SocketReturns
  <2> QED BY <1>6, <2>1, <2>2, PanelOnly DEF SocketReturns
<1> QED BY <1>1, <1>2, <1>3, <1>4, <1>5, <1>6

LEMMA PanelStepInv == PanelInv /\ [PanelNext]_panelVars => PanelInv'
<1> SUFFICES ASSUME PanelInv, [PanelNext]_panelVars PROVE PanelInv'
  OBVIOUS
<1>1. CASE UNCHANGED panelVars
  BY <1>1 DEF panelVars, PanelInv, PanelTypeOK, Numbered
<1>2. CASE \/ \E h \in Hosts : ScanFinds(h)
           \/ ScanEnds \/ OtherStarts \/ StartServed \/ CancelServed \/ CancelTimesOut
  BY <1>2, ServerScanInv
<1>3. CASE ReadServed \/ StartScan \/ StartAnswered \/ CancelScan \/ CancelAnswered
  BY <1>3, AdminInv
<1>4. CASE Poll \/ ReadArrives \/ ReadFails \/ ScanEvent \/ SocketBreaks \/ SocketReturns
  BY <1>4, SourcesInv
<1> QED BY <1>1, <1>2, <1>3, <1>4 DEF PanelNext

-----------------------------------------------------------------------------
(* The parts side by side. *)

(* The parts that a behaviour is not about rest, in states of their types. *)
LEMMA SessionRestsInv == SessionRests => SessionInv
<1> SUFFICES ASSUME SessionRests PROVE SessionInv
  OBVIOUS
<1>1. /\ cookie \in 0..TokenCount /\ liveTokens \subseteq Tokens
      /\ status = "anonymous" /\ mfaTicket = FALSE /\ access = "none"
  BY SessionAssumption DEF SessionRests
<1>2. flight = [f \in Callers |-> NoFlight] /\ call = [c \in Calls |-> NoCall]
  BY DEF SessionRests
<1>3. \A f \in Callers : flight[f].st = "none" /\ flight[f].token = 0
  BY <1>2 DEF NoFlight
<1>4. OneFlight /\ OwnCookie /\ DeadCookie
  BY <1>3 DEF OneFlight, OwnCookie, DeadCookie
<1>5. flight \in [Callers -> Flights] /\ call \in [Calls -> CallRecords]
  BY <1>2, NoCallType
<1>6. SessionTypeOK
  BY <1>1, <1>5 DEF SessionTypeOK, Flights, CallRecords
<1> QED BY <1>4, <1>6 DEF SessionInv

LEMMA PanelRestsInv == PanelRests => PanelInv
<1> SUFFICES ASSUME PanelRests PROVE PanelInv
  OBVIOUS
<1>1. /\ 0 \in 0..MaxScans /\ 0 \in 0..MaxCancels /\ 0 \in 0..MaxTroubles
      /\ scanFrames \in Seq(Events)
  BY PanelAssumption DEF PanelRests
<1>2. PanelTypeOK
  BY <1>1, PanelRecords DEF PanelRests, PanelTypeOK, Events
<1>3. Numbered
  BY DEF PanelRests, NoScan, Numbered
<1> QED BY <1>2, <1>3 DEF PanelInv

LEMMA DecisionRestsInv == DecisionRests => DecisionTypes
<1> SUFFICES ASSUME DecisionRests PROVE DecisionTypes
  OBVIOUS
<1>1. /\ runNow \in Runs /\ runShown \in Runs /\ opened \in Runs /\ runFetch \in Fetches
      /\ basis \in Bases /\ resumeReq \in ResumeRequests
  BY RestingTypes DEF DecisionRests
<1>2. /\ dialog = "none" /\ choice = "none" /\ knowsGone = FALSE
  BY DecisionAssumption DEF DecisionRests
<1>3. StepAhead
  BY DEF DecisionRests, NoRun, StepAhead
<1> QED BY <1>1, <1>2, <1>3
        DEF DecisionTypes, DecisionTypeOK, Fetches, Bases, ResumeRequests, Decisions

WebInv == DocInv /\ LockInv /\ LiveInv /\ SessionInv /\ PanelInv /\ DecisionTypes

LEMMA WebInitInv == WebInit => WebInv
<1> SUFFICES ASSUME WebInit PROVE WebInv
  OBVIOUS
<1>1. DocInv /\ LockInv /\ LiveInv
  BY DocInitInv, LockInitInv, LiveInitInv DEF WebInit, OneText
<1>2. SessionInv
  BY SessionInitInv, SessionRestsInv DEF WebInit
<1>3. PanelInv
  BY PanelInitInv, PanelRestsInv DEF WebInit
<1>4. DecisionTypes
  BY DecisionInitTypes, DecisionRestsInv DEF WebInit
<1> QED BY <1>1, <1>2, <1>3, <1>4 DEF WebInv

(* A part takes a step, or is left alone. *)
LEMMA WebStepInv == WebInv /\ [WebNext]_webVars => WebInv'
<1> SUFFICES ASSUME WebInv, [WebNext]_webVars PROVE WebInv'
  OBVIOUS
<1>1. [DocNext]_docVars /\ [LockNext]_lockVars /\ [LiveNext]_liveVars
  BY DEF WebNext, webVars
<1>2. [SessionNext]_sessionVars /\ [PanelNext]_panelVars /\ [DecisionNext]_decisionVars
  BY DEF WebNext, webVars
<1>3. DocInv' /\ LockInv' /\ LiveInv'
  BY <1>1, DocStepInv, LockStepInv, LiveStepInv DEF WebInv
<1>4. SessionInv' /\ PanelInv' /\ DecisionTypes'
  BY <1>2, SessionStepInv, PanelStepInv, DecisionStepTypes DEF WebInv
<1> QED BY <1>3, <1>4 DEF WebInv

(* Every part keeps to its types, resting or not: whatever the number of      *)
(* texts, versions, pages, requests, tokens, events, scans and revisions, and *)
(* however requests, answers and events of each part overtake one another.    *)
THEOREM ClientTypeCorrect == WebSpec => []WebTypeOK
<1>1. WebInv => WebTypeOK
  BY DEF WebInv, WebTypeOK, DocInv, LockInv, LiveInv, SessionInv, PanelInv, DecisionTypes
<1> QED BY <1>1, WebInitInv, WebStepInv, PTL DEF WebSpec

=============================================================================
