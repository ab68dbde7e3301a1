-------------------------------- MODULE DocLock --------------------------------
(***************************************************************************)
(* The advisory lock of a doc: the editor page that takes, renews and      *)
(* returns it, the row that the server keeps, and the events that tell     *)
(* every browser who holds it.  The user opens the page, leaves it and     *)
(* opens it again; callbacks of requests that an earlier page sent run     *)
(* when a later one is open.  The row belongs to a user, not to a page.    *)
(***************************************************************************)
EXTENDS Naturals, Sequences

CONSTANTS KnowsUser,      \* the session holds the user's id (a silent refresh drops it)
          MaxPages,       \* bound: times the page is opened
          MaxFrames,      \* bound: lock events on their way to the browser
          MaxLockFaults   \* bound: lock requests that fail

ASSUME LockAssumption ==
  KnowsUser \in BOOLEAN /\ MaxPages \in Nat /\ MaxFrames \in Nat /\ MaxLockFaults \in Nat

VARIABLES
  pageOpen,    \* the page is mounted
  page,        \* number of the page opened last
  lockHeld,    \* state of the page: it believes to hold the lock
  lockRef,     \* per page: lockAcquiredRef
  lockReq,     \* per page: its acquire or renew request
  saving,      \* per page: a save is under way
  lockShown,   \* live store: the holder on display
  lockRow,     \* server: the holder
  releases,    \* release requests on their way
  frames,      \* lock events on their way
  lockFaults   \* lock and release requests that failed so far

lockVars == <<pageOpen, page, lockHeld, lockRef, lockReq, saving, lockShown, lockRow,
              releases, frames, lockFaults>>

Pages == 1..MaxPages
Holders == {"nobody", "user", "other"}

(* The state has its types. *)
LockTypeOK ==
  /\ pageOpen \in BOOLEAN /\ lockHeld \in BOOLEAN
  /\ page \in 0..MaxPages
  /\ lockRef \in [Pages -> BOOLEAN] /\ saving \in [Pages -> BOOLEAN]
  /\ lockReq \in [Pages -> {"none", "sent", "granted", "refused"}]
  /\ lockShown \in Holders /\ lockRow \in Holders
  /\ releases \in Nat /\ lockFaults \in 0..MaxLockFaults
  /\ frames \in Seq(Holders) /\ Len(frames) <= MaxFrames

OnPage(p) == pageOpen /\ page = p
lockedByOther == lockShown = "other" \/ (lockShown = "user" /\ ~KnowsUser)
MayEdit == pageOpen /\ lockHeld /\ ~lockedByOther /\ lockReq[page] = "none"

LockInit ==
  /\ pageOpen = FALSE /\ page = 0 /\ lockHeld = FALSE
  /\ lockRef = [p \in Pages |-> FALSE] /\ saving = [p \in Pages |-> FALSE]
  /\ lockReq = [p \in Pages |-> "none"]
  /\ lockShown = "nobody" /\ lockRow = "nobody"
  /\ releases = 0 /\ frames = <<>> /\ lockFaults = 0

here == <<pageOpen, page>>
serverLock == <<lockRow, frames>>

(* A lock event is queued for the browser, or lost with its socket. *)
Broadcast(f) ==
  \/ frames' = frames
  \/ Len(frames) < MaxFrames /\ frames' = Append(frames, f)

-----------------------------------------------------------------------------
(* The user and the page. *)

OpenPage ==
  /\ ~pageOpen /\ page < MaxPages
  /\ pageOpen' = TRUE /\ page' = page + 1
  /\ UNCHANGED <<lockHeld, lockRef, lockReq, saving, lockShown, serverLock, releases,
                 lockFaults>>

(* The button that starts editing asks for the lock. *)
StartEditing ==
  /\ pageOpen /\ ~lockHeld /\ lockReq[page] = "none"
  /\ lockReq' = [lockReq EXCEPT ![page] = "sent"]
  /\ UNCHANGED <<here, lockHeld, lockRef, saving, lockShown, serverLock, releases, lockFaults>>

(* The heartbeat renews the lock while the page holds it. *)
RenewLock ==
  /\ pageOpen /\ lockHeld /\ lockReq[page] = "none"
  /\ lockReq' = [lockReq EXCEPT ![page] = "sent"]
  /\ UNCHANGED <<here, lockHeld, lockRef, saving, lockShown, serverLock, releases, lockFaults>>

(* The page unmounts or the tab is closed: a lock believed held is released. *)
LeavePage ==
  /\ pageOpen /\ pageOpen' = FALSE /\ lockHeld' = FALSE
  /\ releases' = IF lockRef[page] THEN releases + 1 ELSE releases
  /\ UNCHANGED <<page, lockRef, lockReq, saving, lockShown, serverLock, lockFaults>>

(* A save leaves the page (DocDraft follows it). *)
SendSave ==
  /\ MayEdit /\ ~saving[page]
  /\ saving' = [saving EXCEPT ![page] = TRUE]
  /\ UNCHANGED <<here, lockHeld, lockRef, lockReq, lockShown, serverLock, releases, lockFaults>>

(* The save succeeded with nothing typed since: the lock is released and the *)
(* browser goes to the doc, whichever editor is open by then.                *)
SaveCloses(p) ==
  LET other == pageOpen /\ page # p /\ lockRef[page]
  IN /\ saving[p] /\ saving' = [saving EXCEPT ![p] = FALSE]
     /\ lockRef' = [lockRef EXCEPT ![p] = FALSE]
     /\ releases' = releases + (IF lockRef[p] THEN 1 ELSE 0) + (IF other THEN 1 ELSE 0)
     /\ pageOpen' = FALSE /\ lockHeld' = FALSE
     /\ UNCHANGED <<page, lockReq, lockShown, serverLock, lockFaults>>

(* Any other answer of the save leaves page and lock as they are. *)
SaveStays(p) ==
  /\ saving[p] /\ saving' = [saving EXCEPT ![p] = FALSE]
  /\ UNCHANGED <<here, lockHeld, lockRef, lockReq, lockShown, serverLock, releases, lockFaults>>

LockGranted_Unmounted(p) ==
  /\ lockReq[p] = "granted"
  /\ lockReq' = [lockReq EXCEPT ![p] = "none"]
  /\ lockShown' = "nobody"
  /\ lockRef' = [lockRef EXCEPT ![p] = TRUE]
  /\ lockHeld' = (lockHeld \/ OnPage(p))
  /\ UNCHANGED <<here, saving, serverLock, releases, lockFaults>>

LockGranted_KeepsBanner(p) ==
  /\ lockReq[p] = "granted"
  /\ lockReq' = [lockReq EXCEPT ![p] = "none"]
  /\ IF OnPage(p)
     THEN /\ lockRef' = [lockRef EXCEPT ![p] = TRUE]
          /\ lockHeld' = TRUE
          /\ UNCHANGED releases
     ELSE releases' = releases + 1 /\ UNCHANGED <<lockRef, lockHeld>>
  /\ UNCHANGED <<here, saving, lockShown, serverLock, lockFaults>>

(* The lock was granted.  A page that was left meanwhile gives it back. *)
LockGranted(p) ==
  /\ lockReq[p] = "granted"
  /\ lockReq' = [lockReq EXCEPT ![p] = "none"]
  /\ IF OnPage(p)
     THEN /\ lockShown' = "nobody"
          /\ lockRef' = [lockRef EXCEPT ![p] = TRUE]
          /\ lockHeld' = TRUE
          /\ UNCHANGED releases
     ELSE releases' = releases + 1 /\ UNCHANGED <<lockShown, lockRef, lockHeld>>
  /\ UNCHANGED <<here, saving, serverLock, lockFaults>>

(* The page does not hold the lock after all. *)
NotHeld(p) ==
  /\ lockReq' = [lockReq EXCEPT ![p] = "none"]
  /\ lockRef' = [lockRef EXCEPT ![p] = FALSE]
  /\ lockHeld' = (lockHeld /\ ~OnPage(p))
  /\ UNCHANGED <<here, saving, serverLock, releases>>

(* The lock was refused; the answer names the holder. *)
LockRefused(p) ==
  /\ lockReq[p] = "refused" /\ NotHeld(p)
  /\ lockShown' = "other"
  /\ UNCHANGED lockFaults

(* The request failed, before or after the server granted it. *)
LockFailed(p) ==
  /\ lockReq[p] # "none" /\ NotHeld(p)
  /\ lockFaults < MaxLockFaults /\ lockFaults' = lockFaults + 1
  /\ UNCHANGED lockShown

(* A lock event arrives. *)
FrameArrives ==
  /\ frames # <<>>
  /\ lockShown' = Head(frames) /\ frames' = Tail(frames)
  /\ UNCHANGED <<here, lockHeld, lockRef, lockReq, saving, lockRow, releases, lockFaults>>

-----------------------------------------------------------------------------
(* The server, and somebody else. *)

(* The lock is taken, or renewed, unless somebody else holds it. *)
LockServed(p) ==
  /\ lockReq[p] = "sent"
  /\ IF lockRow = "other"
     THEN /\ lockReq' = [lockReq EXCEPT ![p] = "refused"]
          /\ UNCHANGED serverLock
     ELSE /\ lockReq' = [lockReq EXCEPT ![p] = "granted"]
          /\ lockRow' = "user" /\ Broadcast("user")
  /\ UNCHANGED <<here, lockHeld, lockRef, saving, lockShown, releases, lockFaults>>

(* A release deletes the row if it is the user's; its event goes out anyway. *)
ReleaseServed ==
  /\ releases > 0 /\ releases' = releases - 1
  /\ lockRow' = IF lockRow = "user" THEN "nobody" ELSE lockRow
  /\ Broadcast("nobody")
  /\ UNCHANGED <<here, lockHeld, lockRef, lockReq, saving, lockShown, lockFaults>>

(* A release that fails is not repeated. *)
ReleaseLost ==
  /\ releases > 0 /\ releases' = releases - 1
  /\ lockFaults < MaxLockFaults /\ lockFaults' = lockFaults + 1
  /\ UNCHANGED <<here, lockHeld, lockRef, lockReq, saving, lockShown, serverLock>>

(* Somebody else takes the free lock. *)
OtherLocks ==
  /\ lockRow = "nobody" /\ lockRow' = "other" /\ Broadcast("other")
  /\ UNCHANGED <<here, lockHeld, lockRef, lockReq, saving, lockShown, releases, lockFaults>>

(* A lock ends: somebody else's is released, or one is not renewed in time. *)
LockEnds ==
  /\ lockRow # "nobody" /\ lockRow' = "nobody" /\ Broadcast("nobody")
  /\ UNCHANGED <<here, lockHeld, lockRef, lockReq, saving, lockShown, releases, lockFaults>>

-----------------------------------------------------------------------------

LockNext ==
  \/ OpenPage \/ StartEditing \/ RenewLock \/ LeavePage \/ SendSave
  \/ \E p \in Pages : SaveCloses(p) \/ SaveStays(p) \/ LockServed(p)
  \/ \E p \in Pages : LockGranted(p) \/ LockRefused(p) \/ LockFailed(p)
  \/ FrameArrives \/ ReleaseServed \/ ReleaseLost \/ OtherLocks \/ LockEnds

(* The heartbeat fires and its request is answered. *)
LockFairness ==
  /\ WF_lockVars(RenewLock)
  /\ \A p \in Pages : WF_lockVars(LockServed(p) \/ LockGranted(p) \/ LockRefused(p))

LockSpec == LockInit /\ [][LockNext]_lockVars /\ LockFairness

-----------------------------------------------------------------------------

(* Nobody is kept from a doc by a page that is gone.  When the page is left  *)
(* and none of its requests is under way or was lost, the row is not the     *)
(* user's, in whatever order the renewal, the save and the leave were        *)
(* answered (DocEditorPage.tsx: mountedRef, lockAcquiredRef).                *)
LockReturned ==
  ~pageOpen /\ releases = 0 /\ lockFaults = 0 /\ (\A p \in Pages : lockReq[p] = "none")
    => lockRow # "user"

(* A banner that names a holder who is gone, because the event that said so *)
(* was lost, does not keep the holder of the lock from editing: the next    *)
(* renewal clears it (acquireLock.onSuccess, the heartbeat effect).         *)
BannerHeals ==
  []<>(lockHeld /\ lockRow = "user" => MayEdit)

=============================================================================
