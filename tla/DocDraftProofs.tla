---------------------------- MODULE DocDraftProofs ----------------------------
(***************************************************************************)
(* The draft of the doc editor implements the contract of a shared doc for *)
(* every set of texts and every bound.  The argument: whatever a request   *)
(* carries as its base was on the screen or in an answer, and versions     *)
(* that were seen stay seen.  And what was typed stays in the draft until  *)
(* a command of the user takes it away.                                    *)
(***************************************************************************)
EXTENDS DocDraft, TLAPS

(* The versions that the user has seen, in the weaker sense. *)
Seen == shown \cup answered

(* What has been seen, cached or answered exists. *)
OnlyExisting ==
  /\ docCache.version \in 0..Len(docHistory)
  /\ Seen \subseteq 1..Len(docHistory)
  /\ \A m \in Mounts : /\ saveReq[m].st = "answered" => saveReq[m].version \in 1..Len(docHistory)
                       /\ saveReq[m].stored \in 0..Len(docHistory)

(* The open editor is numbered; one that is opened later has no text yet. *)
MountsInOrder ==
  /\ open => mount \in Mounts
  /\ \A m \in Mounts : m > mount => draft[m] = NoText

(* The base of the edits, and of every request, has been seen. *)
BaseSeen ==
  /\ Seeded => baseVersion \in Seen
  /\ \A m \in Mounts : saveReq[m].st = "sent" => saveReq[m].base \in Seen

DocInv == DocTypeOK /\ OnlyExisting /\ MountsInOrder /\ BaseSeen

-----------------------------------------------------------------------------

(* A page without a save has a record of its type. *)
LEMMA NoSaveType == NoSave \in Saves
  BY DocAssumption DEF NoSave, Saves, Content

(* The initial states satisfy the invariant. *)
LEMMA DocInitInv == DocInit => DocInv
<1> SUFFICES ASSUME DocInit PROVE DocInv
  OBVIOUS
<1> USE DocAssumption DEF DocInit, DocInv
<1>1. DocTypeOK
  <2>1. /\ docHistory \in Seq({"user", "other"})
        /\ Len(docHistory) = 1
    OBVIOUS
  <2>2. saveReq \in [Mounts -> Saves]
    BY NoSaveType
  <2>3. docCache \in [version : 0..MaxVersion, text : Content]
    BY DEF Content
  <2>4. draft \in [Mounts -> Content] /\ baseText \in Content
    BY DEF Content
  <2>5. docText \in Texts /\ docFetch \in BOOLEAN /\ open \in BOOLEAN /\ canEdit \in BOOLEAN
    OBVIOUS
  <2>6. mount \in 0..MaxOpens /\ baseVersion \in 0..MaxVersion
    OBVIOUS
  <2>7. Len(docHistory) \in Versions /\ shown \subseteq Versions /\ answered \subseteq Versions
    BY <2>1 DEF Versions
  <2> QED BY <2>1, <2>2, <2>3, <2>4, <2>5, <2>6, <2>7 DEF DocTypeOK
<1>2. OnlyExisting
  BY DEF OnlyExisting, Seen, Mounts, NoSave
<1>3. MountsInOrder
  BY DEF MountsInOrder, Mounts
<1>4. BaseSeen
  BY DEF BaseSeen, Seeded, Mounts, NoSave
<1> QED BY <1>1, <1>2, <1>3, <1>4

(* Typing changes the draft of a seeded editor only. *)
LEMMA TypeInv ==
  ASSUME DocInv, NEW t \in Texts, Type(t)
  PROVE  DocInv'
<1> USE DocAssumption DEF DocInv, Type, Seeded, serverDoc, cacheVars, pageVars, baseVars, seenVars
<1>1. DocTypeOK'
  BY DEF DocTypeOK, Mounts, Versions, Content
<1>2. OnlyExisting'
  BY DEF OnlyExisting, Seen, DocTypeOK, Mounts, Versions
<1>3. MountsInOrder'
  BY DEF MountsInOrder, DocTypeOK, Mounts
<1>4. BaseSeen'
  BY DEF BaseSeen, Seen, Seeded, MountsInOrder, DocTypeOK, OnlyExisting, Mounts
<1> QED BY <1>1, <1>2, <1>3, <1>4

(* An editor is seeded with the cached version, which it shows. *)
LEMMA OpenEditorInv ==
  ASSUME DocInv, OpenEditor
  PROVE  DocInv'
<1> USE DocAssumption DEF DocInv
<1>1. /\ ~open /\ mount < MaxOpens
      /\ open' = TRUE /\ mount' = mount + 1 /\ canEdit' = FALSE
      /\ docFetch' \in {docFetch, TRUE}
      /\ UNCHANGED <<docHistory, docText, docCache, saveReq, answered>>
  BY DEF OpenEditor, serverDoc
<1>2. mount + 1 \in Mounts /\ mount' \in 0..MaxOpens
  BY <1>1 DEF DocTypeOK, Mounts
<1>3. CASE docCache.version > 0
  <2>1. /\ draft' = [draft EXCEPT ![mount + 1] = docCache.text]
        /\ baseText' = docCache.text /\ baseVersion' = docCache.version
        /\ shown' = shown \cup {docCache.version}
    BY <1>1, <1>3 DEF OpenEditor, ShowVersion
  <2>2. docCache.version \in 1..Len(docHistory) /\ docCache.version \in 0..MaxVersion
        /\ docCache.text \in Content
    BY <1>3 DEF DocTypeOK, OnlyExisting
  <2>3. DocTypeOK'
    <3>1. draft \in [Mounts -> Content]
      BY DEF DocTypeOK
    <3>2. draft' \in [Mounts -> Content]
      BY <2>1, <2>2, <3>1
    <3>3. baseText' \in Content /\ baseVersion' \in 0..MaxVersion
      BY <2>1, <2>2
    <3>4. docCache.version \in Versions
      BY <1>3, <2>2 DEF Versions
    <3>5. shown' \subseteq Versions
      BY <2>1, <3>4 DEF DocTypeOK
    <3>6. docHistory' \in Seq({"user", "other"}) /\ Len(docHistory') \in Versions
      BY <1>1 DEF DocTypeOK
    <3> QED BY <1>1, <1>2, <3>2, <3>3, <3>5, <3>6 DEF DocTypeOK
  <2>4. OnlyExisting'
    BY <1>1, <2>1, <2>2 DEF OnlyExisting, Seen
  <2>5. MountsInOrder'
    BY <1>1, <1>2, <2>1 DEF MountsInOrder, DocTypeOK, Mounts
  <2>6. BaseSeen'
    BY <1>1, <2>1 DEF BaseSeen, Seen
  <2> QED BY <2>3, <2>4, <2>5, <2>6
<1>4. CASE ~(docCache.version > 0)
  <2>1. UNCHANGED <<draft, baseText, baseVersion, shown>>
    BY <1>4 DEF OpenEditor, baseVars
  <2>2. draft[mount + 1] = NoText
    BY <1>1, <1>2 DEF MountsInOrder, DocTypeOK, Mounts
  <2>3. DocTypeOK'
    BY <1>1, <1>2, <2>1 DEF DocTypeOK
  <2>4. OnlyExisting'
    BY <1>1, <2>1 DEF OnlyExisting, Seen
  <2>5. MountsInOrder'
    BY <1>1, <2>1 DEF MountsInOrder, DocTypeOK, Mounts
  <2>6. BaseSeen'
    BY <1>1, <2>1, <2>2 DEF BaseSeen, Seen, Seeded
  <2> QED BY <2>3, <2>4, <2>5, <2>6
<1> QED BY <1>3, <1>4

(* Discard changes the draft only. *)
LEMMA DiscardInv ==
  ASSUME DocInv, Discard
  PROVE  DocInv'
<1> USE DocAssumption DEF DocInv, Discard, dirty, serverDoc, cacheVars, pageVars, baseVars, seenVars
<1>1. DocTypeOK'
  BY DEF DocTypeOK, Mounts, Versions, Content
<1>2. OnlyExisting'
  BY DEF OnlyExisting, Seen, DocTypeOK, Mounts, Versions
<1>3. MountsInOrder'
  BY DEF MountsInOrder, DocTypeOK, Mounts
<1>4. BaseSeen'
  BY DEF BaseSeen, Seen, Seeded, MountsInOrder, DocTypeOK, OnlyExisting, Mounts
<1> QED BY <1>1, <1>2, <1>3, <1>4

(* The newer version is shown and becomes the base. *)
LEMMA LoadLatestInv ==
  ASSUME DocInv, LoadLatest
  PROVE  DocInv'
<1> USE DocAssumption DEF DocInv
<1>1. /\ draft' = [draft EXCEPT ![mount] = docCache.text]
      /\ baseText' = docCache.text /\ baseVersion' = docCache.version
      /\ shown' = shown \cup {docCache.version}
      /\ UNCHANGED <<docHistory, docText, docCache, docFetch, open, mount, canEdit, saveReq,
                     answered>>
  BY DEF LoadLatest, ShowVersion, serverDoc, cacheVars, pageVars
<1>2. docCache.version \in 1..Len(docHistory) /\ docCache.version \in 1..MaxVersion
      /\ docCache.text \in Content
  BY DEF LoadLatest, newerAvailable, DocTypeOK, OnlyExisting
<1>3. DocTypeOK'
  BY <1>1, <1>2 DEF DocTypeOK, Versions
<1>4. OnlyExisting'
  BY <1>1, <1>2 DEF OnlyExisting, Seen
<1>5. MountsInOrder'
  BY <1>1 DEF MountsInOrder, DocTypeOK, Mounts
<1>6. BaseSeen'
  BY <1>1 DEF BaseSeen, Seen
<1> QED BY <1>3, <1>4, <1>5, <1>6

(* The base that a request takes along has been seen. *)
LEMMA SaveInv ==
  ASSUME DocInv, Save
  PROVE  DocInv'
<1> USE DocAssumption DEF DocInv
<1> DEFINE r == [NoSave EXCEPT !.st = "sent", !.sent = draft[mount], !.base = baseVersion]
<1>1. /\ saveReq' = [saveReq EXCEPT ![mount] = r]
      /\ Seeded
      /\ UNCHANGED <<docHistory, docText, docCache, docFetch, open, mount, canEdit, draft, baseText,
                     baseVersion, shown, answered>>
  BY DEF Save, dirty, serverDoc, cacheVars, pageVars, baseVars, seenVars
<1>2. r \in Saves /\ r.st = "sent" /\ r.base = baseVersion /\ r.stored = 0
  <2>1. mount \in Mounts
    BY <1>1 DEF Seeded, MountsInOrder
  <2>2. draft[mount] \in Content /\ baseVersion \in 0..MaxVersion
    BY <2>1 DEF DocTypeOK
  <2>3. r \in Saves /\ r.st = "sent" /\ r.base = baseVersion /\ r.stored = NoSave.stored
    BY <2>2, NoSaveType DEF Saves
  <2>4. NoSave.stored = 0
    BY DEF NoSave
  <2> QED BY <2>3, <2>4
<1>3. \A k \in Mounts : saveReq'[k] = saveReq[k] \/ saveReq'[k] = r
  BY <1>1 DEF DocTypeOK
<1>4. DocTypeOK'
  <2>1. saveReq' \in [Mounts -> Saves]
    BY <1>1, <1>2 DEF DocTypeOK
  <2> QED BY <1>1, <2>1 DEF DocTypeOK
<1>5. OnlyExisting'
  BY <1>1, <1>2, <1>3 DEF OnlyExisting, Seen
<1>6. MountsInOrder'
  BY <1>1 DEF MountsInOrder
<1>7. BaseSeen'
  BY <1>1, <1>2, <1>3 DEF BaseSeen, Seen, Seeded
<1> QED BY <1>4, <1>5, <1>6, <1>7

(* Leaving closes the editor only. *)
LEMMA LeaveInv ==
  ASSUME DocInv, Leave
  PROVE  DocInv'
<1> USE DocAssumption DEF DocInv, Leave, serverDoc, cacheVars, pageVars, baseVars, seenVars
<1>1. DocTypeOK'
  BY DEF DocTypeOK, Mounts, Versions, Content
<1>2. OnlyExisting'
  BY DEF OnlyExisting, Seen, DocTypeOK, Mounts, Versions
<1>3. MountsInOrder'
  BY DEF MountsInOrder, DocTypeOK, Mounts
<1>4. BaseSeen'
  BY DEF BaseSeen, Seen, Seeded, MountsInOrder, DocTypeOK, OnlyExisting, Mounts
<1> QED BY <1>1, <1>2, <1>3, <1>4

(* The lock changes canEdit only. *)
LEMMA LockTurnsInv ==
  ASSUME DocInv, LockTurns
  PROVE  DocInv'
<1> USE DocAssumption DEF DocInv, LockTurns, serverDoc, cacheVars, pageVars, baseVars, seenVars
<1>1. DocTypeOK'
  BY DEF DocTypeOK, Mounts, Versions, Content
<1>2. OnlyExisting'
  BY DEF OnlyExisting, Seen, DocTypeOK, Mounts, Versions
<1>3. MountsInOrder'
  BY DEF MountsInOrder, DocTypeOK, Mounts
<1>4. BaseSeen'
  BY DEF BaseSeen, Seen, Seeded, MountsInOrder, DocTypeOK, OnlyExisting, Mounts
<1> QED BY <1>1, <1>2, <1>3, <1>4

(* A refetch starts a request only. *)
LEMMA RefetchInv ==
  ASSUME DocInv, Refetch
  PROVE  DocInv'
<1> USE DocAssumption DEF DocInv, Refetch, serverDoc, cacheVars, pageVars, baseVars, seenVars
<1>1. DocTypeOK'
  BY DEF DocTypeOK, Mounts, Versions, Content
<1>2. OnlyExisting'
  BY DEF OnlyExisting, Seen, DocTypeOK, Mounts, Versions
<1>3. MountsInOrder'
  BY DEF MountsInOrder, DocTypeOK, Mounts
<1>4. BaseSeen'
  BY DEF BaseSeen, Seen, Seeded, MountsInOrder, DocTypeOK, OnlyExisting, Mounts
<1> QED BY <1>1, <1>2, <1>3, <1>4

(* The newest version is cached, and shown to an editor that waits for it. *)
LEMMA FetchReplyInv ==
  ASSUME DocInv, FetchReply
  PROVE  DocInv'
<1> USE DocAssumption DEF DocInv
<1>1. /\ docFetch' = FALSE
      /\ docCache' = [version |-> Len(docHistory), text |-> docText]
      /\ UNCHANGED <<docHistory, docText, open, mount, canEdit, saveReq, answered>>
  BY DEF FetchReply, CurrentVersion, serverDoc, pageVars
<1>2. Len(docHistory) \in 1..MaxVersion /\ docText \in Content
  BY DEF DocTypeOK, Versions, Content
<1>3. docCache' \in [version : 0..MaxVersion, text : Content]
  BY <1>1, <1>2
<1>4. CASE open /\ ~Seeded
  <2>1. /\ draft' = [draft EXCEPT ![mount] = docText]
        /\ baseText' = docText /\ baseVersion' = Len(docHistory)
        /\ shown' = shown \cup {Len(docHistory)}
    BY <1>1, <1>4 DEF FetchReply, ShowVersion
  <2>2. DocTypeOK'
    BY <1>1, <1>2, <1>3, <2>1 DEF DocTypeOK, Versions
  <2>3. OnlyExisting'
    BY <1>1, <1>2, <2>1 DEF OnlyExisting, Seen
  <2>4. MountsInOrder'
    BY <1>1, <2>1 DEF MountsInOrder, DocTypeOK, Mounts
  <2>5. BaseSeen'
    BY <1>1, <2>1 DEF BaseSeen, Seen
  <2> QED BY <2>2, <2>3, <2>4, <2>5
<1>5. CASE ~(open /\ ~Seeded)
  <2>1. UNCHANGED <<draft, baseText, baseVersion, shown>>
    BY <1>5 DEF FetchReply, baseVars
  <2>2. DocTypeOK'
    BY <1>1, <1>3, <2>1 DEF DocTypeOK
  <2>3. OnlyExisting'
    BY <1>1, <1>2, <2>1 DEF OnlyExisting, Seen
  <2>4. MountsInOrder'
    BY <1>1, <2>1 DEF MountsInOrder
  <2>5. BaseSeen'
    BY <1>1, <2>1 DEF BaseSeen, Seen, Seeded
  <2> QED BY <2>2, <2>3, <2>4, <2>5
<1> QED BY <1>4, <1>5

(* An answer names a version that exists, and the base becomes that version. *)
LEMMA SaveSucceededInv ==
  ASSUME DocInv, NEW m \in Mounts, SaveSucceeded(m)
  PROVE  DocInv'
<1> USE DocAssumption DEF DocInv
<1> DEFINE s == saveReq[m]
<1>1. /\ s.st = "answered"
      /\ saveReq' = [saveReq EXCEPT ![m] = NoSave]
      /\ answered' = answered \cup {s.version}
      /\ docFetch' = TRUE
      /\ open' \in BOOLEAN /\ (open' => open)
      /\ canEdit' \in BOOLEAN
      /\ UNCHANGED <<docHistory, docText, docCache, mount>>
  BY DEF SaveSucceeded, serverDoc, DocTypeOK
<1>2. s.version \in 1..Len(docHistory) /\ s.version \in 1..MaxVersion /\ s.text \in Content
  BY <1>1 DEF OnlyExisting, DocTypeOK, Versions, Saves
<1>3. \/ /\ Mounted(m) /\ baseText' = s.text /\ baseVersion' = s.version
         /\ draft' \in {draft, [draft EXCEPT ![m] = s.text]}
         /\ shown' \in {shown, shown \cup {s.version}}
      \/ UNCHANGED <<draft, baseText, baseVersion, shown>>
  <2>1. CASE Mounted(m) /\ draft[m] = s.sent
    BY <1>1, <2>1 DEF SaveSucceeded, ShowVersion
  <2>2. CASE Mounted(m) /\ draft[m] # s.sent
    BY <1>1, <2>2 DEF SaveSucceeded
  <2>3. CASE ~Mounted(m)
    BY <1>1, <2>3 DEF SaveSucceeded, baseVars
  <2> QED BY <2>1, <2>2, <2>3
<1>4. /\ shown' \in {shown, shown \cup {s.version}}
      /\ Mounted(m) => m = mount
      /\ draft' \in {draft, [draft EXCEPT ![m] = s.text]}
      /\ draft' # draft => m = mount
  BY <1>3 DEF Mounted
<1>5. DocTypeOK'
  <2>1. saveReq' \in [Mounts -> Saves]
    BY <1>1, NoSaveType DEF DocTypeOK
  <2>2. draft' \in [Mounts -> Content] /\ baseText' \in Content /\ baseVersion' \in 0..MaxVersion
    BY <1>2, <1>3 DEF DocTypeOK
  <2>3. shown' \subseteq Versions /\ answered' \subseteq Versions
    BY <1>1, <1>2, <1>4 DEF DocTypeOK, Versions
  <2> QED BY <1>1, <2>1, <2>2, <2>3 DEF DocTypeOK
<1>6. OnlyExisting'
  <2>1. \A k \in Mounts : saveReq'[k] = NoSave \/ saveReq'[k] = saveReq[k]
    BY <1>1 DEF DocTypeOK
  <2>2. (Seen \subseteq 1..Len(docHistory))'
    BY <1>1, <1>2, <1>4 DEF OnlyExisting, Seen
  <2> QED BY <1>1, <2>1, <2>2 DEF OnlyExisting, NoSave
<1>7. MountsInOrder'
  BY <1>1, <1>4 DEF MountsInOrder, DocTypeOK, Mounts
<1>8. BaseSeen'
  <2>1. Seen \subseteq Seen' /\ s.version \in Seen'
    BY <1>1, <1>4 DEF Seen
  <2>2. (Seeded => baseVersion \in Seen)'
    BY <1>1, <1>3, <2>1 DEF BaseSeen, Seeded
  <2>3. \A k \in Mounts : saveReq'[k] = NoSave \/ saveReq'[k] = saveReq[k]
    BY <1>1 DEF DocTypeOK
  <2> QED BY <2>1, <2>2, <2>3 DEF BaseSeen, NoSave
<1> QED BY <1>5, <1>6, <1>7, <1>8

(* A refused save ends the request only. *)
LEMMA SaveRefusedInv ==
  ASSUME DocInv, NEW m \in Mounts, SaveRefused(m)
  PROVE  DocInv'
<1> USE DocAssumption DEF DocInv, SaveRefused, serverDoc, cacheVars, pageVars, baseVars, seenVars
<1>1. DocTypeOK'
  BY DEF DocTypeOK, Mounts, Versions, Content, Saves, NoSave
<1>2. OnlyExisting'
  BY DEF OnlyExisting, Seen, DocTypeOK, Mounts, Versions, Saves, NoSave
<1>3. MountsInOrder'
  BY DEF MountsInOrder, DocTypeOK, Mounts
<1>4. BaseSeen'
  BY DEF BaseSeen, Seen, Seeded, MountsInOrder, DocTypeOK, OnlyExisting, Mounts, Saves, NoSave
<1> QED BY <1>1, <1>2, <1>3, <1>4

(* A failed save ends the request only. *)
LEMMA SaveFailedInv ==
  ASSUME DocInv, NEW m \in Mounts, SaveFailed(m)
  PROVE  DocInv'
<1> USE DocAssumption DEF DocInv, SaveFailed, serverDoc, cacheVars, pageVars, baseVars, seenVars
<1>1. DocTypeOK'
  BY DEF DocTypeOK, Mounts, Versions, Content, Saves, NoSave
<1>2. OnlyExisting'
  BY DEF OnlyExisting, Seen, DocTypeOK, Mounts, Versions, Saves, NoSave
<1>3. MountsInOrder'
  BY DEF MountsInOrder, DocTypeOK, Mounts
<1>4. BaseSeen'
  BY DEF BaseSeen, Seen, Seeded, MountsInOrder, DocTypeOK, OnlyExisting, Mounts, Saves, NoSave
<1> QED BY <1>1, <1>2, <1>3, <1>4

(* A served save adds a version on a base that was seen, or is refused. *)
LEMMA SaveServedInv ==
  ASSUME DocInv, NEW m \in Mounts, SaveServed(m)
  PROVE  DocInv'
<1> USE DocAssumption DEF DocInv
<1> DEFINE s == saveReq[m]
<1>1. /\ UNCHANGED <<docCache, docFetch, open, mount, canEdit, draft, baseText, baseVersion,
                     shown, answered>>
  BY DEF SaveServed, cacheVars, pageVars, baseVars, seenVars
<1>2. s \in Saves /\ docHistory \in Seq({"user", "other"}) /\ Len(docHistory) \in 1..MaxVersion
  BY DEF DocTypeOK, Versions
<1>3. CASE s.base = CurrentVersion
  <2> DEFINE r == [s EXCEPT !.st = "stored", !.base = 0, !.stored = CurrentVersion + 1]
  <2>1. /\ Len(docHistory) < MaxVersion
        /\ docHistory' = Append(docHistory, "user") /\ docText' \in Texts
        /\ saveReq' = [saveReq EXCEPT ![m] = r]
    BY <1>3 DEF SaveServed, CurrentVersion, DocTypeOK, Saves
  <2>2. Len(docHistory') = Len(docHistory) + 1 /\ docHistory' \in Seq({"user", "other"})
    BY <1>2, <2>1
  <2>3. r \in Saves /\ r.st = "stored" /\ r.stored = Len(docHistory')
    <3>1. CurrentVersion + 1 \in 0..MaxVersion
      BY <1>2, <2>1 DEF CurrentVersion
    <3>2. s \in Saves
      BY <1>2
    <3>3. r \in Saves /\ r.st = "stored" /\ r.stored = CurrentVersion + 1
      <4> DEFINE q == [s EXCEPT !.st = "stored", !.base = 0]
      <4>1. 0 \in 0..MaxVersion
        BY <3>1, <1>2, <2>1 DEF CurrentVersion
      <4>2. q \in Saves /\ q.st = "stored"
        BY <3>2, <4>1 DEF Saves
      <4>3. r = [q EXCEPT !.stored = CurrentVersion + 1]
        BY <3>2 DEF Saves
      <4> HIDE DEF q, r, s
      <4> QED BY <3>1, <4>2, <4>3 DEF Saves
    <3> QED BY <2>2, <3>3 DEF CurrentVersion
  <2>4. \A k \in Mounts : saveReq'[k] = saveReq[k] \/ saveReq'[k] = r
    BY <2>1 DEF DocTypeOK
  <2>5. DocTypeOK'
    <3>1. saveReq' \in [Mounts -> Saves]
      BY <2>1, <2>3 DEF DocTypeOK
    <3>2. docText' \in Texts
      BY <2>1
    <3>3. docHistory' \in Seq({"user", "other"}) /\ Len(docHistory') \in Versions
      BY <1>2, <2>1, <2>2 DEF Versions
    <3> QED BY <1>1, <3>1, <3>2, <3>3 DEF DocTypeOK
  <2>6. OnlyExisting'
    <3> DEFINE n == Len(docHistory)
    <3>1. n \in Nat /\ Len(docHistory') = n + 1 /\ r.st = "stored" /\ r.stored = n + 1
      BY <1>2, <2>2, <2>3
    <3>2. \A k \in Mounts : /\ saveReq[k].st = "answered" => saveReq[k].version \in 1..(n + 1)
                           /\ saveReq[k].stored \in 0..(n + 1)
      BY <3>1 DEF OnlyExisting
    <3>3. \A k \in Mounts : /\ saveReq'[k].st = "answered" => saveReq'[k].version \in 1..(n + 1)
                           /\ saveReq'[k].stored \in 0..(n + 1)
      <4> SUFFICES ASSUME NEW k \in Mounts
                   PROVE  /\ saveReq'[k].st = "answered" => saveReq'[k].version \in 1..(n + 1)
                          /\ saveReq'[k].stored \in 0..(n + 1)
        OBVIOUS
      <4>1. CASE saveReq'[k] = saveReq[k]
        BY <3>2, <4>1
      <4>2. CASE saveReq'[k] = r
        <5> HIDE DEF r
        <5> QED BY <3>1, <4>2
      <4> QED BY <2>4, <4>1, <4>2
    <3>4. docCache.version \in 0..(n + 1) /\ Seen \subseteq 1..(n + 1)
      BY <3>1 DEF OnlyExisting
    <3> QED BY <1>1, <3>1, <3>3, <3>4 DEF OnlyExisting, Seen
  <2>7. MountsInOrder'
    BY <1>1 DEF MountsInOrder
  <2>8. BaseSeen'
    BY <1>1, <2>3, <2>4 DEF BaseSeen, Seen, Seeded
  <2> QED BY <2>5, <2>6, <2>7, <2>8
<1>4. CASE s.base # CurrentVersion
  <2> DEFINE r == [NoSave EXCEPT !.st = "refused"]
  <2>1. /\ UNCHANGED <<docHistory, docText>>
        /\ saveReq' = [saveReq EXCEPT ![m] = r]
    BY <1>4 DEF SaveServed, serverDoc, DocTypeOK, Saves
  <2>2. r \in Saves /\ r.st = "refused" /\ r.stored = 0
    BY NoSaveType DEF Saves, NoSave
  <2>3. \A k \in Mounts : saveReq'[k] = saveReq[k] \/ (k = m /\ saveReq'[k] = r)
    BY <2>1 DEF DocTypeOK
  <2>4. DocTypeOK'
    <3>1. saveReq' \in [Mounts -> Saves]
      BY <2>1, <2>2 DEF DocTypeOK
    <3> QED BY <1>1, <2>1, <3>1 DEF DocTypeOK
  <2>5. OnlyExisting'
    BY <1>1, <1>2, <2>1, <2>2, <2>3 DEF OnlyExisting, Seen
  <2>6. MountsInOrder'
    BY <1>1 DEF MountsInOrder
  <2>7. BaseSeen'
    BY <1>1, <2>2, <2>3 DEF BaseSeen, Seen, Seeded
  <2> QED BY <2>4, <2>5, <2>6, <2>7
<1> QED BY <1>3, <1>4

(* The answer names the newest version. *)
LEMMA SaveReadBackInv ==
  ASSUME DocInv, NEW m \in Mounts, SaveReadBack(m)
  PROVE  DocInv'
<1> USE DocAssumption DEF DocInv
<1> DEFINE r == [saveReq[m] EXCEPT !.st = "answered", !.version = CurrentVersion, !.text = docText]
<1>1. /\ saveReq' = [saveReq EXCEPT ![m] = r]
      /\ UNCHANGED <<docHistory, docText, docCache, docFetch, open, mount, canEdit, draft, baseText,
                     baseVersion, shown, answered>>
  BY DEF SaveReadBack, serverDoc, cacheVars, pageVars, baseVars, seenVars, DocTypeOK, Saves
<1>2. /\ r \in Saves /\ r.st = "answered" /\ r.version \in 1..Len(docHistory)
      /\ r.stored = saveReq[m].stored
  <2>1. saveReq[m] \in Saves
    BY DEF DocTypeOK
  <2>2. CurrentVersion \in 1..MaxVersion /\ CurrentVersion \in 0..MaxVersion /\ docText \in Content
    BY DEF DocTypeOK, Versions, Content, CurrentVersion
  <2>3. /\ r \in Saves /\ r.st = "answered" /\ r.version = CurrentVersion
        /\ r.stored = saveReq[m].stored
    BY <2>1, <2>2 DEF Saves
  <2> QED BY <2>2, <2>3 DEF CurrentVersion
<1>3. \A k \in Mounts : saveReq'[k] = saveReq[k] \/ (k = m /\ saveReq'[k] = r)
  BY <1>1 DEF DocTypeOK
<1>4. DocTypeOK'
  <2>1. saveReq' \in [Mounts -> Saves]
    BY <1>1, <1>2 DEF DocTypeOK
  <2> QED BY <1>1, <2>1 DEF DocTypeOK
<1>5. OnlyExisting'
  BY <1>1, <1>2, <1>3 DEF OnlyExisting, Seen
<1>6. MountsInOrder'
  BY <1>1 DEF MountsInOrder
<1>7. BaseSeen'
  BY <1>1, <1>2, <1>3 DEF BaseSeen, Seen, Seeded
<1> QED BY <1>4, <1>5, <1>6, <1>7

(* Another author adds a version. *)
LEMMA OtherWritesInv ==
  ASSUME DocInv, NEW t \in Texts, OtherWrites(t)
  PROVE  DocInv'
<1> USE DocAssumption DEF DocInv, OtherWrites, CurrentVersion, serverDoc, cacheVars, pageVars, baseVars, seenVars
<1>1. DocTypeOK'
  BY DEF DocTypeOK, Mounts, Versions, Content
<1>2. OnlyExisting'
  BY DEF OnlyExisting, Seen, DocTypeOK, Mounts, Versions
<1>3. MountsInOrder'
  BY DEF MountsInOrder, DocTypeOK, Mounts
<1>4. BaseSeen'
  BY DEF BaseSeen, Seen, Seeded, MountsInOrder, DocTypeOK, OnlyExisting, Mounts
<1> QED BY <1>1, <1>2, <1>3, <1>4

-----------------------------------------------------------------------------

(* Every step preserves the invariant. *)
LEMMA DocStepInv == DocInv /\ [DocNext]_docVars => DocInv'
<1> SUFFICES ASSUME DocInv, [DocNext]_docVars PROVE DocInv'
  OBVIOUS
<1>1. CASE OpenEditor \/ Discard \/ LoadLatest \/ Save \/ Leave
  BY <1>1, OpenEditorInv, DiscardInv, LoadLatestInv, SaveInv, LeaveInv
<1>2. CASE \E t \in Texts : Type(t) \/ OtherWrites(t)
  BY <1>2, TypeInv, OtherWritesInv
<1>3. CASE LockTurns \/ Refetch \/ FetchReply
  BY <1>3, LockTurnsInv, RefetchInv, FetchReplyInv
<1>4. CASE \E m \in Mounts : SaveSucceeded(m) \/ SaveRefused(m) \/ SaveFailed(m)
  BY <1>4, SaveSucceededInv, SaveRefusedInv, SaveFailedInv
<1>5. CASE \E m \in Mounts : SaveServed(m) \/ SaveReadBack(m)
  BY <1>5, SaveServedInv, SaveReadBackInv
<1>6. CASE UNCHANGED docVars
  BY <1>6 DEF docVars, DocInv, DocTypeOK, OnlyExisting, Seen, MountsInOrder, BaseSeen, Seeded
<1> QED BY <1>1, <1>2, <1>3, <1>4, <1>5, <1>6 DEF DocNext

(* The invariant holds in every state: what is seen, cached or answered      *)
(* exists, and every base, of the page or of a request under way, was seen.  *)
THEOREM DocInvariant == DocSpec => []DocInv
<1> QED BY DocInitInv, DocStepInv, PTL DEF DocSpec

-----------------------------------------------------------------------------
(* The refinement, step by step. *)

(* What the user has seen only grows, and within the versions that exist.    *)
LEMMA SeenGrows ==
  ASSUME DocInv, DocInv', DocNext, UNCHANGED docHistory
  PROVE  Seen \subseteq Seen' /\ Seen' \subseteq 1..Len(docHistory)
<1>1. Seen' \subseteq 1..Len(docHistory)
  BY DEF DocInv, OnlyExisting
<1>2. shown \subseteq shown' /\ answered \subseteq answered'
  <2>1. CASE OpenEditor
    BY <2>1 DEF OpenEditor, ShowVersion
  <2>2. CASE Discard \/ Save \/ Leave \/ LockTurns \/ Refetch \/ \E t \in Texts : Type(t) \/ OtherWrites(t)
    BY <2>2 DEF Discard, Save, Leave, LockTurns, Refetch, Type, OtherWrites, seenVars
  <2>3. CASE LoadLatest
    BY <2>3 DEF LoadLatest, ShowVersion
  <2>4. CASE FetchReply
    BY <2>4 DEF FetchReply, ShowVersion
  <2>5. CASE \E m \in Mounts : SaveRefused(m) \/ SaveFailed(m) \/ SaveServed(m) \/ SaveReadBack(m)
    BY <2>5 DEF SaveRefused, SaveFailed, SaveServed, SaveReadBack, seenVars
  <2>6. ASSUME NEW m \in Mounts, SaveSucceeded(m)
        PROVE  shown \subseteq shown' /\ answered \subseteq answered'
    <3>1. answered' = answered \cup {saveReq[m].version}
      BY <2>6 DEF SaveSucceeded
    <3>2. CASE Mounted(m) /\ draft[m] = saveReq[m].sent
      BY <2>6, <3>2 DEF SaveSucceeded, ShowVersion
    <3>3. CASE Mounted(m) /\ draft[m] # saveReq[m].sent
      BY <2>6, <3>3 DEF SaveSucceeded
    <3>4. CASE ~Mounted(m)
      BY <2>6, <3>4 DEF SaveSucceeded
    <3> QED BY <3>1, <3>2, <3>3, <3>4
  <2> QED BY <2>1, <2>2, <2>3, <2>4, <2>5, <2>6 DEF DocNext
<1> QED BY <1>1, <1>2 DEF Seen

(* A version is added by somebody else, or by the user on one that was seen. *)
LEMMA NewVersion ==
  ASSUME DocInv, DocNext
  PROVE  \/ UNCHANGED docHistory
         \/ docHistory' = Append(docHistory, "other") /\ UNCHANGED <<shown, answered>>
         \/ /\ docHistory' = Append(docHistory, "user") /\ UNCHANGED <<shown, answered>>
            /\ Len(docHistory) \in Seen
<1>1. CASE OpenEditor \/ Discard \/ LoadLatest \/ Save \/ Leave \/ \E t \in Texts : Type(t)
  BY <1>1 DEF OpenEditor, Discard, LoadLatest, Save, Leave, Type, serverDoc
<1>2. CASE LockTurns \/ Refetch \/ FetchReply
  BY <1>2 DEF LockTurns, Refetch, FetchReply, serverDoc
<1>3. CASE \E t \in Texts : OtherWrites(t)
  BY <1>3 DEF OtherWrites, seenVars
<1>4. CASE \E m \in Mounts : SaveRefused(m) \/ SaveFailed(m) \/ SaveReadBack(m)
  BY <1>4 DEF SaveRefused, SaveFailed, SaveReadBack, serverDoc
<1>5. ASSUME NEW m \in Mounts, SaveSucceeded(m)
      PROVE  UNCHANGED docHistory
  BY <1>5 DEF SaveSucceeded, serverDoc
<1>6. ASSUME NEW m \in Mounts, SaveServed(m)
      PROVE  \/ UNCHANGED docHistory
             \/ /\ docHistory' = Append(docHistory, "user") /\ UNCHANGED <<shown, answered>>
                /\ Len(docHistory) \in Seen
  <2>1. CASE saveReq[m].base = Len(docHistory)
    <3>1. Len(docHistory) \in Seen
      BY <1>6, <2>1 DEF SaveServed, DocInv, BaseSeen
    <3> QED BY <1>6, <2>1, <3>1 DEF SaveServed, CurrentVersion, seenVars
  <2>2. CASE saveReq[m].base # Len(docHistory)
    BY <1>6, <2>2 DEF SaveServed, CurrentVersion, serverDoc
  <2> QED BY <2>1, <2>2
<1> QED BY <1>1, <1>2, <1>3, <1>4, <1>5, <1>6 DEF DocNext

(* Initially nobody knows any version. *)
LEMMA RefinesInit == DocInit => Shared!SharedInit
  BY DEF DocInit, Shared!SharedInit, Known

(* Every step learns versions, writes one, or leaves the contract alone. *)
LEMMA RefinesStep ==
  ASSUME DocInv, DocInv', [DocNext]_docVars
  PROVE  [Shared!SharedNext]_(Shared!sharedVars)
<1> DEFINE Authors == {"user", "other"}
<1>1. CASE UNCHANGED docVars
  BY <1>1 DEF docVars, Shared!sharedVars, Known
<1>2. CASE DocNext /\ UNCHANGED docHistory
  <2>1. Seen \subseteq Seen' /\ Seen' \subseteq 1..Len(docHistory)
    BY <1>2, SeenGrows
  <2>2. Known' = [Known EXCEPT !["user"] = @ \cup Seen']
    BY <2>1 DEF Known, Seen
  <2>3. Shared!Learn("user")
    BY <1>2, <2>1, <2>2 DEF Shared!Learn, Shared!Newest
  <2> QED BY <2>3 DEF Shared!SharedNext
<1>3. CASE docHistory' = Append(docHistory, "other") /\ UNCHANGED <<shown, answered>>
  <2>1. Shared!Write("other")
    BY <1>3 DEF Shared!Write, Known
  <2> QED BY <2>1 DEF Shared!SharedNext
<1>4. CASE /\ docHistory' = Append(docHistory, "user") /\ UNCHANGED <<shown, answered>>
           /\ Len(docHistory) \in Seen
  <2>1. Shared!Write("user")
    BY <1>4 DEF Shared!Write, Shared!Newest, Known, Seen
  <2> QED BY <2>1 DEF Shared!SharedNext
<1> QED BY <1>1, <1>2, <1>3, <1>4, NewVersion

(* The editor, the cache, the requests and the server together implement the *)
(* contract of the shared doc: the user replaces a version only if it was    *)
(* shown or named in an answer (DocEditorPage.tsx:178-218, store/doc.go:     *)
(* 112-172).                                                                 *)
THEOREM DocRefines == DocSpec => Refines
<1>1. DocInv /\ DocInv' /\ [DocNext]_docVars => [Shared!SharedNext]_(Shared!sharedVars)
  BY RefinesStep
<1> QED BY <1>1, RefinesInit, DocInvariant, PTL DEF DocSpec, Refines, Shared!SharedSpec

-----------------------------------------------------------------------------
(* What was typed. *)

(* Only the user's commands change the text of a mounted editor that differs *)
(* from what was sent: the answer to its save keeps a draft edited meanwhile, *)
(* and a doc that arrives seeds an empty editor only.                         *)
LEMMA DraftKept ==
  ASSUME DocInv, DocNext, NEW m \in Mounts,
         Mounted(m), draft[m] # NoText, draft[m] # saveReq[m].sent, draft'[m] # draft[m]
  PROVE  Discard \/ LoadLatest \/ \E t \in Texts : Type(t)
<1>1. draft \in [Mounts -> Content]
  BY DEF DocInv, DocTypeOK
<1>2. ~OpenEditor
  BY DEF OpenEditor, Mounted
<1>3. ~FetchReply
  BY DEF FetchReply, Seeded, Mounted
<1>4. ASSUME NEW k \in Mounts
      PROVE  ~SaveSucceeded(k)
  <2>1. CASE k = m
    BY <2>1 DEF SaveSucceeded
  <2>2. CASE k # m
    <3>1. ~Mounted(k)
      BY <2>2 DEF Mounted
    <3> QED BY <3>1 DEF SaveSucceeded
  <2> QED BY <2>1, <2>2
<1>5. ~(Save \/ Leave \/ LockTurns \/ Refetch)
  BY DEF Save, Leave, LockTurns, Refetch
<1>6. ASSUME NEW k \in Mounts
      PROVE  ~(SaveRefused(k) \/ SaveFailed(k) \/ SaveServed(k) \/ SaveReadBack(k))
  BY DEF SaveRefused, SaveFailed, SaveServed, SaveReadBack
<1>7. ASSUME NEW t \in Texts
      PROVE  ~OtherWrites(t)
  BY DEF OtherWrites
<1> QED BY <1>2, <1>3, <1>4, <1>5, <1>6, <1>7 DEF DocNext

(* Only the user's leaving, or the answer to a save that sent the very text, *)
(* closes the editor; answers to saves of other editors are set aside.       *)
LEMMA EditorStays ==
  ASSUME DocNext, NEW m \in Mounts, Mounted(m), draft[m] # saveReq[m].sent,
         ~open', \A k \in Mounts \ {m} : saveReq[k].st = "none"
  PROVE  Leave
<1>1. open
  BY DEF Mounted
<1>2. ~(OpenEditor \/ Discard \/ LoadLatest \/ Save \/ LockTurns \/ Refetch \/ FetchReply)
  BY <1>1 DEF OpenEditor, Discard, LoadLatest, Save, LockTurns, Refetch, FetchReply, pageVars
<1>3. ASSUME NEW k \in Mounts
      PROVE  ~SaveSucceeded(k)
  <2>1. SUFFICES ASSUME SaveSucceeded(k) PROVE FALSE
    OBVIOUS
  <2>2. k = m
    BY <2>1 DEF SaveSucceeded
  <2>3. \E warnings \in BOOLEAN : open' = (open /\ (warnings \/ draft[k] # saveReq[k].sent))
    BY <2>1 DEF SaveSucceeded
  <2> QED BY <1>1, <2>2, <2>3
<1>4. ASSUME NEW k \in Mounts
      PROVE  ~(SaveRefused(k) \/ SaveFailed(k) \/ SaveServed(k) \/ SaveReadBack(k))
  BY <1>1 DEF SaveRefused, SaveFailed, SaveServed, SaveReadBack, pageVars
<1>5. ASSUME NEW t \in Texts
      PROVE  ~(Type(t) \/ OtherWrites(t))
  BY <1>1 DEF Type, OtherWrites, pageVars
<1> QED BY <1>2, <1>3, <1>4, <1>5 DEF DocNext

(* No refetch, event, banner or answer takes from a mounted editor what the   *)
(* user typed since the last save went out (DocEditorPage.tsx:134-142,        *)
(* 178-218), for every set of texts, number of editors and bound.             *)
THEOREM DraftIsKept == DocSpec => TypedTextKept
<1>1. DocInv /\ [DocNext]_docVars =>
        [\A m \in Mounts :
           Mounted(m) /\ draft[m] # NoText /\ draft[m] # saveReq[m].sent
             => /\ draft'[m] # draft[m] => Discard \/ LoadLatest \/ \E t \in Texts : Type(t)
                /\ dirty /\ ~open' /\ (\A k \in Mounts \ {m} : saveReq[k].st = "none") => Leave
        ]_docVars
  <2> SUFFICES ASSUME DocInv, DocNext, NEW m \in Mounts,
                      Mounted(m), draft[m] # NoText, draft[m] # saveReq[m].sent
               PROVE  /\ draft'[m] # draft[m] => Discard \/ LoadLatest \/ \E t \in Texts : Type(t)
                      /\ dirty /\ ~open' /\ (\A k \in Mounts \ {m} : saveReq[k].st = "none")
                           => Leave
    OBVIOUS
  <2> QED BY DraftKept, EditorStays
<1> QED BY <1>1, DocInvariant, PTL DEF DocSpec, TypedTextKept

=============================================================================
