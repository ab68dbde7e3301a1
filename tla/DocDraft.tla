------------------------------- MODULE DocDraft -------------------------------
(***************************************************************************)
(* The draft of the doc editor and the versions of the doc.  One user      *)
(* opens the editor of a doc, leaves it and opens it again while somebody  *)
(* else writes the doc.  A save is a request, a transaction of the server, *)
(* the read of the doc for the answer, and the callback of the page, which *)
(* may meet an editor opened after the one that sent it.                   *)
(*                                                                         *)
(* Whether the page may be edited (canEdit) comes and goes with the lock,  *)
(* which DocLock models; the server does not ask for the lock.  What keeps *)
(* somebody else's edit from being overwritten is the base version that    *)
(* the save carries.                                                       *)
(***************************************************************************)
EXTENDS Naturals, Sequences

CONSTANTS Texts,        \* contents of the doc, compared for equality only
          MaxVersion,   \* bound: versions of the doc
          MaxOpens      \* bound: times the editor is opened

ASSUME DocAssumption ==
  /\ Texts # {}
  /\ MaxVersion \in Nat \ {0} /\ MaxOpens \in Nat

VARIABLES
  docHistory,   \* server: the author of each version
  docText,      \* server: the content of the newest version
  docCache,     \* query cache: version and content of the doc, version 0 when empty
  docFetch,     \* a request that fills the cache is under way
  open,         \* an editor is mounted
  mount,        \* number of the editor opened last
  canEdit,      \* the lock lets the editor take input
  draft,        \* per editor: the text in it, NoText before it is seeded
  baseText,     \* content the edits started from
  baseVersion,  \* version the edits started from
  saveReq,      \* per editor: its save request
  shown,        \* history: versions the user's editor put on the screen
  answered      \* history: versions named in an answer to the user's saves

docVars == <<docHistory, docText, docCache, docFetch, open, mount, canEdit, draft, baseText,
             baseVersion, saveReq, shown, answered>>

Mounts == 1..MaxOpens
Versions == 1..MaxVersion
NoText == "no text"
Content == Texts \cup {NoText}
NoSave == [st |-> "none", sent |-> NoText, base |-> 0, stored |-> 0, version |-> 0, text |-> NoText]
Saves == [st : {"none", "sent", "stored", "answered", "refused"}, sent : Content,
          base : 0..MaxVersion, stored : 0..MaxVersion, version : 0..MaxVersion, text : Content]

(* The state has its types. *)
DocTypeOK ==
  /\ docHistory \in Seq({"user", "other"}) /\ Len(docHistory) \in Versions
  /\ docText \in Texts
  /\ docCache \in [version : 0..MaxVersion, text : Content]
  /\ docFetch \in BOOLEAN /\ open \in BOOLEAN /\ canEdit \in BOOLEAN
  /\ mount \in 0..MaxOpens
  /\ draft \in [Mounts -> Content] /\ baseText \in Content
  /\ baseVersion \in 0..MaxVersion
  /\ saveReq \in [Mounts -> Saves]
  /\ shown \subseteq Versions /\ answered \subseteq Versions

-----------------------------------------------------------------------------
(* What the page derives while it renders. *)

CurrentVersion == Len(docHistory)
Mounted(m) == open /\ mount = m
Seeded == open /\ draft[mount] # NoText
dirty == Seeded /\ draft[mount] # baseText
newerAvailable == Seeded /\ docCache.version > baseVersion
Saving == saveReq[mount].st # "none"

-----------------------------------------------------------------------------

DocInit ==
  /\ docHistory = <<"other">> /\ docText \in Texts
  /\ docCache = [version |-> 0, text |-> NoText] /\ docFetch = FALSE
  /\ open = FALSE /\ mount = 0 /\ canEdit = FALSE
  /\ draft = [m \in Mounts |-> NoText] /\ baseText = NoText /\ baseVersion = 0
  /\ saveReq = [m \in Mounts |-> NoSave]
  /\ shown = {} /\ answered = {}

serverDoc == <<docHistory, docText>>
cacheVars == <<docCache, docFetch>>
baseVars == <<baseText, baseVersion>>
pageVars == <<open, mount, canEdit>>
seenVars == <<shown, answered>>

(* An editor shows a version: what it displays is the base of the edits. *)
ShowVersion(m, c) ==
  /\ draft' = [draft EXCEPT ![m] = c.text]
  /\ baseText' = c.text /\ baseVersion' = c.version
  /\ shown' = shown \cup {c.version}

-----------------------------------------------------------------------------
(* The user. *)

(* The user opens the editor.  A cached doc seeds it at once, fresh or not; *)
(* a stale one is fetched again in the background.                          *)
OpenEditor ==
  /\ ~open /\ mount < MaxOpens
  /\ open' = TRUE /\ mount' = mount + 1 /\ canEdit' = FALSE
  /\ IF docCache.version > 0
     THEN ShowVersion(mount', docCache) /\ docFetch' \in {docFetch, TRUE}
     ELSE docFetch' = TRUE /\ UNCHANGED <<draft, baseVars, shown>>
  /\ UNCHANGED <<serverDoc, docCache, saveReq, answered>>

(* The user types; the editor takes it only while canEdit. *)
Type(t) ==
  /\ Seeded /\ canEdit /\ t # draft[mount]
  /\ draft' = [draft EXCEPT ![mount] = t]
  /\ UNCHANGED <<serverDoc, cacheVars, pageVars, baseVars, saveReq, seenVars>>

(* Discard puts the base back; it waits for a save under way. *)
Discard ==
  /\ dirty /\ ~Saving
  /\ draft' = [draft EXCEPT ![mount] = baseText]
  /\ UNCHANGED <<serverDoc, cacheVars, pageVars, baseVars, saveReq, seenVars>>

LoadLatest_KeepDraft ==
  /\ newerAvailable
  /\ baseText' = docCache.text /\ baseVersion' = docCache.version
  /\ UNCHANGED <<serverDoc, cacheVars, pageVars, draft, saveReq, seenVars>>

(* The banner's button replaces the draft and its base by the newer version. *)
LoadLatest ==
  /\ newerAvailable
  /\ ShowVersion(mount, docCache)
  /\ UNCHANGED <<serverDoc, cacheVars, pageVars, saveReq, answered>>

(* The user saves: the request carries the draft and the base version. *)
Save ==
  /\ dirty /\ canEdit /\ ~Saving
  /\ saveReq' = [saveReq EXCEPT ![mount] =
                   [NoSave EXCEPT !.st = "sent", !.sent = draft[mount], !.base = baseVersion]]
  /\ UNCHANGED <<serverDoc, cacheVars, pageVars, draft, baseVars, seenVars>>

(* The user leaves the page. *)
Leave ==
  /\ open /\ open' = FALSE /\ canEdit' = FALSE
  /\ UNCHANGED <<serverDoc, cacheVars, mount, draft, baseVars, saveReq, seenVars>>

-----------------------------------------------------------------------------
(* Callbacks of the page. *)

(* The lock is granted, renewed, lost or taken: canEdit follows. *)
LockTurns ==
  /\ open /\ canEdit' = ~canEdit
  /\ UNCHANGED <<serverDoc, cacheVars, open, mount, draft, baseVars, saveReq, seenVars>>

(* A refetch: the query's interval, or an event that says the doc changed. *)
Refetch ==
  /\ open /\ ~docFetch /\ docFetch' = TRUE
  /\ UNCHANGED <<serverDoc, docCache, pageVars, draft, baseVars, saveReq, seenVars>>

FetchReply_Reseeds ==
  /\ docFetch /\ docFetch' = FALSE
  /\ docCache' = [version |-> CurrentVersion, text |-> docText]
  /\ IF open
     THEN ShowVersion(mount, docCache')
     ELSE UNCHANGED <<draft, baseVars, shown>>
  /\ UNCHANGED <<serverDoc, pageVars, saveReq, answered>>

(* The doc arrives; an editor that still waits for it is seeded, once. *)
FetchReply ==
  /\ docFetch /\ docFetch' = FALSE
  /\ docCache' = [version |-> CurrentVersion, text |-> docText]
  /\ IF open /\ ~Seeded
     THEN ShowVersion(mount, docCache')
     ELSE UNCHANGED <<draft, baseVars, shown>>
  /\ UNCHANGED <<serverDoc, pageVars, saveReq, answered>>

(* The save succeeded.  Edits typed meanwhile stay in the draft, against the *)
(* version that the answer names.  Without any, and without link warnings,   *)
(* the page goes to the doc, whichever editor is mounted by then.            *)
SaveSucceeded(m) ==
  LET s == saveReq[m]
      answer == [version |-> s.version, text |-> s.text]
      editedMeanwhile == draft[m] # s.sent
  IN /\ s.st = "answered"
     /\ saveReq' = [saveReq EXCEPT ![m] = NoSave]
     /\ answered' = answered \cup {s.version}
     /\ docFetch' = TRUE
     /\ CASE Mounted(m) /\ ~editedMeanwhile -> ShowVersion(m, answer)
          [] Mounted(m) /\ editedMeanwhile ->
               /\ baseText' = s.text /\ baseVersion' = s.version
               /\ shown' = IF s.version = s.stored THEN shown \cup {s.version} ELSE shown
               /\ UNCHANGED draft
          [] ~Mounted(m) -> UNCHANGED <<draft, baseVars, shown>>
     /\ \E warnings \in BOOLEAN : open' = (open /\ (warnings \/ editedMeanwhile))
     /\ canEdit' = (canEdit /\ open') /\ UNCHANGED <<serverDoc, docCache, mount>>

(* The save was refused as stale: the draft stays and the doc is refetched. *)
SaveRefused(m) ==
  /\ saveReq[m].st = "refused"
  /\ saveReq' = [saveReq EXCEPT ![m] = NoSave]
  /\ docFetch' = TRUE
  /\ UNCHANGED <<serverDoc, docCache, pageVars, draft, baseVars, seenVars>>

(* The save failed in some other way, before or after the server stored it. *)
SaveFailed(m) ==
  /\ saveReq[m].st # "none"
  /\ saveReq' = [saveReq EXCEPT ![m] = NoSave]
  /\ UNCHANGED <<serverDoc, cacheVars, pageVars, draft, baseVars, seenVars>>

-----------------------------------------------------------------------------
(* The server. *)

(* One transaction compares the version and adds the next one: what was sent *)
(* with its links resolved, which may change the text.                       *)
SaveServed(m) ==
  LET s == saveReq[m] IN
  /\ s.st = "sent"
  /\ IF s.base = CurrentVersion
     THEN /\ CurrentVersion < MaxVersion
          /\ docHistory' = Append(docHistory, "user") /\ docText' \in Texts
          /\ saveReq' = [saveReq EXCEPT ![m].st = "stored", ![m].base = 0,
                                        ![m].stored = CurrentVersion + 1]
     ELSE /\ saveReq' = [saveReq EXCEPT ![m] = [NoSave EXCEPT !.st = "refused"]]
          /\ UNCHANGED serverDoc
  /\ UNCHANGED <<cacheVars, pageVars, draft, baseVars, seenVars>>

(* The handler then reads the doc for its answer, outside that transaction. *)
SaveReadBack(m) ==
  /\ saveReq[m].st = "stored"
  /\ saveReq' = [saveReq EXCEPT ![m].st = "answered", ![m].version = CurrentVersion,
                                ![m].text = docText]
  /\ UNCHANGED <<serverDoc, cacheVars, pageVars, draft, baseVars, seenVars>>

(* Somebody else writes the doc: a save, an approved proposal or a sync. *)
OtherWrites(t) ==
  /\ CurrentVersion < MaxVersion
  /\ docHistory' = Append(docHistory, "other") /\ docText' = t
  /\ UNCHANGED <<cacheVars, pageVars, draft, baseVars, saveReq, seenVars>>

-----------------------------------------------------------------------------

DocNext ==
  \/ OpenEditor \/ Discard \/ LoadLatest \/ Save \/ Leave
  \/ \E t \in Texts : Type(t) \/ OtherWrites(t)
  \/ LockTurns \/ Refetch \/ FetchReply
  \/ \E m \in Mounts : SaveSucceeded(m) \/ SaveRefused(m) \/ SaveFailed(m)
  \/ \E m \in Mounts : SaveServed(m) \/ SaveReadBack(m)

DocSpec == DocInit /\ [][DocNext]_docVars

-----------------------------------------------------------------------------
(* What versions the user has read, in the weaker and the stronger sense. *)

Known ==
  [a \in {"user", "other"} |-> IF a = "user" THEN shown \cup answered ELSE {}]
KnownShown ==
  [a \in {"user", "other"} |-> IF a = "user" THEN shown ELSE {}]

Shared == INSTANCE SharedDoc
  WITH Authors <- {"user", "other"}, Careful <- {"user"}, Founder <- "other",
       history <- docHistory, known <- Known
SharedStrict == INSTANCE SharedDoc
  WITH Authors <- {"user", "other"}, Careful <- {"user"}, Founder <- "other",
       history <- docHistory, known <- KnownShown

(* The user replaces the newest version of the doc only if the editor put it *)
(* on the screen or an answer of the server named it, whatever requests,     *)
(* refetches, other writers and other mounted editors do meanwhile           *)
(* (DocEditorPage.tsx:178-218, store/doc.go:112-172).                        *)
Refines == Shared!SharedSpec

(* The same without the answers: a version that the editor never showed is   *)
(* never replaced, as the store promises: "a stale version returns           *)
(* ErrVersionConflict instead of silently overwriting a newer edit"          *)
(* (store/doc.go:105-106).  The handler's answer may name a version written  *)
(* by somebody else after the save (api/docs/handlers.go:213-231).           *)
RefinesStrict == SharedStrict!SharedSpec

(* What the user typed leaves a mounted editor only by a command of the user *)
(* or after it was sent: no refetch, event, banner or answer replaces it,    *)
(* and no answer to a save takes the editor away with it (DocEditorPage.tsx: *)
(* 134-142, 178-218).  Answers to saves of an earlier editor are left out.   *)
TypedTextKept ==
  [][\A m \in Mounts :
       Mounted(m) /\ draft[m] # NoText /\ draft[m] # saveReq[m].sent
         => /\ draft'[m] # draft[m] => Discard \/ LoadLatest \/ \E t \in Texts : Type(t)
            /\ dirty /\ ~open' /\ (\A k \in Mounts \ {m} : saveReq[k].st = "none") => Leave
    ]_docVars

=============================================================================
