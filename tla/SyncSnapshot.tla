---------------------------- MODULE SyncSnapshot ----------------------------
(***************************************************************************)
(* What a sync does with the snapshot it fetched: sections that could not  *)
(* be observed keep what the previous snapshot knew of them, and the diff  *)
(* with that snapshot names the sections that changed.                     *)
(*                                                                         *)
(* A snapshot maps the titles a connector can report to a section.  The    *)
(* text of a section is a member of Values; entities, dependencies and     *)
(* metadata are left out.                                                  *)
(***************************************************************************)
CONSTANTS
    Sections,   \* section titles
    Values,     \* contents of a section
    NoSnapshot  \* the connector has none yet

Absent == "absent"  \* the snapshot has no section of that title
Blank == "blank"    \* its content is the empty string
Failed == "failed"  \* fetched as an ErrorSection: not observed

ASSUME SnapshotAssumption ==
    /\ Values \cap {Absent, Blank, Failed} = {}
    /\ NoSnapshot \notin [Sections -> [content : Values \cup {Absent, Blank}, failed : BOOLEAN]]

(* What the lab can show, and what a fetch can return of it. *)
Observation == [Sections -> Values \cup {Absent}]
Fetched == [Sections -> Values \cup {Absent, Failed}]

Section == [content : Values \cup {Absent, Blank}, failed : BOOLEAN]
Snapshot == [Sections -> Section]

SnapshotError(sn) == \E x \in Sections : sn[x] = Failed

(* FinalizeSnapshot: a fetch that observed no section at all is an error. *)
FinalizeSnapshot(sn) == ~ (SnapshotError(sn) /\ \A x \in Sections : sn[x] \in {Absent, Failed})

(* Variant: only a section that was healthy is carried over, so a second   *)
(* failure in a row forgets it.                                            *)
PreviousContent_Healthy(old, x) ==
    IF old = NoSnapshot \/ old[x].content = Absent \/ old[x].failed THEN Blank ELSE old[x].content

(* A title the old snapshot lacks reads as the zero section, content "". *)
PreviousContent(old, x) ==
    IF old = NoSnapshot \/ old[x].content = Absent THEN Blank ELSE old[x].content

(* Variant: the placeholder text of a failed section is stored when there  *)
(* is no previous snapshot to take its content from.                       *)
preserveFailedSections_Placeholder(old, sn) ==
    [x \in Sections |-> IF sn[x] = Failed
                          THEN [content |-> IF old = NoSnapshot THEN Failed
                                            ELSE PreviousContent(old, x), failed |-> TRUE]
                          ELSE [content |-> sn[x], failed |-> FALSE]]

(* The snapshot to store: fetched, with failed sections preserved. *)
preserveFailedSections(old, sn) ==
    [x \in Sections |-> IF sn[x] = Failed
                          THEN [content |-> PreviousContent(old, x), failed |-> TRUE]
                          ELSE [content |-> sn[x], failed |-> FALSE]]

Has(sn, x) == sn[x].content # Absent

(* Variant: a section that failed counts as modified. *)
Compare_Failed(old, sn) ==
    {x \in Sections : Has(old, x) # Has(sn, x) \/ old[x] # sn[x]}

(* The sections for which a change is created: added, removed, modified. *)
Compare(old, sn) ==
    {x \in Sections :
        \/ ~ Has(old, x) /\ Has(sn, x) /\ ~ sn[x].failed
        \/ Has(old, x) /\ ~ Has(sn, x)
        \/ Has(old, x) /\ Has(sn, x) /\ ~ sn[x].failed /\ old[x].content # sn[x].content}

=============================================================================
