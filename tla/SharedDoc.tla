------------------------------ MODULE SharedDoc ------------------------------
(***************************************************************************)
(* What version-checked saving promises to the people who share a doc,     *)
(* without locks, requests or screens.  The doc is the sequence of its     *)
(* versions, each with its author.  A careful author replaces a version    *)
(* only if it is one of those known to that author; the others (a sync, an *)
(* approved proposal) write when they like.  DocDraft implements this      *)
(* specification twice, with two readings of "known".                      *)
(***************************************************************************)
EXTENDS Naturals, Sequences

CONSTANTS Authors,     \* everyone who writes the doc
          Careful,     \* the authors bound by the promise
          Founder      \* the author of the first version

VARIABLES history,     \* the authors of the versions, oldest first
          known        \* the version numbers known to each author

sharedVars == <<history, known>>

(* The number of the newest version. *)
Newest == Len(history)

SharedInit ==
  /\ history = <<Founder>>
  /\ known = [a \in Authors |-> {}]

(* An author comes to know versions that exist. *)
Learn(a) ==
  /\ \E V \in SUBSET (1..Newest) : known' = [known EXCEPT ![a] = @ \cup V]
  /\ UNCHANGED history

(* An author adds a version on top of the newest one. *)
Write(a) ==
  /\ a \in Careful => Newest \in known[a]
  /\ history' = Append(history, a)
  /\ UNCHANGED known

SharedNext == \E a \in Authors : Learn(a) \/ Write(a)

SharedSpec == SharedInit /\ [][SharedNext]_sharedVars

=============================================================================
