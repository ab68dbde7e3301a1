---------------------------- MODULE MCSyncEngine ----------------------------
(***************************************************************************)
(* Instances of SyncEngine for TLC: retry delays and what the lab shows.   *)
(***************************************************************************)
EXTENDS SyncEngine, TLC

OneDelay == <<1>>
TwoDelays == <<1, 2>>

(* One section changes, comes and goes next to steady ones, or none does.  *)
Steady == CHOOSE x \in Sections : TRUE
ChangingLab == {l \in Observation : l[Steady] = CHOOSE v \in Values : TRUE}
SteadyLab == {[x \in Sections |-> CHOOSE v \in Values : TRUE]}

Symmetry == Permutations(Syncs) \cup Permutations(Engines)

=============================================================================
