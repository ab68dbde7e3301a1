---------------------------- MODULE MCRunbookRun ----------------------------
(***************************************************************************)
(* Instances of RunbookRun for TLC: the step sequences the runs freeze and *)
(* the sets of interchangeable values.                                     *)
(***************************************************************************)
EXTENDS RunbookRun, TLC

(* Plans of two steps: an operation whose outcome needs a decision next to *)
(* a manual step, in either order, and two operations in a row.            *)
ActionThenManual == <<"connector_action", "manual">>
ManualThenAction == <<"manual", "connector_action">>
PushThenAction == <<"config_push", "connector_action">>
WaitThenLifecycle == <<"wait", "lifecycle">>

SafetyPlans == {ActionThenManual, ManualThenAction, PushThenAction}
HAPlans == {PushThenAction}
LivePlans == {WaitThenLifecycle, ActionThenManual}
LifecyclePlans == {<<"lifecycle">>}
OneStepPlans == {<<"lifecycle">>, <<"manual">>}

Symmetry == Permutations(Tasks) \cup Permutations(Readers) \cup Permutations(Users)
              \cup Permutations(Procs) \cup Permutations(Runs)

=============================================================================
