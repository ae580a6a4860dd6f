------------------------------ MODULE MCAGILoop ------------------------------
(* Small instances of AGILoop.                                             *)
EXTENDS AGILoop, SynthesisRules

\* One rule whose trigger can end and one that has no auto_complete.
MCRules == {r \in DefaultRules : r.name \in {"perception_alarm_audio", "memory_archive_growth"}}

MCOperatorGoals == {[priority |-> 50, kind |-> "simple", origin |-> "operator"]}
=============================================================================
