--------------------------- MODULE SynthesisRules ---------------------------
(***************************************************************************)
(* The rules a GoalSynthesizer has from the start: what each looks for in  *)
(* the facts s of the world model and in those of its last tick, p, what   *)
(* its goal looks like to the rest of the loop, and when the goal is taken *)
(* back.  Facts are kept as far as a rule tells them apart.                *)
(***************************************************************************)
EXTENDS Naturals

CONSTANT Tools \* tools with a trust profile

Facts ==
    [sound : {"quiet", "siren", "alarm"},     \* what perception_alerts say of sounds
     obstacle : {"none", "unsure", "near"},   \* depth_nearest_obstacle within 0.8 m
     error : BOOLEAN,                         \* an alert with an error or a traceback
     change : BOOLEAN,                        \* a desktop_change that is sure
     degraded : BOOLEAN,                      \* cognition_is_degraded
     distrusted : SUBSET Tools,               \* profiles with the level "degraded"
     lessons : Nat, failing : BOOLEAN,        \* curriculum updates; a late one failed
     selfFailures : Nat,                      \* failures of the theme self_improve
     cases : Nat, novel : BOOLEAN,            \* FixNet cases; a late one is novel
     mirrored : Nat]                          \* mirrored_live_memory_count

\* kind: what the router makes of the title, before facts are put into it.
\* "alarm audio" has the "rm " of a deletion in it.
Rule(name, priority, kind, auto) ==
    [name |-> name, priority |-> priority, kind |-> kind, auto |-> auto]

PerceptionRules ==
    {Rule("perception_alarm_audio", 90, "gated", TRUE),
     Rule("perception_near_obstacle", 98, "unknown", TRUE),
     Rule("perception_ocr_error_visible", 75, "unknown", FALSE),
     Rule("perception_screen_change_spike", 55, "unknown", FALSE)}
CognitionRules ==
    {Rule("cognition_tier_degraded", 92, "unknown", TRUE),
     Rule("cognition_tier_recovered", 70, "unknown", FALSE),
     Rule("tool_trust_degraded", 72, "unknown", FALSE)}
LearningRules ==
    {Rule("curriculum_failure_cluster_spike", 68, "unknown", FALSE),
     Rule("fixnet_novel_error", 78, "simple", FALSE),
     Rule("self_improve_repeated_failure", 65, "unknown", FALSE),
     Rule("memory_archive_growth", 40, "unknown", FALSE)}
DefaultRules == PerceptionRules \cup CognitionRules \cup LearningRules

Condition(name, s, p) ==
    CASE name = "perception_alarm_audio" -> s.sound # "quiet"
      [] name = "perception_near_obstacle" -> s.obstacle = "near"
      [] name = "perception_ocr_error_visible" -> s.error
      [] name = "perception_screen_change_spike" -> s.change
      [] name = "cognition_tier_degraded" -> s.degraded /\ ~p.degraded
      [] name = "cognition_tier_recovered" -> p.degraded /\ ~s.degraded
      [] name = "tool_trust_degraded" -> \E t \in s.distrusted : t \notin p.distrusted
      [] name = "curriculum_failure_cluster_spike" -> s.lessons > p.lessons + 3 /\ s.failing
      [] name = "fixnet_novel_error" -> s.cases > p.cases /\ s.novel
      [] name = "self_improve_repeated_failure" -> s.selfFailures >= 2
      [] name = "memory_archive_growth" -> s.mirrored > 50 /\ s.mirrored > p.mirrored + 10

\* auto_complete, of the rules that have one.
Ended(name, s) ==
    CASE name = "perception_alarm_audio" -> s.sound # "alarm"
      [] name = "perception_near_obstacle" -> s.obstacle = "none"
      [] name = "cognition_tier_degraded" -> ~s.degraded
      [] OTHER -> FALSE
=============================================================================
