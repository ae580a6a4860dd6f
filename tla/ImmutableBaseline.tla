------------------------- MODULE ImmutableBaseline -------------------------
(***************************************************************************)
(* What the baseline answers when it is asked whether a path may be        *)
(* patched.  A path is the set of the manifest's patterns that it          *)
(* contains; an ask says what the instance that is asked knows besides: an *)
(* override for the path that has not expired, drift, and the score of a   *)
(* critique, a percentage, or -1 where there is none.                      *)
(***************************************************************************)
EXTENDS Integers

\* _default_manifest
Frozen ==
    {"arc_kernel/schemas", "arc_kernel/engine", "arc_kernel/event_log", "arc_kernel/policy",
     "verifier/", "verifier/safety", "drift_detector", "immutable_baseline",
     "resilience/continuity", "resilience/fallback_p"}
Guarded ==
    {"cognition_services/critic", "cognition_services/fallback_consciousness",
     "cognition_services/cognition_core", "cognition_services/stream_session",
     "cognition_services/goal_synthesizer"}
Supervised ==
    {"fixnet/", "memory_subsystem/", "cognition_services/curriculum_trainer",
     "self_improve/promotion"}

\* The strictest of the tiers that match.
TierOf(path) ==
    CASE path \cap Frozen # {} -> "frozen"
      [] path \cap Frozen = {} /\ path \cap Guarded # {} -> "guarded"
      [] path \cap (Frozen \cup Guarded) = {} /\ path \cap Supervised # {} -> "supervised"
      [] OTHER -> "none"

CritiqueThreshold == 80

Allows(path, ask) ==
    \/ ask.overridden
    \/ TierOf(path) \in {"none", "supervised"}
    \/ TierOf(path) = "guarded" /\ ~ask.drifting /\ ask.score >= CritiqueThreshold

\* The promotion court makes an instance of its own and asks it without a
\* score: what the loop's instance was granted, or knows, is not in it.
CourtAllows(path) == Allows(path, [overridden |-> FALSE, drifting |-> FALSE, score |-> -1])
=============================================================================
