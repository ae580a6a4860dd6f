------------------------ MODULE FallbackConsciousness ------------------------
(***************************************************************************)
(* FallbackConsciousnessLayer: what the runtime is told when the cognition *)
(* core changes its tier.  The core calls OnTierChange under its lock, so  *)
(* it is a conjunct of the core's actions and has no step of its own.      *)
(*                                                                         *)
(* A tier is its index in TIER_ORDER.  What a fall teaches (a fix in       *)
(* FixNet, a curriculum entry, a trust outcome, a goal) is one lesson.     *)
(***************************************************************************)
EXTENDS Naturals

CONSTANTS
    TierNames,   \* TIER_ORDER, as 1 (primary) .. Echo
    MaxLessons,  \* bound: lessons counted
    NoTier

ASSUME LayerConstants == MaxLessons \in Nat

VARIABLES
    world,   \* the facts cognition_tier and cognition_is_degraded
    episode, \* _current_episode: there is one
    lessons  \* improvement goals generated, counted up to MaxLessons

layer == <<world, episode, lessons>>

LayerTypeOK ==
    /\ world \in [tier : TierNames \cup {NoTier}, degraded : BOOLEAN]
    /\ episode \in BOOLEAN
    /\ lessons \in 0..MaxLessons

LayerInit ==
    /\ world = [tier |-> NoTier, degraded |-> FALSE]
    /\ episode = FALSE
    /\ lessons = 0

Direction(from, to) == IF to < from THEN "recovered" ELSE "degraded"

\* At most one lesson is learned per cooldown.
Learn == lessons' \in {lessons} \cup ({lessons + 1} \cap 0..MaxLessons)

\* A fall opens an episode, whether or not the last one was closed.
Degraded(to) ==
    /\ world' = [tier |-> to, degraded |-> TRUE]
    /\ episode' = TRUE
    /\ Learn

\* Any step up is a recovery, to whichever tier.
FactsOfRecovery(to) == world' = [tier |-> to, degraded |-> FALSE]

Recovered(to) ==
    /\ FactsOfRecovery(to)
    /\ episode' = FALSE
    /\ UNCHANGED lessons

OnTierChange(from, to) ==
    IF Direction(from, to) = "degraded" THEN Degraded(to) ELSE Recovered(to)

\* build_prefix: the next prompt is told of the degradation there is now.
HasPrefix(active) == active # 1
=============================================================================
