---------------------------- MODULE DriftDetector ----------------------------
(***************************************************************************)
(* The drift detector's state and its evaluation tick, as operators on a   *)
(* record.  Scores are percentages.  Of the five signals two can move in   *)
(* this repository: nothing feeds the FixNet and shadow windows, and no    *)
(* service captures a reference.  _modification_frozen always equals       *)
(* _drift_detected and is not kept apart.                                  *)
(***************************************************************************)
EXTENDS Integers, Sequences, SequencesExt

CONSTANTS
    WindowSize,        \* window_size: the rolling windows
    CriticMin,         \* critic_window_min
    CompletionMin,     \* the literal 5 of _evaluate_signals
    CriticFloor,       \* critic_score_floor
    CompletionFloor,   \* goal_completion_floor
    ClearWindow,       \* clear_window
    Scores             \* what a critique or a reflection may come to

ASSUME DetectorConstants ==
    /\ WindowSize \in Nat \ {0} /\ ClearWindow \in Nat
    /\ CriticMin \in Nat /\ CompletionMin \in Nat
    /\ CriticFloor \in Nat /\ CompletionFloor \in Nat
    /\ Scores \subseteq 0..100

Detector ==
    [critic : {w \in Seq(Scores) : Len(w) <= WindowSize},
     completions : {w \in Seq(BOOLEAN) : Len(w) <= WindowSize},
     drift : BOOLEAN,
     streak : Nat]

NewDetector == [critic |-> <<>>, completions |-> <<>>,
                drift |-> FALSE, streak |-> 0]

\* A deque with maxlen drops its oldest entry.
Roll(window, entry) ==
    LET longer == Append(window, entry)
    IN IF Len(longer) > WindowSize THEN Tail(longer) ELSE longer

FeedCriticScore(d, score) == [d EXCEPT !.critic = Roll(@, score)]
FeedGoalCompleted(d, completed) == [d EXCEPT !.completions = Roll(@, completed)]

Total(scores) == FoldLeft(LAMBDA sum, score : sum + score, 0, scores)
Completed(window) == Len(SelectSeq(window, LAMBDA completed : completed))

MeanCriticScore(d) ==
    IF d.critic = <<>> THEN 100 ELSE Total(d.critic) \div Len(d.critic)
GoalCompletionRate(d) ==
    IF d.completions = <<>> THEN 100
    ELSE (100 * Completed(d.completions)) \div Len(d.completions)

CriticBreached(d) ==
    Len(d.critic) >= CriticMin /\ MeanCriticScore(d) < CriticFloor
CompletionsBreached(d) ==
    Len(d.completions) >= CompletionMin /\ GoalCompletionRate(d) < CompletionFloor
AnyBreached(d) == CriticBreached(d) \/ CompletionsBreached(d)

\* Mutant: a breach while drift goes on does not start the count again.
AfterTickKeepingStreak(d) ==
    IF AnyBreached(d) THEN [d EXCEPT !.drift = TRUE]
    ELSE IF ~d.drift THEN d
    ELSE IF d.streak + 1 >= ClearWindow THEN [d EXCEPT !.drift = FALSE, !.streak = 0]
    ELSE [d EXCEPT !.streak = @ + 1]

AfterTick(d) ==
    IF AnyBreached(d) THEN [d EXCEPT !.drift = TRUE, !.streak = 0]
    ELSE IF ~d.drift THEN d
    ELSE IF d.streak + 1 >= ClearWindow THEN [d EXCEPT !.drift = FALSE, !.streak = 0]
    ELSE [d EXCEPT !.streak = @ + 1]

Alerts(d) == ~d.drift /\ AfterTick(d).drift
Clears(d) == d.drift /\ ~AfterTick(d).drift
=============================================================================
