-------------------------- MODULE CurriculumTrainer --------------------------
(***************************************************************************)
(* When the curriculum trainer trains: the profiles the loop makes of the  *)
(* curriculum memory's statistics, and what evaluate decides of them.  The *)
(* memory is the one of Ledgers: one theme, and a count per cluster.       *)
(***************************************************************************)
EXTENDS Integers, FiniteSets

CONSTANTS
    FailureThreshold, \* failure_threshold
    MinExamples,      \* min_examples
    HasLibraries      \* transformers and peft are installed

ASSUME TrainerConstants == FailureThreshold \in Nat \ {0} /\ MinExamples \in Nat /\ HasLibraries \in BOOLEAN

\* One profile per theme, with its last outcome, and one per failure cluster,
\* whatever its count: the ten highest of each, here all.
Profiles(memory) ==
    (IF memory.seen = 0 THEN {}
     ELSE {[cluster |-> "none", outcome |-> memory.last]})
    \cup {[cluster |-> c, outcome |-> "failure"] :
             c \in {d \in DOMAIN memory.count : memory.count[d] > 0}}

\* Profiles of one theme and cluster make a group; that of no cluster is skipped.
Failures(profiles, c) == Cardinality({p \in profiles : p.cluster = c /\ p.outcome = "failure"})
Dataset(profiles) == {p \in profiles : p.outcome \in {"failure", "success"}}

ShouldTrain(profiles, cooling) ==
    /\ \E p \in profiles : p.cluster # "none" /\ Failures(profiles, p.cluster) >= FailureThreshold
    /\ ~cooling
    /\ Cardinality(Dataset(profiles)) >= MinExamples

\* The dataset is exported in either case.  No command registers a profile in
\* the directory the trainer looks in, so that no model is there to train.
TrainingStatus ==
    IF HasLibraries THEN "deferred_no_trainable_model" ELSE "deferred_no_peft"
=============================================================================
