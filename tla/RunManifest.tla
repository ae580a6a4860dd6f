---------------------------- MODULE RunManifest ----------------------------
(***************************************************************************)
(* The manifest of a self-improvement run, one JSON file that is read      *)
(* whole and written whole, and what the calls on the run make of it.      *)
(* Patches, generations of candidates and faults are numbered by the       *)
(* command that made them; scored: the candidates of the last scoring.     *)
(***************************************************************************)
EXTENDS Integers, FiniteSets, ImmutableBaseline

NewRun == [patches |-> {}, candidates |-> {}, scored |-> {}, faults |-> {}]

AddPatch(run, id, path, ok) ==
    [run EXCEPT !.patches = @ \cup {[id |-> id, path |-> path, ok |-> ok]}]

\* Each variant of the text, two at least, is a candidate after those there are.
AddCandidates(run, id) == [run EXCEPT !.candidates = @ \cup {id}]

\* Every candidate is patched and validated in a copy of the worktree.
SetScores(run) == [run EXCEPT !.scored = run.candidates]

AddFault(run, id) == [run EXCEPT !.faults = @ \cup {id}]

\* What the scores say is best; 0: there are none.
Best(run) == IF run.scored = {} THEN {0} ELSE run.scored

\* The answers of the promotion court, for some verdict of the validation.
CourtAnswers(run, force) ==
    {approved \in BOOLEAN :
        /\ force => approved
        /\ approved /\ ~force => \A patch \in run.patches : patch.ok /\ CourtAllows(patch.path)}

Entries(run) == Cardinality(run.patches) + Cardinality(run.candidates) + Cardinality(run.faults)
=============================================================================
