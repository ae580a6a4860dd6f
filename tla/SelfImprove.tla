----------------------------- MODULE SelfImprove -----------------------------
(***************************************************************************)
(* Self-improvement runs: a run gets a worktree copied from the workspace, *)
(* is patched, validated and promoted back.  Every call is a process of    *)
(* its own that may die between two writes.  Calls on different runs are   *)
(* interleaved; two calls on one run are not, nothing would lock them.     *)
(*                                                                         *)
(* The content of a tree is the set of changes made to it.  Candidates and *)
(* quarantine snapshots only copy trees aside and are left out.            *)
(***************************************************************************)
EXTENDS Naturals, FiniteSets, Sequences, SequencesExt

CONSTANTS
    Runs, Paths,  \* Paths: the sequence of directories a promotion copies
    Patches,      \* what apply_patch may be asked to do
    Faults,       \* what inject_fault may do to a worktree file
    PathOf,       \* the path a change is in
    Broken,       \* changes after which verify_file fails
    Protected,    \* changes to a path the baseline denies without an override
    Failing,      \* changes that make the validation commands fail
    MaxCalls      \* bound: calls, scaffolding and editing the commands apart

Changes == Patches \cup Faults

ASSUME SelfImproveConstants ==
    /\ Patches \cap Faults = {}
    /\ \A c \in Changes : PathOf[c] \in ToSet(Paths)
    /\ Broken \subseteq Patches /\ Protected \subseteq Changes /\ Failing \subseteq Changes
    /\ MaxCalls \in Nat

ASSUME PathsAreListed == Paths \in Seq(ToSet(Paths))

VARIABLES
    ws,   \* the workspace
    run,  \* each run: its directory and the call at work on it
    hist  \* history, for the properties

vars == <<ws, run, hist>>

\* A directory is torn while, or if a process died while, it was copied.
Conditions == {"whole", "torn", "missing"}
Tree == [has : SUBSET Changes, is : [ToSet(Paths) -> Conditions]]

\* Commands: as scaffold wrote them, edited since, or replaced by a fault.
Commands == {"scaffolded", "own", "failing"}
Verdicts == {"none", "passed", "failed"}
Stages == {"idle", "record", "validate", "court", "remove", "fill"}

Run ==
    [made : BOOLEAN, tree : Tree,
     recorded : SUBSET Patches, \* manifest.applied_patches; success: not Broken
     commands : Commands,       \* manifest.recommended_commands
     verdict : Verdicts,        \* validation.json
     since : SUBSET Changes,    \* changes to the tree since that verdict
     stage : Stages, at : 1..(Len(Paths) + 1), patch : SUBSET Patches,
     cycle : BOOLEAN, promote : BOOLEAN, force : BOOLEAN]

TypeOK ==
    /\ ws \in Tree
    /\ run \in [Runs -> Run]
    /\ \A r \in Runs : run[r].recorded \subseteq run[r].tree.has
    /\ hist \in [calls : 0..MaxCalls, forced : BOOLEAN,
                 unvetted : SUBSET Changes, untested : SUBSET Changes]

Unmade ==
    [made |-> FALSE, tree |-> [has |-> {}, is |-> [p \in ToSet(Paths) |-> "missing"]],
     recorded |-> {}, commands |-> "scaffolded", verdict |-> "none", since |-> {},
     stage |-> "idle", at |-> 1, patch |-> {},
     cycle |-> FALSE, promote |-> FALSE, force |-> FALSE]

Init ==
    /\ ws = [has |-> {}, is |-> [p \in ToSet(Paths) |-> "whole"]]
    /\ run = [r \in Runs |-> Unmade]
    /\ hist = [calls |-> 0, forced |-> FALSE, unvetted |-> {}, untested |-> {}]

-----------------------------------------------------------------------------

Idle(r) == run[r].made /\ run[r].stage = "idle"
Called == hist.calls < MaxCalls /\ hist' = [hist EXCEPT !.calls = @ + 1]
End(call) == [call EXCEPT !.stage = "idle", !.at = 1, !.patch = {},
                          !.cycle = FALSE, !.promote = FALSE, !.force = FALSE]
ChangeTree(r, change) ==
    [run[r] EXCEPT !.tree.has = @ \cup {change}, !.since = @ \cup {change}]

\* The manifest is written last: a scaffold that dies leaves no usable run.
Scaffold(r) ==
    /\ ~run[r].made
    /\ run' = [run EXCEPT ![r] = [Unmade EXCEPT !.made = TRUE, !.tree = ws]]
    /\ UNCHANGED <<ws, hist>>

\* The operator edits the commands of the manifest.
EditCommands(r) ==
    /\ Idle(r) /\ run[r].commands # "own"
    /\ run' = [run EXCEPT ![r].commands = "own"]
    /\ UNCHANGED <<ws, hist>>

InjectFault(r) ==
    /\ Idle(r) /\ hist.calls < MaxCalls
    /\ \E fault \in Faults :
          /\ run' = [run EXCEPT ![r] = ChangeTree(r, fault)]
          /\ hist' = [hist EXCEPT !.calls = @ + 1, !.unvetted = @ \cup {fault}]
    /\ UNCHANGED ws

ForceValidationFailure(r) ==
    /\ Idle(r) /\ Called
    /\ run' = [run EXCEPT ![r].commands = "failing"]
    /\ UNCHANGED ws

-----------------------------------------------------------------------------
(* apply_patch, alone or as the start of execute_cycle.                    *)

\* The file is written; a patch that does not fit raises and changes nothing.
ApplyPatch(r) ==
    /\ Idle(r) /\ Called
    /\ \E patch \in Patches, cycle, promote, force \in BOOLEAN :
          /\ (promote => cycle) /\ (force => promote)
          /\ run' = [run EXCEPT ![r] =
                       [ChangeTree(r, patch) EXCEPT
                          !.stage = "record", !.patch = {patch},
                          !.cycle = cycle, !.promote = promote, !.force = force]]
    /\ UNCHANGED ws

Recorded(call, patches) ==
    LET saved == [call EXCEPT !.recorded = @ \cup patches, !.patch = {}]
    IN IF call.cycle THEN [saved EXCEPT !.stage = "validate"] ELSE End(saved)

\* The artifact and the manifest are written after the file.
RecordPatch(r) ==
    /\ run[r].stage = "record"
    /\ run' = [run EXCEPT ![r] = Recorded(@, @.patch)]
    /\ UNCHANGED <<ws, hist>>

-----------------------------------------------------------------------------
(* validate_run, alone or in the cycle.                                    *)

StartValidation(r) ==
    /\ Idle(r) /\ Called
    /\ run' = [run EXCEPT ![r].stage = "validate"]
    /\ UNCHANGED ws

\* What the commands may come to; those of scaffold name no program: they raise.
Outcomes(r) ==
    LET tree == run[r].tree
        failing == run[r].commands = "failing" \/ tree.has \cap Failing # {}
        torn == \E p \in DOMAIN tree.is : tree.is[p] # "whole"
    IN {verdict \in {"passed", "failed"} :
           /\ run[r].commands # "scaffolded"
           /\ verdict = "passed" => ~failing
           /\ verdict = "failed" => failing \/ torn}

Validate(r) ==
    /\ run[r].stage = "validate"
    /\ \E verdict \in Outcomes(r) :
          LET judged == [run[r] EXCEPT !.verdict = verdict, !.since = {}]
          IN run' = [run EXCEPT ![r] = IF judged.promote /\ verdict = "passed"
                                       THEN [judged EXCEPT !.stage = "court"]
                                       ELSE End(judged)]
    /\ UNCHANGED <<ws, hist>>

\* A command that times out or cannot be started: nothing is written.
ValidationRaises(r) ==
    /\ run[r].stage = "validate"
    /\ run' = [run EXCEPT ![r] = End(@)]
    /\ UNCHANGED <<ws, hist>>

-----------------------------------------------------------------------------
(* promote_run, alone or in the cycle.                                     *)

StartPromotion(r) ==
    /\ Idle(r) /\ Called
    /\ \E force \in BOOLEAN :
          run' = [run EXCEPT ![r].stage = "court", ![r].force = force]
    /\ UNCHANGED ws

\* Mutants: the court does not ask the baseline, or does not ask for a verdict.
ApprovedByVerdict(r) == run[r].verdict = "passed" /\ run[r].recorded \cap Broken = {}
ApprovedByPatches(r) == run[r].recorded \cap (Broken \cup Protected) = {}

\* review_run
Approved(r) ==
    /\ run[r].verdict = "passed"
    /\ run[r].recorded \cap (Broken \cup Protected) = {}

Denied(r) ==
    /\ run[r].stage = "court" /\ ~run[r].force /\ ~Approved(r)
    /\ run' = [run EXCEPT ![r] = End(@)]
    /\ UNCHANGED <<ws, hist>>

Granted(r) ==
    /\ run[r].stage = "court" /\ (run[r].force \/ Approved(r))
    /\ run' = [run EXCEPT ![r].stage = "remove", ![r].at = 1]
    /\ hist' = IF Approved(r)
               THEN [hist EXCEPT !.untested = @ \cup run[r].since]
               ELSE [hist EXCEPT !.forced = TRUE,
                                 !.unvetted = @ \cup run[r].tree.has,
                                 !.untested = @ \cup run[r].tree.has]
    /\ UNCHANGED ws

In(changes, path) == {c \in changes : PathOf[c] = path}

\* rmtree, unless the worktree does not have the directory.
RemoveDst(r) ==
    /\ run[r].stage = "remove" /\ run[r].at <= Len(Paths)
    /\ LET path == Paths[run[r].at]
       IN IF run[r].tree.is[path] = "missing"
          THEN /\ run' = [run EXCEPT ![r].at = @ + 1]
               /\ UNCHANGED ws
          ELSE /\ run' = [run EXCEPT ![r].stage = "fill"]
               /\ ws' = [ws EXCEPT !.is[path] = "missing", !.has = @ \ In(@, path)]
    /\ UNCHANGED hist

\* Mutant: the directory is moved, not copied.
CopyDstMoving(r) ==
    /\ run[r].stage = "fill"
    /\ LET path == Paths[run[r].at]
       IN /\ ws' = [ws EXCEPT !.is[path] = run[r].tree.is[path],
                              !.has = @ \cup In(run[r].tree.has, path)]
          /\ run' = [run EXCEPT ![r].stage = "remove", ![r].at = @ + 1,
                                ![r].tree.is[path] = "missing"]
    /\ UNCHANGED hist

\* copytree
CopyDst(r) ==
    /\ run[r].stage = "fill"
    /\ LET path == Paths[run[r].at]
       IN ws' = [ws EXCEPT !.is[path] = run[r].tree.is[path],
                           !.has = @ \cup In(run[r].tree.has, path)]
    /\ run' = [run EXCEPT ![r].stage = "remove", ![r].at = @ + 1]
    /\ UNCHANGED hist

Promoted(r) ==
    /\ run[r].stage = "remove" /\ run[r].at > Len(Paths)
    /\ run' = [run EXCEPT ![r] = End(@)]
    /\ UNCHANGED <<ws, hist>>

-----------------------------------------------------------------------------

\* The process dies; a directory it was copying is left torn.
Crash(r) ==
    /\ run[r].stage # "idle"
    /\ run' = [run EXCEPT ![r] = End(@)]
    /\ hist' = [hist EXCEPT !.unvetted = @ \cup run[r].patch]
    /\ \/ UNCHANGED ws
       \/ /\ run[r].stage = "fill"
          /\ \E part \in SUBSET In(run[r].tree.has, Paths[run[r].at]) :
                ws' = [ws EXCEPT !.is[Paths[run[r].at]] = "torn", !.has = @ \cup part]

Call(r) ==
    \/ Scaffold(r) \/ EditCommands(r) \/ InjectFault(r) \/ ForceValidationFailure(r)
    \/ ApplyPatch(r) \/ RecordPatch(r) \/ StartValidation(r) \/ Validate(r)
    \/ ValidationRaises(r) \/ StartPromotion(r) \/ Denied(r) \/ Granted(r)
    \/ RemoveDst(r) \/ CopyDst(r) \/ Promoted(r) \/ Crash(r)

Next == \E r \in Runs : Call(r)

Spec == Init /\ [][Next]_vars

-----------------------------------------------------------------------------
(* Properties.                                                             *)

(* Nothing the promotion court denies reaches the workspace, in any number *)
(* of runs and promotions built on each other, except what it cannot see:  *)
(* faults, patches whose process died before it recorded them, and trees   *)
(* promoted by force.                                                      *)
VettedWorkspace == ws.has \cap (Broken \cup Protected) \subseteq hist.unvetted

(* A change that makes the commands fail reaches the workspace only by     *)
(* force or when it was made after the verdict the court read.             *)
PassingWorkspace == ws.has \cap Failing \subseteq hist.untested

(* What execute_cycle promotes has passed the commands as it stands.       *)
CyclePromotesPassing ==
    \A r \in Runs : run[r].cycle /\ run[r].stage \in {"remove", "fill"} =>
        run[r].tree.has \cap Failing = {}

(* Promotion, by hand or by the cycle, takes what passed.                  *)
PromotedPasses == PassingWorkspace /\ CyclePromotesPassing

(* A directory that a promotion which died took from the workspace can be  *)
(* had again: some run still has it whole.                                 *)
LostIsKeptInRun ==
    \A p \in ToSet(Paths) : ws.is[p] # "whole" =>
        \E r \in Runs : run[r].made /\ run[r].tree.is[p] = "whole"

(* "Promote only passing work", the high-level cycle of the README.  The   *)
(* code breaks it: the verdict may be older than the last patch.           *)
OnlyPassingPromoted == ~hist.forced => ws.has \cap Failing = {}
=============================================================================
