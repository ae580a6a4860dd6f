-------------------------- MODULE SelfImproveProofs --------------------------
(***************************************************************************)
(* Theorems about self-improvement runs, for any number of runs, any       *)
(* changes and any bound on the calls.                                     *)
(***************************************************************************)
EXTENDS SelfImprove, TLAPS

Unfit == Broken \cup Protected

Hist == [calls : 0..MaxCalls, forced : BOOLEAN,
         unvetted : SUBSET Changes, untested : SUBSET Changes]

(***************************************************************************)
(* What a run keeps to.  An unfit change of its tree is recorded, about to *)
(* be recorded, or excused; a stored passing verdict is wrong only about   *)
(* later changes; and a promotion under way copies nothing unexcused.      *)
(***************************************************************************)
Sound(c, h) ==
    /\ c.recorded \subseteq c.tree.has
    /\ c.tree.has \cap Unfit \subseteq h.unvetted \cup c.recorded \cup c.patch
    /\ c.stage # "record" => c.patch = {}
    /\ c.stage = "idle" => ~c.cycle
    /\ c.patch \subseteq c.tree.has
    /\ c.verdict = "passed" => c.tree.has \cap Failing \subseteq c.since
    /\ c.stage \in {"remove", "fill"} =>
         /\ c.tree.has \cap Unfit \subseteq h.unvetted
         /\ c.tree.has \cap Failing \subseteq h.untested
    /\ c.cycle /\ c.stage \in {"court", "remove", "fill"} => c.tree.has \cap Failing = {}
    /\ c.stage = "fill" => c.at <= Len(Paths)

SafeWorkspace(w, h) ==
    /\ w.has \cap Unfit \subseteq h.unvetted
    /\ w.has \cap Failing \subseteq h.untested

Inv ==
    /\ ws \in Tree /\ run \in [Runs -> Run] /\ hist \in Hist
    /\ \A r \in Runs : Sound(run[r], hist)
    /\ SafeWorkspace(ws, hist)

Grows(h, g) == h.unvetted \subseteq g.unvetted /\ h.untested \subseteq g.untested

(* A step of one run keeps the invariant if it leaves that run sound and   *)
(* the workspace safe, and takes no excuse away.                           *)
LEMMA OneRunMoves ==
    ASSUME Inv, NEW r \in Runs, NEW c \in Run, run' = [run EXCEPT ![r] = c],
           hist' \in Hist, Grows(hist, hist'), Sound(c, hist'),
           ws' \in Tree, SafeWorkspace(ws', hist')
    PROVE  Inv'
<1>1. run' \in [Runs -> Run]
  BY DEF Inv
<1>2. ASSUME NEW q \in Runs PROVE Sound(run'[q], hist')
  <2>1. CASE q = r
    BY <2>1 DEF Inv
  <2>2. CASE q # r
    <3>1. Sound(run[q], hist) /\ run'[q] = run[q]
      BY <2>2 DEF Inv
    <3> QED
      BY <3>1 DEF Sound, Grows
  <2> QED
    BY <2>1, <2>2
<1> QED
  BY <1>1, <1>2 DEF Inv

LEMMA RestingSafe ==
    ASSUME Inv, hist' \in Hist, Grows(hist, hist'), ws' = ws
    PROVE  ws' \in Tree /\ SafeWorkspace(ws', hist')
BY DEF Inv, SafeWorkspace, Grows

LEMMA UnmadeIsRun == Unmade \in Run
<1>1. 1 \in 1..(Len(Paths) + 1)
  BY PathsAreListed
<1> QED
  BY <1>1 DEF Unmade, Run, Tree, Conditions, Commands, Verdicts, Stages

(* The end of a call touches nothing but the call.                         *)
LEMMA EndIsRun ==
    ASSUME NEW c \in Run
    PROVE  /\ End(c) \in Run /\ End(c).stage = "idle" /\ End(c).patch = {}
           /\ End(c).cycle = FALSE /\ End(c).tree = c.tree /\ End(c).recorded = c.recorded
           /\ End(c).verdict = c.verdict /\ End(c).since = c.since
<1>1. 1 \in 1..(Len(Paths) + 1)
  BY PathsAreListed
<1> QED
  BY <1>1 DEF End, Run, Stages

LEMMA InvInit == Init => Inv
<1> SUFFICES ASSUME Init PROVE Inv
  OBVIOUS
<1>1. ws \in Tree /\ ws.has = {}
  BY DEF Init, Tree, Conditions
<1>2. hist \in Hist
  BY SelfImproveConstants DEF Init, Hist
<1>3. Sound(Unmade, hist)
  BY DEF Sound, Unmade
<1> QED
  BY <1>1, <1>2, <1>3, UnmadeIsRun DEF Init, Inv, SafeWorkspace

-----------------------------------------------------------------------------
(* One lemma per group of actions.                                         *)

LEMMA Same == ASSUME Inv PROVE hist \in Hist /\ Grows(hist, hist)
BY DEF Inv, Grows

LEMMA CallsGrow ==
    ASSUME Inv, Called
    PROVE  hist' \in Hist /\ hist'.unvetted = hist.unvetted /\ hist'.untested = hist.untested
           /\ Grows(hist, hist')
<1>1. hist.calls + 1 \in 0..MaxCalls
  BY SelfImproveConstants DEF Inv, Hist, Called
<1> QED
  BY <1>1 DEF Inv, Hist, Called, Grows

LEMMA ScaffoldKeeps == ASSUME Inv, NEW r \in Runs, Scaffold(r) PROVE Inv'
<1> DEFINE c == [Unmade EXCEPT !.made = TRUE, !.tree = ws]
<1>1. c \in Run
  BY UnmadeIsRun DEF Inv, Run
<1>2. c.tree = ws /\ c.recorded = {} /\ c.patch = {} /\ c.stage = "idle" /\ c.verdict = "none"
      /\ c.cycle = FALSE
  BY DEF Unmade
<1>3. Sound(c, hist)
  <2> HIDE DEF c
  <2> QED
    BY <1>2 DEF Inv, SafeWorkspace, Sound
<1> HIDE DEF c
<1>4. run' = [run EXCEPT ![r] = c] /\ UNCHANGED <<ws, hist>>
  BY DEF Scaffold, c
<1> QED
  BY <1>1, <1>3, <1>4, Same, OneRunMoves, RestingSafe

LEMMA EditCommandsKeeps == ASSUME Inv, NEW r \in Runs, EditCommands(r) PROVE Inv'
<1> DEFINE c == [run[r] EXCEPT !.commands = "own"]
<1>1. run[r] \in Run /\ Sound(run[r], hist)
  BY DEF Inv
<1>2. c \in Run /\ Sound(c, hist)
  BY <1>1 DEF Run, Commands, Sound
<1> HIDE DEF c
<1>3. run' = [run EXCEPT ![r] = c] /\ UNCHANGED <<ws, hist>>
  BY DEF EditCommands, c
<1> QED
  BY <1>2, <1>3, Same, OneRunMoves, RestingSafe

LEMMA ForceValidationFailureKeeps ==
    ASSUME Inv, NEW r \in Runs, ForceValidationFailure(r) PROVE Inv'
<1> DEFINE c == [run[r] EXCEPT !.commands = "failing"]
<1>1. run[r] \in Run /\ Sound(run[r], hist)
  BY DEF Inv
<1>2. c \in Run /\ Sound(c, hist)
  BY <1>1 DEF Run, Commands, Sound
<1> HIDE DEF c
<1>3. run' = [run EXCEPT ![r] = c] /\ UNCHANGED ws /\ Called
  BY DEF ForceValidationFailure, c
<1>4. Sound(c, hist')
  BY <1>2, <1>3, CallsGrow DEF Sound
<1> QED
  BY <1>2, <1>3, <1>4, CallsGrow, OneRunMoves, RestingSafe

(* Changing the tree of a run whose call is idle.                          *)
LEMMA ChangedTree ==
    ASSUME Inv, NEW r \in Runs, Idle(r), NEW change \in Changes
    PROVE  LET c == ChangeTree(r, change)
           IN /\ c \in Run /\ c.stage = "idle" /\ c.patch = {} /\ c.cycle = run[r].cycle
              /\ c.tree.has = run[r].tree.has \cup {change}
              /\ c.since = run[r].since \cup {change}
              /\ c.recorded = run[r].recorded /\ c.verdict = run[r].verdict
<1>1. run[r] \in Run /\ Sound(run[r], hist)
  BY DEF Inv
<1>2. run[r].tree \in Tree /\ run[r].stage = "idle" /\ run[r].patch = {}
  BY <1>1 DEF Run, Idle, Sound
<1> DEFINE tree == [run[r].tree EXCEPT !.has = @ \cup {change}]
           since == run[r].since \cup {change}
<1>3. tree \in Tree /\ tree.has = run[r].tree.has \cup {change}
  BY <1>2 DEF Tree
<1>4. since \in SUBSET Changes
  BY <1>1 DEF Run
<1>5. ChangeTree(r, change) = [run[r] EXCEPT !.tree = tree, !.since = since]
  BY <1>1 DEF ChangeTree, Run
<1> HIDE DEF tree, since
<1> QED
  BY <1>1, <1>2, <1>3, <1>4, <1>5 DEF Run, since

LEMMA InjectFaultKeeps == ASSUME Inv, NEW r \in Runs, InjectFault(r) PROVE Inv'
<1>1. PICK fault \in Faults :
         /\ run' = [run EXCEPT ![r] = ChangeTree(r, fault)]
         /\ hist' = [hist EXCEPT !.calls = @ + 1, !.unvetted = @ \cup {fault}]
  BY DEF InjectFault
<1> DEFINE c == ChangeTree(r, fault)
<1>2. /\ c \in Run /\ c.stage = "idle" /\ c.patch = {} /\ c.cycle = run[r].cycle
      /\ c.tree.has = run[r].tree.has \cup {fault} /\ c.since = run[r].since \cup {fault}
      /\ c.recorded = run[r].recorded /\ c.verdict = run[r].verdict
  BY ChangedTree DEF InjectFault, Changes
<1>3. hist.calls + 1 \in 0..MaxCalls
  BY SelfImproveConstants DEF Inv, Hist, InjectFault
<1>4. hist' \in Hist /\ hist'.unvetted = hist.unvetted \cup {fault}
      /\ hist'.untested = hist.untested
  BY <1>1, <1>3 DEF Inv, Hist, Changes
<1> HIDE DEF c
<1>5. Sound(run[r], hist)
  BY DEF Inv
<1>6. Sound(c, hist')
  BY <1>2, <1>4, <1>5 DEF Sound, Idle, InjectFault
<1> QED
  BY <1>1, <1>2, <1>4, <1>6, OneRunMoves, RestingSafe DEF InjectFault, Grows, c

LEMMA ApplyPatchKeeps == ASSUME Inv, NEW r \in Runs, ApplyPatch(r) PROVE Inv'
<1>1. PICK patch \in Patches, cycle \in BOOLEAN, promote \in BOOLEAN, force \in BOOLEAN :
         run' = [run EXCEPT ![r] =
                    [ChangeTree(r, patch) EXCEPT
                       !.stage = "record", !.patch = {patch},
                       !.cycle = cycle, !.promote = promote, !.force = force]]
  BY DEF ApplyPatch
<1> DEFINE b == ChangeTree(r, patch)
           c == [b EXCEPT !.stage = "record", !.patch = {patch},
                          !.cycle = cycle, !.promote = promote, !.force = force]
<1>2. /\ b \in Run /\ b.tree.has = run[r].tree.has \cup {patch}
      /\ b.since = run[r].since \cup {patch}
      /\ b.recorded = run[r].recorded /\ b.verdict = run[r].verdict
  BY ChangedTree DEF ApplyPatch, Changes
<1> HIDE DEF b
<1>3. c \in Run /\ c.stage = "record" /\ c.patch = {patch} /\ c.tree = b.tree
      /\ c.since = b.since /\ c.recorded = b.recorded /\ c.verdict = b.verdict
  BY <1>2 DEF Run, Stages
<1> HIDE DEF c
<1>4. Sound(run[r], hist) /\ run[r].patch = {}
  BY DEF Inv, Sound, ApplyPatch, Idle
<1>5. Called /\ UNCHANGED ws
  BY DEF ApplyPatch
<1>6. Sound(c, hist')
  BY <1>2, <1>3, <1>4, <1>5, CallsGrow DEF Sound
<1> QED
  BY <1>1, <1>3, <1>5, <1>6, CallsGrow, OneRunMoves, RestingSafe DEF b, c

(* A call that ends where it is leaves the run as sound as it was, once    *)
(* its patch is recorded or excused.                                       *)
LEMMA EndKeeps ==
    ASSUME Inv, NEW r \in Runs, NEW c \in Run, run' = [run EXCEPT ![r] = End(c)],
           hist' \in Hist, Grows(hist, hist'), ws' \in Tree, SafeWorkspace(ws', hist'),
           c.recorded \subseteq c.tree.has,
           c.tree.has \cap Unfit \subseteq hist'.unvetted \cup c.recorded,
           c.verdict = "passed" => c.tree.has \cap Failing \subseteq c.since
    PROVE  Inv'
<1> DEFINE e == End(c)
<1>1. /\ e \in Run /\ e.stage = "idle" /\ e.patch = {} /\ e.cycle = FALSE /\ e.tree = c.tree
      /\ e.recorded = c.recorded /\ e.verdict = c.verdict /\ e.since = c.since
  BY EndIsRun
<1> HIDE DEF e
<1>2. Sound(e, hist')
  BY <1>1 DEF Sound
<1> QED
  BY <1>1, <1>2, OneRunMoves DEF e

LEMMA RecordPatchKeeps == ASSUME Inv, NEW r \in Runs, RecordPatch(r) PROVE Inv'
<1> DEFINE recorded == run[r].recorded \cup run[r].patch
           saved == [run[r] EXCEPT !.recorded = recorded, !.patch = {}]
<1>1. run[r] \in Run /\ Sound(run[r], hist)
  BY DEF Inv
<1>2. recorded \in SUBSET Patches
  BY <1>1 DEF Run
<1> HIDE DEF recorded
<1>3. /\ saved \in Run /\ saved.recorded = recorded /\ saved.patch = {}
      /\ saved.tree = run[r].tree /\ saved.verdict = run[r].verdict
      /\ saved.since = run[r].since /\ saved.stage = run[r].stage
      /\ saved.cycle = run[r].cycle
  BY <1>1, <1>2 DEF Run
<1>4. UNCHANGED <<ws, hist>> /\ run[r].stage = "record"
      /\ run' = [run EXCEPT ![r] = Recorded(run[r], run[r].patch)]
  BY DEF RecordPatch, Inv
<1>5. ws' \in Tree /\ SafeWorkspace(ws', hist') /\ hist' \in Hist /\ Grows(hist, hist')
  BY <1>4, Same, RestingSafe
<1>6. Recorded(run[r], run[r].patch) =
        IF run[r].cycle THEN [saved EXCEPT !.stage = "validate"] ELSE End(saved)
  BY DEF Recorded, recorded
<1> HIDE DEF saved
<1>7. CASE run[r].cycle
  <2> DEFINE c == [saved EXCEPT !.stage = "validate"]
  <2>1. /\ c \in Run /\ c.stage = "validate" /\ c.recorded = recorded /\ c.patch = {}
        /\ c.tree = run[r].tree /\ c.verdict = run[r].verdict /\ c.since = run[r].since
    BY <1>3 DEF Run, Stages
  <2>2. run' = [run EXCEPT ![r] = c]
    BY <1>4, <1>6, <1>7
  <2> HIDE DEF c
  <2>3. Sound(c, hist')
    BY <1>1, <1>4, <2>1 DEF Sound, recorded
  <2> QED
    BY <1>5, <2>1, <2>2, <2>3, OneRunMoves
<1>8. CASE ~run[r].cycle
  <2>1. run' = [run EXCEPT ![r] = End(saved)]
    BY <1>4, <1>6, <1>8
  <2> QED
    BY <1>1, <1>3, <1>4, <1>5, <2>1, EndKeeps DEF Sound, recorded
<1> QED
  BY <1>7, <1>8

LEMMA StartValidationKeeps == ASSUME Inv, NEW r \in Runs, StartValidation(r) PROVE Inv'
<1> DEFINE c == [run[r] EXCEPT !.stage = "validate"]
<1>1. run[r] \in Run /\ Sound(run[r], hist) /\ run[r].patch = {}
  BY DEF Inv, Sound, StartValidation, Idle
<1>2. c \in Run /\ Sound(c, hist)
  BY <1>1 DEF Run, Stages, Sound
<1> HIDE DEF c
<1>3. run' = [run EXCEPT ![r] = c] /\ UNCHANGED ws /\ Called
  BY DEF StartValidation, c
<1>4. Sound(c, hist')
  BY <1>2, <1>3, CallsGrow DEF Sound
<1> QED
  BY <1>2, <1>3, <1>4, CallsGrow, OneRunMoves, RestingSafe

(* A passing verdict is given to a tree no change of which fails.          *)
LEMMA ValidateKeeps == ASSUME Inv, NEW r \in Runs, Validate(r) PROVE Inv'
<1>1. run[r] \in Run /\ Sound(run[r], hist) /\ run[r].patch = {}
  BY DEF Inv, Sound, Validate
<1>2. PICK verdict \in Outcomes(r) :
         LET judged == [run[r] EXCEPT !.verdict = verdict, !.since = {}]
         IN run' = [run EXCEPT ![r] = IF judged.promote /\ verdict = "passed"
                                      THEN [judged EXCEPT !.stage = "court"]
                                      ELSE End(judged)]
  BY DEF Validate
<1>3. verdict \in Verdicts /\ (verdict = "passed" => run[r].tree.has \cap Failing = {})
  BY <1>2 DEF Outcomes, Verdicts
<1> DEFINE judged == [run[r] EXCEPT !.verdict = verdict, !.since = {}]
<1>4. /\ judged \in Run /\ judged.verdict = verdict /\ judged.since = {}
      /\ judged.tree = run[r].tree /\ judged.recorded = run[r].recorded
      /\ judged.patch = {} /\ judged.promote = run[r].promote
  BY <1>1, <1>3 DEF Run
<1>5. UNCHANGED <<ws, hist>>
  BY DEF Validate
<1>6. ws' \in Tree /\ SafeWorkspace(ws', hist') /\ hist' \in Hist /\ Grows(hist, hist')
  BY <1>5, Same, RestingSafe
<1>7. CASE judged.promote /\ verdict = "passed"
  <2> DEFINE c == [judged EXCEPT !.stage = "court"]
  <2>1. run' = [run EXCEPT ![r] = c]
    BY <1>2, <1>7
  <2> HIDE DEF judged
  <2>2. /\ c \in Run /\ c.stage = "court" /\ c.verdict = verdict /\ c.since = {}
        /\ c.tree = run[r].tree /\ c.recorded = run[r].recorded /\ c.patch = {}
    BY <1>4 DEF Run, Stages
  <2> HIDE DEF c
  <2>3. Sound(c, hist')
    BY <1>1, <1>3, <1>5, <1>7, <2>2 DEF Sound
  <2> QED
    BY <1>6, <2>1, <2>2, <2>3, OneRunMoves
<1>8. CASE ~(judged.promote /\ verdict = "passed")
  <2>1. run' = [run EXCEPT ![r] = End(judged)]
    BY <1>2, <1>8
  <2> HIDE DEF judged
  <2> QED
    BY <1>1, <1>3, <1>4, <1>5, <1>6, <2>1, EndKeeps DEF Sound
<1> QED
  BY <1>7, <1>8

(* A call that is given up between two writes, its patch recorded.         *)
LEMMA GivenUp ==
    ASSUME Inv, NEW r \in Runs, run[r].stage # "record",
           run' = [run EXCEPT ![r] = End(run[r])], UNCHANGED <<ws, hist>>
    PROVE  Inv'
<1>1. run[r] \in Run /\ Sound(run[r], hist)
  BY DEF Inv
<1>2. ws' \in Tree /\ SafeWorkspace(ws', hist') /\ hist' \in Hist /\ Grows(hist, hist')
  BY Same, RestingSafe
<1> QED
  BY <1>1, <1>2, EndKeeps DEF Sound

LEMMA CallEndsKeeps ==
    ASSUME Inv, NEW r \in Runs, ValidationRaises(r) \/ Denied(r) \/ Promoted(r)
    PROVE  Inv'
<1>1. run' = [run EXCEPT ![r] = End(run[r])] /\ run[r].stage # "record"
      /\ UNCHANGED <<ws, hist>>
  BY DEF Inv, ValidationRaises, Denied, Promoted
<1> QED
  BY <1>1, GivenUp

LEMMA StartPromotionKeeps == ASSUME Inv, NEW r \in Runs, StartPromotion(r) PROVE Inv'
<1>1. PICK force \in BOOLEAN :
         run' = [run EXCEPT ![r].stage = "court", ![r].force = force]
  BY DEF StartPromotion
<1>2. run[r] \in Run /\ Sound(run[r], hist) /\ run[r].patch = {} /\ ~run[r].cycle
  BY DEF Inv, Sound, StartPromotion, Idle
<1> DEFINE c == [run[r] EXCEPT !.stage = "court", !.force = force]
<1>3. /\ c \in Run /\ c.stage = "court" /\ c.tree = run[r].tree /\ c.patch = {}
      /\ c.recorded = run[r].recorded /\ c.verdict = run[r].verdict
      /\ c.since = run[r].since /\ c.cycle = run[r].cycle
  BY <1>2 DEF Run, Stages
<1>4. run' = [run EXCEPT ![r] = c] /\ UNCHANGED ws /\ Called
  BY <1>1 DEF StartPromotion, Inv
<1> HIDE DEF c
<1>5. Sound(c, hist')
  BY <1>2, <1>3, <1>4, CallsGrow DEF Sound
<1> QED
  BY <1>3, <1>4, <1>5, CallsGrow, OneRunMoves, RestingSafe

(* A grant is approved, and then what the tree holds is excused by Sound,  *)
(* or forced, and then it is excused as a whole.                           *)
LEMMA GrantedKeeps == ASSUME Inv, NEW r \in Runs, Granted(r) PROVE Inv'
<1>1. run[r] \in Run /\ Sound(run[r], hist) /\ run[r].patch = {} /\ run[r].stage = "court"
  BY DEF Inv, Sound, Granted
<1> DEFINE c == [run[r] EXCEPT !.stage = "remove", !.at = 1]
<1>2. 1 \in 1..(Len(Paths) + 1)
  BY PathsAreListed
<1>3. /\ c \in Run /\ c.stage = "remove" /\ c.tree = run[r].tree /\ c.patch = {}
      /\ c.recorded = run[r].recorded /\ c.verdict = run[r].verdict
      /\ c.since = run[r].since /\ c.cycle = run[r].cycle
  BY <1>1, <1>2 DEF Run, Stages
<1>4. run' = [run EXCEPT ![r] = c] /\ UNCHANGED ws
  BY DEF Granted, Inv
<1> HIDE DEF c
<1>5. run[r].tree.has \in SUBSET Changes /\ run[r].since \in SUBSET Changes /\ hist \in Hist
  BY <1>1 DEF Run, Tree, Inv
<1>6. CASE Approved(r)
  <2>1. hist' = [hist EXCEPT !.untested = @ \cup run[r].since]
    BY <1>6 DEF Granted
  <2>2. hist' \in Hist /\ hist'.unvetted = hist.unvetted
        /\ hist'.untested = hist.untested \cup run[r].since
    BY <1>5, <2>1 DEF Hist
  <2>3. Grows(hist, hist')
    BY <2>2 DEF Grows
  <2>4. Sound(c, hist')
    BY <1>1, <1>3, <1>6, <2>2 DEF Sound, Approved, Unfit
  <2> QED
    BY <1>3, <1>4, <2>2, <2>3, <2>4, OneRunMoves, RestingSafe
<1>7. CASE ~Approved(r)
  <2>1. hist' = [hist EXCEPT !.forced = TRUE, !.unvetted = @ \cup run[r].tree.has,
                             !.untested = @ \cup run[r].tree.has]
    BY <1>7 DEF Granted
  <2>2. hist' \in Hist /\ hist'.unvetted = hist.unvetted \cup run[r].tree.has
        /\ hist'.untested = hist.untested \cup run[r].tree.has
    BY <1>5, <2>1 DEF Hist
  <2>3. Grows(hist, hist')
    BY <2>2 DEF Grows
  <2>4. Sound(c, hist')
    BY <1>1, <1>3, <2>2 DEF Sound
  <2> QED
    BY <1>3, <1>4, <2>2, <2>3, <2>4, OneRunMoves, RestingSafe
<1> QED
  BY <1>6, <1>7

LEMMA PathsIndexed ==
    ASSUME NEW i \in 1..(Len(Paths) + 1), i <= Len(Paths)
    PROVE  Paths[i] \in ToSet(Paths) /\ i + 1 \in 1..(Len(Paths) + 1)
BY PathsAreListed DEF ToSet

LEMMA RemoveDstKeeps == ASSUME Inv, NEW r \in Runs, RemoveDst(r) PROVE Inv'
<1>1. run[r] \in Run /\ Sound(run[r], hist) /\ run[r].stage = "remove" /\ ws \in Tree
  BY DEF Inv, RemoveDst
<1> DEFINE path == Paths[run[r].at]
<1>2. run[r].at \in 1..(Len(Paths) + 1) /\ run[r].at <= Len(Paths)
  BY <1>1 DEF Run, RemoveDst
<1>3. path \in ToSet(Paths) /\ run[r].at + 1 \in 1..(Len(Paths) + 1)
  BY <1>2, PathsIndexed
<1>4. hist' = hist /\ hist' \in Hist /\ Grows(hist, hist')
  BY Same DEF RemoveDst
<1>5. CASE run[r].tree.is[path] = "missing"
  <2> DEFINE c == [run[r] EXCEPT !.at = @ + 1]
  <2>1. c \in Run /\ Sound(c, hist)
    BY <1>1, <1>3 DEF Run, Sound
  <2>2. run' = [run EXCEPT ![r] = c] /\ UNCHANGED ws
    BY <1>5 DEF RemoveDst, Inv
  <2> HIDE DEF c
  <2> QED
    BY <1>4, <2>1, <2>2, OneRunMoves, RestingSafe
<1>6. CASE run[r].tree.is[path] # "missing"
  <2> DEFINE c == [run[r] EXCEPT !.stage = "fill"]
             is == [ws.is EXCEPT ![path] = "missing"]
             has == ws.has \ In(ws.has, path)
  <2>1. c \in Run /\ Sound(c, hist)
    BY <1>1, <1>2 DEF Run, Stages, Sound
  <2>2. run' = [run EXCEPT ![r] = c]
    BY <1>6 DEF RemoveDst, Inv
  <2>3. ws' = [ws EXCEPT !.is = is, !.has = has]
    BY <1>1, <1>6 DEF RemoveDst, Tree
  <2>4. is \in [ToSet(Paths) -> Conditions] /\ has \in SUBSET Changes /\ has \subseteq ws.has
    BY <1>1, <1>3 DEF Tree, Conditions
  <2> HIDE DEF c, is, has
  <2>5. ws' \in Tree /\ ws'.has = has
    BY <1>1, <2>3, <2>4 DEF Tree
  <2>6. SafeWorkspace(ws', hist')
    BY <1>4, <2>4, <2>5 DEF SafeWorkspace, Inv
  <2> QED
    BY <1>4, <2>1, <2>2, <2>5, <2>6, OneRunMoves
<1> QED
  BY <1>5, <1>6

(* Copying any part of a tree under promotion into the workspace.          *)
LEMMA FilledWorkspace ==
    ASSUME Inv, NEW r \in Runs, run[r].stage = "fill", NEW path \in ToSet(Paths),
           NEW condition \in Conditions, NEW part \in SUBSET run[r].tree.has,
           ws' = [ws EXCEPT !.is[path] = condition, !.has = @ \cup part]
    PROVE  /\ ws' \in Tree /\ SafeWorkspace(ws', hist)
<1> DEFINE is == [ws.is EXCEPT ![path] = condition]
           has == ws.has \cup part
<1>1. ws \in Tree /\ run[r] \in Run /\ Sound(run[r], hist) /\ SafeWorkspace(ws, hist)
  BY DEF Inv
<1>2. ws' = [ws EXCEPT !.is = is, !.has = has]
  BY <1>1 DEF Tree
<1>3. is \in [ToSet(Paths) -> Conditions] /\ has \in SUBSET Changes
  BY <1>1 DEF Tree, Run
<1> HIDE DEF is
<1>4. ws' \in Tree /\ ws'.has = has
  BY <1>1, <1>2, <1>3 DEF Tree
<1> QED
  BY <1>1, <1>4 DEF SafeWorkspace, Sound

LEMMA CopyDstKeeps == ASSUME Inv, NEW r \in Runs, CopyDst(r) PROVE Inv'
<1>1. run[r] \in Run /\ Sound(run[r], hist) /\ run[r].stage = "fill" /\ run[r].tree \in Tree
  BY DEF Inv, CopyDst, Run
<1> DEFINE path == Paths[run[r].at]
           c == [run[r] EXCEPT !.stage = "remove", !.at = @ + 1]
<1>2. run[r].at \in 1..(Len(Paths) + 1) /\ run[r].at <= Len(Paths)
  BY <1>1 DEF Run, Sound
<1>3. path \in ToSet(Paths) /\ run[r].at + 1 \in 1..(Len(Paths) + 1)
  BY <1>2, PathsIndexed
<1>4. hist' = hist /\ hist' \in Hist /\ Grows(hist, hist')
  BY Same DEF CopyDst
<1>5. c \in Run /\ Sound(c, hist)
  BY <1>1, <1>3 DEF Run, Stages, Sound
<1>6. run' = [run EXCEPT ![r] = c]
  BY DEF CopyDst, Inv
<1>7. run[r].tree.is[path] \in Conditions /\ In(run[r].tree.has, path) \in SUBSET run[r].tree.has
  BY <1>1, <1>3 DEF Tree, In
<1>8. ws' = [ws EXCEPT !.is[path] = run[r].tree.is[path],
                       !.has = @ \cup In(run[r].tree.has, path)]
  BY DEF CopyDst
<1> HIDE DEF path, c
<1>9. ws' \in Tree /\ SafeWorkspace(ws', hist)
  BY <1>1, <1>3, <1>7, <1>8, FilledWorkspace
<1> QED
  BY <1>4, <1>5, <1>6, <1>9, OneRunMoves

(* A patch whose process dies before it is recorded is excused.            *)
LEMMA CrashKeeps == ASSUME Inv, NEW r \in Runs, Crash(r) PROVE Inv'
<1>1. run[r] \in Run /\ Sound(run[r], hist) /\ hist \in Hist
  BY DEF Inv
<1>2. run' = [run EXCEPT ![r] = End(run[r])]
      /\ hist' = [hist EXCEPT !.unvetted = @ \cup run[r].patch]
  BY DEF Crash, Inv
<1>3. run[r].patch \in SUBSET Changes
  BY <1>1 DEF Run, Changes
<1>4. hist' \in Hist /\ hist'.unvetted = hist.unvetted \cup run[r].patch
      /\ hist'.untested = hist.untested
  BY <1>1, <1>2, <1>3 DEF Hist
<1>5. Grows(hist, hist')
  BY <1>4 DEF Grows
<1>6. ws' \in Tree /\ SafeWorkspace(ws', hist')
  <2>1. CASE UNCHANGED ws
    BY <1>4, <1>5, <2>1, RestingSafe
  <2>2. CASE ~UNCHANGED ws
    <3> DEFINE path == Paths[run[r].at]
    <3>1. PICK part \in SUBSET In(run[r].tree.has, path) :
             ws' = [ws EXCEPT !.is[path] = "torn", !.has = @ \cup part]
      BY <2>2 DEF Crash
    <3>2. run[r].stage = "fill"
      BY <2>2 DEF Crash
    <3>3. path \in ToSet(Paths)
      BY <1>1, <3>2, PathsIndexed DEF Run, Sound
    <3>4. part \in SUBSET run[r].tree.has
      BY DEF In
    <3> HIDE DEF path
    <3>5. ws' \in Tree /\ SafeWorkspace(ws', hist)
      BY <3>1, <3>2, <3>3, <3>4, FilledWorkspace DEF Conditions
    <3> QED
      BY <1>5, <3>5 DEF SafeWorkspace, Grows
  <2> QED
    BY <2>1, <2>2
<1> QED
  BY <1>1, <1>2, <1>4, <1>5, <1>6, EndKeeps DEF Sound

LEMMA InvStep == Inv /\ [Next]_vars => Inv'
<1> SUFFICES ASSUME Inv, [Next]_vars PROVE Inv'
  OBVIOUS
<1>1. CASE UNCHANGED vars
  BY <1>1 DEF vars, Inv, Sound, SafeWorkspace
<1>2. ASSUME NEW r \in Runs, Call(r) PROVE Inv'
  BY <1>2, ScaffoldKeeps, EditCommandsKeeps, ForceValidationFailureKeeps, InjectFaultKeeps,
     ApplyPatchKeeps, RecordPatchKeeps, StartValidationKeeps, ValidateKeeps, CallEndsKeeps,
     StartPromotionKeeps, GrantedKeeps, RemoveDstKeeps, CopyDstKeeps, CrashKeeps DEF Call
<1> QED
  BY <1>1, <1>2 DEF Next

LEMMA InvAlways == Spec => []Inv
BY InvInit, InvStep, PTL DEF Spec

-----------------------------------------------------------------------------
(* The theorems.                                                           *)

(* The run directories, the calls and the workspace are well formed, and   *)
(* the manifest records no patch that is not in the worktree.              *)
THEOREM TypeCorrect == Spec => []TypeOK
<1>1. Inv => TypeOK
  BY DEF Inv, TypeOK, Hist, Sound
<1> QED
  BY <1>1, InvAlways, PTL

(* Nothing the court denies reaches the workspace unexcused.               *)
THEOREM WorkspaceVetted == Spec => []VettedWorkspace
<1>1. Inv => VettedWorkspace
  BY DEF Inv, SafeWorkspace, VettedWorkspace, Unfit
<1> QED
  BY <1>1, InvAlways, PTL

(* A failing change reaches the workspace by force or on a stale verdict.  *)
THEOREM WorkspacePasses == Spec => []PassingWorkspace
<1>1. Inv => PassingWorkspace
  BY DEF Inv, SafeWorkspace, PassingWorkspace
<1> QED
  BY <1>1, InvAlways, PTL

(* execute_cycle promotes only a tree that passed as it stands.            *)
THEOREM CyclePasses == Spec => []CyclePromotesPassing
<1>1. Inv => CyclePromotesPassing
  BY DEF Inv, Sound, CyclePromotesPassing
<1> QED
  BY <1>1, InvAlways, PTL

(* What promotions bring into the workspace, and what a cycle promotes,    *)
(* has passed.                                                             *)
THEOREM PromotedPass == Spec => []PromotedPasses
BY WorkspacePasses, CyclePasses, PTL DEF PromotedPasses
-----------------------------------------------------------------------------
(***************************************************************************)
(* What a promotion that dies can destroy.  LostIsKeptInRun says nothing   *)
(* of trees that were scaffolded from a torn workspace; the invariant is   *)
(* about the first worktree of each directory instead: as soon as there is *)
(* a run, every directory is whole in some run, since the first was copied *)
(* from a workspace nothing had promoted to.                               *)
(***************************************************************************)
Untouched ==
    /\ \A r \in Runs : ~run[r].made
    /\ \A p \in ToSet(Paths) : ws.is[p] = "whole"

SomeRunKeeps ==
    \A p \in ToSet(Paths) : \E r \in Runs : run[r].made /\ run[r].tree.is[p] = "whole"

CopiesAreKept ==
    /\ \A r \in Runs : run[r].stage # "idle" => run[r].made
    /\ Untouched \/ SomeRunKeeps

(* A step that only moves the call of a run: it changes no worktree, and   *)
(* the workspace only when there is a run.                                 *)
LEMMA CallKeepsCopies ==
    ASSUME Inv, CopiesAreKept, NEW r \in Runs, NEW c \in Run,
           run' = [run EXCEPT ![r] = c], run[r].made,
           c.made = run[r].made, c.tree.is = run[r].tree.is
    PROVE  CopiesAreKept'
<1>1. \A q \in Runs : run'[q].made = run[q].made /\ run'[q].tree.is = run[q].tree.is
  BY DEF Inv
<1>2. \A q \in Runs : run'[q].stage # "idle" => run'[q].made
  BY <1>1 DEF Inv, CopiesAreKept
<1>3. SomeRunKeeps
  BY DEF CopiesAreKept, Untouched
<1>4. SomeRunKeeps'
  BY <1>1, <1>3 DEF SomeRunKeeps
<1> QED
  BY <1>2, <1>4 DEF CopiesAreKept

(* A worktree is whole where the workspace was.                            *)
LEMMA ScaffoldKeepsCopies ==
    ASSUME Inv, CopiesAreKept, NEW r \in Runs, Scaffold(r)
    PROVE  CopiesAreKept'
<1> DEFINE c == [Unmade EXCEPT !.made = TRUE, !.tree = ws]
<1>1. c.made /\ c.tree = ws /\ c.stage = "idle"
  BY DEF Unmade
<1> HIDE DEF c
<1>2. run' = [run EXCEPT ![r] = c] /\ ~run[r].made /\ run \in [Runs -> Run]
  BY DEF Scaffold, c, Inv
<1>3. run'[r] = c /\ \A q \in Runs : q # r => run'[q] = run[q]
  BY <1>2
<1>4. \A q \in Runs : run'[q].stage # "idle" => run'[q].made
  BY <1>1, <1>3 DEF CopiesAreKept
<1>5. ASSUME Untouched PROVE SomeRunKeeps'
  BY <1>1, <1>3, <1>5 DEF Untouched, SomeRunKeeps
<1>6. ASSUME SomeRunKeeps PROVE SomeRunKeeps'
  <2>1. ASSUME NEW p \in ToSet(Paths)
        PROVE  \E q \in Runs : run'[q].made /\ run'[q].tree.is[p] = "whole"
    <3>1. PICK q \in Runs : run[q].made /\ run[q].tree.is[p] = "whole"
      BY <1>6 DEF SomeRunKeeps
    <3>2. run'[q] = run[q]
      BY <1>2, <1>3, <3>1
    <3> QED
      BY <3>1, <3>2
  <2> QED
    BY <2>1 DEF SomeRunKeeps
<1>7. SomeRunKeeps'
  BY <1>5, <1>6 DEF CopiesAreKept
<1> QED
  BY <1>4, <1>7 DEF CopiesAreKept

(* What a call leaves of its run: the worktree's directories.              *)
LEMMA CallsKeepTrees ==
    ASSUME Inv, NEW r \in Runs, Call(r), ~Scaffold(r)
    PROVE  /\ run[r].made \/ run[r].stage # "idle"
           /\ \E c \in Run : /\ run' = [run EXCEPT ![r] = c]
                             /\ c.made = run[r].made
                             /\ c.tree.is = run[r].tree.is
<1>0. run \in [Runs -> Run] /\ run[r] \in Run /\ run'[r] \in Run
  BY InvStep DEF Next, Inv
<1>1. run[r].made \/ run[r].stage # "idle"
  BY DEF Call, EditCommands, InjectFault, ForceValidationFailure, ApplyPatch, RecordPatch,
         StartValidation, Validate, ValidationRaises, StartPromotion, Denied, Granted,
         RemoveDst, CopyDst, Promoted, Crash, Idle
<1>2. ASSUME NEW c, run' = [run EXCEPT ![r] = c], c.made = run[r].made,
             c.tree.is = run[r].tree.is
      PROVE  \E d \in Run : /\ run' = [run EXCEPT ![r] = d]
                            /\ d.made = run[r].made
                            /\ d.tree.is = run[r].tree.is
  BY <1>0, <1>2
<1> DEFINE Goal == \E c \in Run : /\ run' = [run EXCEPT ![r] = c]
                                  /\ c.made = run[r].made
                                  /\ c.tree.is = run[r].tree.is
<1>3. \A x : /\ ChangeTree(r, x).made = run[r].made
             /\ ChangeTree(r, x).tree.is = run[r].tree.is
  BY <1>0 DEF ChangeTree, Run, Tree
<1>4. /\ End(run[r]).made = run[r].made
      /\ End(run[r]).tree.is = run[r].tree.is
  BY <1>0 DEF End, Run
<1>5. ASSUME EditCommands(r) PROVE Goal
  <2>1. run' = [run EXCEPT ![r] = [run[r] EXCEPT !.commands = "own"]]
    BY <1>0, <1>5 DEF EditCommands
  <2> QED
    BY <1>0, <1>2, <2>1 DEF Run
<1>6. ASSUME InjectFault(r) PROVE Goal
  <2>1. PICK fault \in Faults : run' = [run EXCEPT ![r] = ChangeTree(r, fault)]
    BY <1>6 DEF InjectFault
  <2> QED
    BY <1>2, <1>3, <2>1
<1>7. ASSUME ForceValidationFailure(r) PROVE Goal
  <2>1. run' = [run EXCEPT ![r] = [run[r] EXCEPT !.commands = "failing"]]
    BY <1>0, <1>7 DEF ForceValidationFailure
  <2> QED
    BY <1>0, <1>2, <2>1 DEF Run
<1>8. ASSUME ApplyPatch(r) PROVE Goal
  <2>1. PICK patch \in Patches, cycle, promote, force \in BOOLEAN :
          run' = [run EXCEPT ![r] =
                       [ChangeTree(r, patch) EXCEPT
                          !.stage = "record", !.patch = {patch},
                          !.cycle = cycle, !.promote = promote, !.force = force]]
    BY <1>8 DEF ApplyPatch
  <2> DEFINE c == [ChangeTree(r, patch) EXCEPT
                          !.stage = "record", !.patch = {patch},
                          !.cycle = cycle, !.promote = promote, !.force = force]
  <2>2. c.made = run[r].made /\ c.tree.is = run[r].tree.is
    BY <1>0 DEF ChangeTree, Run, Tree
  <2> HIDE DEF c
  <2>3. run' = [run EXCEPT ![r] = c]
    BY <2>1 DEF c
  <2> QED
    BY <1>2, <2>2, <2>3
<1>9. ASSUME RecordPatch(r) PROVE Goal
  <2> DEFINE c == Recorded(run[r], run[r].patch)
  <2>1. c.made = run[r].made /\ c.tree.is = run[r].tree.is
    BY <1>0 DEF Recorded, End, Run
  <2> HIDE DEF c
  <2>2. run' = [run EXCEPT ![r] = c]
    BY <1>0, <1>9 DEF RecordPatch, c
  <2> QED
    BY <1>2, <2>1, <2>2
<1>10. ASSUME StartValidation(r) PROVE Goal
  <2>1. run' = [run EXCEPT ![r] = [run[r] EXCEPT !.stage = "validate"]]
    BY <1>0, <1>10 DEF StartValidation
  <2> QED
    BY <1>0, <1>2, <2>1 DEF Run
<1>11. ASSUME Validate(r) PROVE Goal
  <2>1. PICK verdict \in Outcomes(r) :
          LET judged == [run[r] EXCEPT !.verdict = verdict, !.since = {}]
          IN run' = [run EXCEPT ![r] = IF judged.promote /\ verdict = "passed"
                                       THEN [judged EXCEPT !.stage = "court"]
                                       ELSE End(judged)]
    BY <1>11 DEF Validate
  <2> DEFINE judged == [run[r] EXCEPT !.verdict = verdict, !.since = {}]
             c == IF judged.promote /\ verdict = "passed"
                  THEN [judged EXCEPT !.stage = "court"] ELSE End(judged)
  <2>2. c.made = run[r].made /\ c.tree.is = run[r].tree.is
    BY <1>0 DEF End, Run
  <2>3. run' = [run EXCEPT ![r] = c]
    BY <2>1
  <2> HIDE DEF c
  <2> QED
    BY <1>2, <2>2, <2>3
<1>12. ASSUME ValidationRaises(r) \/ Denied(r) \/ Promoted(r) \/ Crash(r) PROVE Goal
  <2>1. run' = [run EXCEPT ![r] = End(run[r])]
    BY <1>0, <1>12 DEF ValidationRaises, Denied, Promoted, Crash
  <2> QED
    BY <1>2, <1>4, <2>1
<1>13. ASSUME StartPromotion(r) PROVE Goal
  <2>1. PICK force \in BOOLEAN :
          run' = [run EXCEPT ![r] = [run[r] EXCEPT !.stage = "court", !.force = force]]
    BY <1>0, <1>13 DEF StartPromotion
  <2> QED
    BY <1>0, <1>2, <2>1 DEF Run
<1>14. ASSUME Granted(r) PROVE Goal
  <2>1. run' = [run EXCEPT ![r] = [run[r] EXCEPT !.stage = "remove", !.at = 1]]
    BY <1>0, <1>14 DEF Granted
  <2> QED
    BY <1>0, <1>2, <2>1 DEF Run
<1>15. ASSUME RemoveDst(r) PROVE Goal
  <2>1. \/ run' = [run EXCEPT ![r] = [run[r] EXCEPT !.at = @ + 1]]
        \/ run' = [run EXCEPT ![r] = [run[r] EXCEPT !.stage = "fill"]]
    BY <1>0, <1>15 DEF RemoveDst
  <2> QED
    BY <1>0, <1>2, <2>1 DEF Run
<1>16. ASSUME CopyDst(r) PROVE Goal
  <2>1. run' = [run EXCEPT ![r] = [run[r] EXCEPT !.stage = "remove", !.at = @ + 1]]
    BY <1>0, <1>16 DEF CopyDst
  <2> QED
    BY <1>0, <1>2, <2>1 DEF Run
<1>17. Goal
  <2> HIDE DEF Goal
  <2> QED
    BY <1>5, <1>6, <1>7, <1>8, <1>9, <1>10, <1>11, <1>12, <1>13, <1>14, <1>15, <1>16 DEF Call
<1> QED
  BY <1>1, <1>17

LEMMA CopiesStep == Inv /\ CopiesAreKept /\ [Next]_vars => CopiesAreKept'
<1> SUFFICES ASSUME Inv, CopiesAreKept, [Next]_vars PROVE CopiesAreKept'
  OBVIOUS
<1>1. CASE UNCHANGED vars
  BY <1>1 DEF vars, CopiesAreKept, Untouched, SomeRunKeeps
<1>2. ASSUME NEW r \in Runs, Call(r), ~Scaffold(r) PROVE CopiesAreKept'
  <2>1. run[r].made
    BY <1>2, CallsKeepTrees DEF CopiesAreKept
  <2>2. PICK c \in Run : /\ run' = [run EXCEPT ![r] = c]
                         /\ c.made = run[r].made
                         /\ c.tree.is = run[r].tree.is
    BY <1>2, CallsKeepTrees
  <2> QED
    BY <2>1, <2>2, CallKeepsCopies
<1> QED
  BY <1>1, <1>2, ScaffoldKeepsCopies DEF Next

(* A directory that a promotion which died took from the workspace is      *)
(* whole in some run, for any number of runs, promotions and crashes.      *)
THEOREM LostIsKept == Spec => []LostIsKeptInRun
<1>1. Init => CopiesAreKept
  <2> SUFFICES ASSUME Init PROVE CopiesAreKept
    OBVIOUS
  <2>1. \A r \in Runs : ~run[r].made /\ run[r].stage = "idle"
    BY DEF Init, Unmade
  <2>2. \A p \in ToSet(Paths) : ws.is[p] = "whole"
    BY DEF Init
  <2> QED
    BY <2>1, <2>2 DEF CopiesAreKept, Untouched
<1>2. CopiesAreKept => LostIsKeptInRun
  BY DEF CopiesAreKept, Untouched, SomeRunKeeps, LostIsKeptInRun
<1> QED
  BY <1>1, <1>2, InvAlways, CopiesStep, PTL DEF Spec
=============================================================================
