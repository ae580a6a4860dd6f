------------------------------- MODULE AGILoop -------------------------------
(***************************************************************************)
(* The autonomous loop: its ticks, run by a background thread or by        *)
(* tick_once, and the operator who starts, stops, freezes and thaws it and *)
(* adds goals while a tick is under way.                                   *)
(*                                                                         *)
(* A tick synthesizes goals, reflects every few ticks, acts on the current *)
(* goal unless frozen, and ends with the drift detector's evaluation.      *)
(* Parts of a tick that only fill its report or the world model are left   *)
(* out; the loop is configured to run without a tick limit.                *)
(***************************************************************************)
EXTENDS GoalEngine, DriftDetector

CONSTANTS
    Rules,        \* synthesis rules; auto: the rule has an auto_complete
    MaxActive,    \* max_active_synthesized
    ReflectEvery, \* reflect_every_n
    OperatorGoals, \* goals the operator may add
    FileBacked    \* the kernel's log has a database, opened by the main thread

ASSUME LoopConstants ==
    /\ Rules \subseteq [name : STRING, priority : Nat, kind : Kinds, auto : BOOLEAN]
    /\ IsFiniteSet(Rules) /\ Rules # {} /\ \A r, q \in Rules : r.name = q.name => r = q
    /\ OperatorGoals \subseteq [priority : Nat, kind : Kinds, origin : {"operator"}]
    /\ MaxActive \in Nat /\ ReflectEvery \in Nat \ {0} /\ FileBacked \in BOOLEAN

VARIABLES
    goals,  \* runtime.goals
    det,    \* drift_detector
    active, \* goal_synthesizer: for each rule, its goals not auto-completed
    loop,   \* the thread and its tick
    ctl,    \* what the operator sets and the callbacks change
    hist    \* history, for the properties

vars == <<goals, det, active, loop, ctl, hist>>

StabilizeGoal == [priority |-> 99, kind |-> "shell", origin |-> "drift"]
RealignGoal == [priority |-> 85, kind |-> "unknown", origin |-> "reflection"]
SynthesizedGoal(r) == [priority |-> r.priority, kind |-> r.kind, origin |-> r.name]
Goals == {StabilizeGoal, RealignGoal} \cup OperatorGoals \cup {SynthesizedGoal(r) : r \in Rules}

Stages == {"idle", "reflect", "check", "act", "drift"}

TypeOK ==
    /\ goals \in Seq(Goals) /\ Len(goals) <= MaxGoals /\ IsOrdered(goals)
    /\ det \in Detector
    /\ active \in [Rules -> Nat]
    /\ loop \in [thread : BOOLEAN, \* the background thread is alive; else tick_once ticks
                 stage : Stages, cycle : 0..(ReflectEvery - 1)]
    /\ ctl \in [frozen : BOOLEAN,   \* _frozen
                stop : BOOLEAN,     \* _stop_event
                thawing : BOOLEAN,  \* thaw() has seen the detector clear
                callback : BOOLEAN] \* on_drift_alert was given: no default alert
    /\ hist \in [acts : Nat, quiet : Nat, byOperator : BOOLEAN]

Init ==
    /\ goals = <<>>
    /\ det = NewDetector
    /\ active = [r \in Rules |-> 0]
    /\ loop = [thread |-> FALSE, stage |-> "idle", cycle |-> 0]
    /\ \E callback \in BOOLEAN :
          ctl = [frozen |-> FALSE, stop |-> FALSE, thawing |-> FALSE, callback |-> callback]
    /\ hist = [acts |-> 0, quiet |-> 0, byOperator |-> FALSE]

-----------------------------------------------------------------------------
(* Ticks.                                                                  *)

ActiveGoals(counts) ==
    LET order == SetToSeq(Rules)
        sum[n \in 0..Len(order)] == IF n = 0 THEN 0 ELSE sum[n - 1] + counts[order[n]]
    IN sum[Len(order)]

AddSynthesized(gs, rules) ==
    LET order == SetToSeq(rules)
        added[n \in 0..Len(order)] ==
          IF n = 0 THEN gs ELSE AddGoal(added[n - 1], SynthesizedGoal(order[n]))
    IN added[Len(order)]

\* GoalSynthesizer.tick, with the rules whose trigger is over and those that
\* are ready and fire: the cap is looked at once, before any of them.
SynthesizeGoals(over, firing) ==
    LET left == [r \in Rules |-> IF r \in over THEN 0 ELSE active[r]]
        fired == IF ActiveGoals(left) >= MaxActive THEN {} ELSE firing
    IN /\ active' = [r \in Rules |-> left[r] + (IF r \in fired THEN 1 ELSE 0)]
       /\ goals' = AddSynthesized(CompleteGoals(goals, {r.name : r \in over}), fired)

\* SynthesisRules has the conditions of both sets; a rule may be in both.
BeginTick ==
    /\ loop.stage = "idle"
    /\ \E over \in SUBSET {r \in Rules : r.auto} : \E firing \in SUBSET Rules :
          SynthesizeGoals(over, firing)
    /\ loop' = [loop EXCEPT !.stage = "reflect"]
    /\ UNCHANGED <<det, ctl, hist>>

\* _run: the stop event is looked at between ticks.
ThreadTick == loop.thread /\ ~ctl.stop /\ BeginTick

ThreadEnds ==
    /\ loop.stage = "idle" /\ loop.thread /\ ctl.stop
    /\ loop' = [loop EXCEPT !.thread = FALSE]
    /\ UNCHANGED <<goals, det, active, ctl, hist>>

\* tick_once, while the background thread is not running.
TickOnce == ~loop.thread /\ BeginTick

\* What a reflection may come to, by a model or by the heuristic that stands
\* in for it: the composite of the three scores, and whether the alignment
\* with the directives is not low.
Reports == [score : Scores, aligned : BOOLEAN]

\* The score goes to the detector, frozen or not.
SideEffects(report) ==
    /\ det' = FeedCriticScore(det, report.score)
    /\ goals' = IF report.aligned THEN goals ELSE AddGoal(goals, RealignGoal)

\* ReflectionService.tick
Reflect ==
    /\ loop.stage = "reflect"
    /\ loop' = [loop EXCEPT !.stage = "check", !.cycle = (@ + 1) % ReflectEvery]
    /\ IF loop'.cycle # 0 THEN UNCHANGED <<goals, det>>
       ELSE \E report \in Reports : SideEffects(report)
    /\ UNCHANGED <<active, ctl, hist>>

\* Mutant: is_frozen without the flag of the operator.
FrozenByDrift == det.drift

IsFrozen == ctl.frozen \/ det.drift

CheckFrozen ==
    /\ loop.stage = "check"
    /\ loop' = [loop EXCEPT !.stage = IF IsFrozen THEN "drift" ELSE "act"]
    /\ UNCHANGED <<goals, det, active, ctl, hist>>

Idle ==
    /\ loop.stage = "act" /\ goals = <<>>
    /\ loop' = [loop EXCEPT !.stage = "drift"]
    /\ UNCHANGED <<goals, det, active, ctl, hist>>

\* Only the thread that opened the database may append to it.
CanAppend == FileBacked => ~loop.thread

CountAct == hist' = [hist EXCEPT !.acts = IF ctl.frozen THEN @ + 1 ELSE 0]

\* Mutant: the status of an approval is misspelt.
SettleConfirmed(answer) ==
    goals' = IF answer = "confirmed" THEN CompleteCurrent(goals) ELSE goals

\* PersistentLoop.tick completes the goal on approval only.
Settle(answer) ==
    goals' = IF answer = "approve" THEN CompleteCurrent(goals) ELSE goals

\* handle() and, unless it was denied, the critique and the detector's food.
Act ==
    /\ loop.stage = "act" /\ goals # <<>> /\ CanAppend
    /\ \E answer \in Answers(Head(goals).kind) \ {"raised"} :
          /\ Settle(answer)
          /\ IF answer = "denied" THEN UNCHANGED det
             ELSE \E score \in Scores :
                     det' = FeedGoalCompleted(FeedCriticScore(det, score), answer = "approve")
    /\ loop' = [loop EXCEPT !.stage = "drift"]
    /\ CountAct
    /\ UNCHANGED <<active, ctl>>

\* An exception leaves the tick: the rest of it, the drift check too, is skipped.
ActRaises ==
    /\ loop.stage = "act" /\ goals # <<>>
    /\ CanAppend => "raised" \in Answers(Head(goals).kind)
    /\ loop' = [loop EXCEPT !.stage = "idle"]
    /\ CountAct
    /\ UNCHANGED <<goals, det, active, ctl>>

Callbacks ==
    CASE Alerts(det) -> ctl' = [ctl EXCEPT !.frozen = @ \/ ~ctl.callback]
      [] Clears(det) -> ctl' = [ctl EXCEPT !.frozen = FALSE]
      [] OTHER -> UNCHANGED ctl

DriftTick ==
    /\ loop.stage = "drift"
    /\ det' = AfterTick(det)
    /\ goals' = IF Alerts(det) THEN AddGoal(goals, StabilizeGoal) ELSE goals
    /\ Callbacks
    /\ loop' = [loop EXCEPT !.stage = "idle"]
    /\ hist' = [hist EXCEPT
                  !.quiet = IF det'.drift /\ ~AnyBreached(det) THEN @ + 1 ELSE 0,
                  !.acts = IF Clears(det) THEN 0 ELSE @]
    /\ UNCHANGED active

-----------------------------------------------------------------------------
(* The operator's thread.                                                  *)

outside == <<det, active>>

AddOperatorGoal ==
    /\ \E goal \in OperatorGoals : goals' = AddGoal(goals, goal)
    /\ UNCHANGED <<loop, ctl, hist, outside>>

\* start() does nothing while the thread is alive, even one about to end.
Start ==
    /\ ~loop.thread /\ loop.stage = "idle"
    /\ loop' = [loop EXCEPT !.thread = TRUE]
    /\ ctl' = [ctl EXCEPT !.stop = FALSE]
    /\ UNCHANGED <<goals, hist, outside>>

\* stop() sets the event; its join may time out before the tick is over.
\* Without a thread it changes nothing: start() clears the event.
Stop ==
    /\ loop.thread /\ ~ctl.stop
    /\ ctl' = [ctl EXCEPT !.stop = TRUE]
    /\ UNCHANGED <<goals, loop, hist, outside>>

Freeze ==
    /\ ctl' = [ctl EXCEPT !.frozen = TRUE]
    /\ hist' = [hist EXCEPT !.byOperator = TRUE]
    /\ UNCHANGED <<goals, loop, outside>>

\* thaw() looks at the detector and then clears the flag.
ThawCheck ==
    /\ ~ctl.thawing /\ ctl.frozen /\ ~det.drift
    /\ ctl' = [ctl EXCEPT !.thawing = TRUE]
    /\ UNCHANGED <<goals, loop, hist, outside>>

Thaw ==
    /\ ctl.thawing
    /\ ctl' = [ctl EXCEPT !.thawing = FALSE, !.frozen = FALSE]
    /\ hist' = [hist EXCEPT !.byOperator = FALSE, !.acts = 0]
    /\ UNCHANGED <<goals, loop, outside>>

-----------------------------------------------------------------------------

Tick ==
    \/ ThreadTick \/ ThreadEnds \/ Reflect \/ CheckFrozen
    \/ Idle \/ Act \/ ActRaises \/ DriftTick

Operator ==
    TickOnce \/ AddOperatorGoal \/ Start \/ Stop \/ Freeze \/ ThawCheck \/ Thaw

Next == Tick \/ Operator

Spec == Init /\ [][Next]_vars

\* Threads run: a tick under way, and the ticks of a started loop, go on.
FairSpec == Spec /\ WF_vars(Tick)

-----------------------------------------------------------------------------
(* Properties.                                                             *)

Acts == loop.stage = "act" /\ loop'.stage # "act" /\ goals # <<>>

(* No goal is acted on while drift is detected, whoever froze or thawed    *)
(* the loop meanwhile and whether or not a callback replaced the default.  *)
NoActWhileDrifting == [][Acts => ~det.drift]_vars

(* freeze() is prompt: at most the goal of a tick already past its check   *)
(* is still acted on.                                                      *)
FreezeIsPrompt == hist.acts <= 1

(* Drift is lifted only after ClearWindow evaluations in a row, the last   *)
(* ones, in which no signal was breached.                                  *)
ClearsAfterQuiet ==
    [][det.drift /\ ~det'.drift => ~AnyBreached(det) /\ hist.quiet + 1 >= ClearWindow]_vars

(* A drift due to the completion rate is never lifted: the frozen loop     *)
(* completes nothing that could raise the rate, and thaw() refuses.        *)
CompletionDriftStays ==
    [][det.drift /\ CompletionsBreached(det) => det'.drift /\ CompletionsBreached(det')]_vars

(* The synthesizer overshoots its cap by less than its number of rules.    *)
SynthesizedIsBounded == ActiveGoals(active) < MaxActive + Cardinality(Rules)

(* The state is well formed, with what the synthesizer adds to it.         *)
WellFormed == TypeOK /\ SynthesizedIsBounded

(* A freeze and drift both end the acting: no step acts on a goal while    *)
(* drift is detected, nor on a second one since freeze() was called.       *)
ActsAreAllowed == [][Acts => ~det.drift /\ hist'.acts <= 1]_vars

(* Drift is lifted when it should be and stays when it must.               *)
DriftIsSteady == ClearsAfterQuiet /\ CompletionDriftStays

(* While the loop runs unfrozen and the current goal is one handle()       *)
(* approves, goals keep being completed.  With a log on disk the code      *)
(* breaks it: the thread may not use the connection that another opened.   *)
CurrentGoalsComplete ==
    <>[](/\ loop.thread /\ ~IsFrozen
         /\ goals # <<>> /\ Head(goals).kind = "simple")
        => []<><<goals # <<>> /\ goals' = CompleteCurrent(goals)>>_goals

(* "Unfreeze (requires DriftDetector to be clear)": only thaw() ends the   *)
(* operator's freeze.  The code breaks it: a drift that clears thaws too.  *)
OperatorFreezeIsKept == hist.byOperator => IsFrozen
=============================================================================
