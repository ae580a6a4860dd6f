---------------------------- MODULE AGILoopProofs ----------------------------
(***************************************************************************)
(* Theorems about the loop, for windows, thresholds and goal lists of any  *)
(* size and any set of synthesis rules, and about the default rules.  The  *)
(* last part, on the shape of the state, is the one that needs the lists;  *)
(* the others keep what is said of a freeze and of drift free of them.     *)
(***************************************************************************)
EXTENDS AGILoop, SynthesisRules, SequenceTheorems, FiniteSetTheorems, NaturalsInduction,
        WellFoundedInduction, TLAPS

Windows == [critic : Seq(Scores), completions : Seq(BOOLEAN), drift : BOOLEAN, streak : Nat]

LEMMA RollIsSeq ==
    ASSUME NEW S, NEW window \in Seq(S), NEW entry \in S
    PROVE  Roll(window, entry) \in Seq(S)
<1>1. Append(window, entry) \in Seq(S) /\ Append(window, entry) # <<>>
  BY AppendProperties
<1>2. Tail(Append(window, entry)) \in Seq(S)
  BY <1>1, HeadTailProperties
<1> QED
  BY <1>1, <1>2 DEF Roll

(* Feeding a score changes no flag, no streak and no completion.           *)
LEMMA FeedScore ==
    ASSUME NEW d \in Windows, NEW score \in Scores
    PROVE  LET f == FeedCriticScore(d, score)
           IN /\ f \in Windows /\ f.drift = d.drift /\ f.streak = d.streak
              /\ f.completions = d.completions
<1>1. Roll(d.critic, score) \in Seq(Scores)
  BY RollIsSeq DEF Windows
<1> QED
  BY <1>1 DEF FeedCriticScore, Windows

(* Feeding a completion changes no flag and no streak.                     *)
LEMMA FeedCompletion ==
    ASSUME NEW d \in Windows, NEW completed \in BOOLEAN
    PROVE  LET f == FeedGoalCompleted(d, completed)
           IN f \in Windows /\ f.drift = d.drift /\ f.streak = d.streak
<1>1. Roll(d.completions, completed) \in Seq(BOOLEAN)
  BY RollIsSeq DEF Windows
<1> QED
  BY <1>1 DEF FeedGoalCompleted, Windows

(* What an evaluation makes of the flag and the streak.                    *)
LEMMA TickChanges ==
    ASSUME NEW d \in Windows
    PROVE  /\ AfterTick(d) \in Windows
           /\ AfterTick(d).completions = d.completions
           /\ AnyBreached(d) => AfterTick(d).drift /\ AfterTick(d).streak = 0
           /\ ~AnyBreached(d) /\ AfterTick(d).drift =>
                 d.drift /\ AfterTick(d).streak = d.streak + 1
           /\ ~AnyBreached(d) /\ d.drift /\ ~AfterTick(d).drift =>
                 d.streak + 1 >= ClearWindow
<1> DEFINE Leaves(drift, streak) ==
             AfterTick(d) = [d EXCEPT !.drift = drift, !.streak = streak]
<1>0. d.drift \in BOOLEAN /\ d.streak \in Nat /\ d.streak + 1 \in Nat
  BY DEF Windows
<1>1. ASSUME NEW drift \in BOOLEAN, NEW streak \in Nat, Leaves(drift, streak)
      PROVE  /\ AfterTick(d) \in Windows /\ AfterTick(d).completions = d.completions
             /\ AfterTick(d).drift = drift /\ AfterTick(d).streak = streak
  BY <1>1 DEF Windows
<1>2. CASE AnyBreached(d)
  <2>1. Leaves(TRUE, 0)
    BY <1>2 DEF AfterTick
  <2> QED
    BY <1>1, <1>2, <2>1
<1>3. CASE ~AnyBreached(d) /\ ~d.drift
  <2>1. AfterTick(d) = d
    BY <1>3 DEF AfterTick
  <2> QED
    BY <1>3, <2>1
<1>4. CASE ~AnyBreached(d) /\ d.drift /\ d.streak + 1 >= ClearWindow
  <2>1. Leaves(FALSE, 0)
    BY <1>4 DEF AfterTick
  <2> QED
    BY <1>1, <1>4, <2>1
<1>5. CASE ~AnyBreached(d) /\ d.drift /\ ~(d.streak + 1 >= ClearWindow)
  <2>1. Leaves(d.drift, d.streak + 1)
    BY <1>5, <1>0 DEF AfterTick, Windows
  <2> QED
    BY <1>0, <1>1, <1>5, <2>1
<1> QED
  BY <1>2, <1>3, <1>4, <1>5

-----------------------------------------------------------------------------
(***************************************************************************)
(* The invariant.  The frozen check and the drift tick are steps of one    *)
(* thread, so a tick that got past the check finds the detector unchanged; *)
(* the operator's flag may be set meanwhile, but then the tick's goal is   *)
(* the only one.  The streak counts the quiet evaluations of a drift.      *)
(***************************************************************************)
LoopInv ==
    /\ det \in Windows
    /\ loop \in [thread : BOOLEAN, stage : Stages, cycle : Nat]
    /\ ctl \in [frozen : BOOLEAN, stop : BOOLEAN, thawing : BOOLEAN, callback : BOOLEAN]
    /\ hist \in [acts : Nat, quiet : Nat, byOperator : BOOLEAN]
    /\ loop.stage = "act" => ~det.drift /\ hist.acts = 0
    /\ hist.acts <= 1
    /\ hist.acts = 1 => ctl.frozen
    /\ det.drift => hist.quiet = det.streak

LEMMA LoopInvInit == Init => LoopInv
<1> SUFFICES ASSUME Init PROVE LoopInv
  OBVIOUS
<1>1. det \in Windows
  BY DEF Init, NewDetector, Windows
<1> QED
  BY <1>1 DEF Init, LoopInv, Stages, NewDetector

LEMMA LoopInvStep == LoopInv /\ [Next]_vars => LoopInv'
<1> SUFFICES ASSUME LoopInv, [Next]_vars PROVE LoopInv'
  OBVIOUS
<1> USE DEF LoopInv, Stages
<1>1. CASE ThreadTick \/ TickOnce
  BY <1>1 DEF ThreadTick, TickOnce, BeginTick
<1>2. CASE ThreadEnds
  BY <1>2 DEF ThreadEnds
<1>3. CASE Reflect
  <2>1. det' \in Windows /\ det'.drift = det.drift /\ det'.streak = det.streak
    BY <1>3, FeedScore DEF Reflect, Reports, SideEffects
  <2>0. (loop.cycle + 1) % ReflectEvery \in Nat
    BY LoopConstants
  <2>2. loop' \in [thread : BOOLEAN, stage : Stages, cycle : Nat] /\ loop'.stage = "check"
    BY <1>3, <2>0 DEF Reflect, Reports, SideEffects
  <2> QED
    BY <1>3, <2>1, <2>2 DEF Reflect, Reports, SideEffects
<1>4. CASE CheckFrozen
  BY <1>4 DEF CheckFrozen, IsFrozen
<1>5. CASE Idle
  BY <1>5 DEF Idle
<1>6. CASE Act
  <2>1. det' \in Windows /\ det'.drift = det.drift /\ det'.streak = det.streak
    <3>1. CASE UNCHANGED det
      BY <3>1
    <3>2. ASSUME NEW score \in Scores, NEW completed \in BOOLEAN,
                 det' = FeedGoalCompleted(FeedCriticScore(det, score), completed)
          PROVE  det' \in Windows /\ det'.drift = det.drift /\ det'.streak = det.streak
      <4> DEFINE scored == FeedCriticScore(det, score)
      <4>1. scored \in Windows /\ scored.drift = det.drift /\ scored.streak = det.streak
        BY FeedScore
      <4> HIDE DEF scored
      <4> QED
        BY <3>2, <4>1, FeedCompletion DEF scored
    <3>3. (\E score \in Scores, completed \in BOOLEAN :
             det' = FeedGoalCompleted(FeedCriticScore(det, score), completed)) \/ UNCHANGED det
      BY <1>6 DEF Act
    <3> QED
      BY <3>1, <3>2, <3>3
  <2>2. loop' \in [thread : BOOLEAN, stage : Stages, cycle : Nat] /\ loop'.stage = "drift"
    BY <1>6 DEF Act
  <2>3. hist' \in [acts : Nat, quiet : Nat, byOperator : BOOLEAN] /\ hist'.quiet = hist.quiet
        /\ hist'.acts = (IF ctl.frozen THEN 1 ELSE 0)
    BY <1>6 DEF Act, CountAct
  <2> QED
    BY <1>6, <2>1, <2>2, <2>3 DEF Act
<1>7. CASE ActRaises
  <2>1. hist' \in [acts : Nat, quiet : Nat, byOperator : BOOLEAN] /\ hist'.quiet = hist.quiet
        /\ hist'.acts = (IF ctl.frozen THEN 1 ELSE 0)
    BY <1>7 DEF ActRaises, CountAct
  <2> QED
    BY <1>7, <2>1 DEF ActRaises
<1>8. CASE DriftTick
  <2>1. det' = AfterTick(det) /\ det' \in Windows
    BY <1>8, TickChanges DEF DriftTick
  <2>2. loop' \in [thread : BOOLEAN, stage : Stages, cycle : Nat] /\ loop'.stage = "idle"
    BY <1>8 DEF DriftTick
  <2>3. ctl' \in [frozen : BOOLEAN, stop : BOOLEAN, thawing : BOOLEAN, callback : BOOLEAN]
        /\ (Clears(det) \/ (ctl.frozen => ctl'.frozen))
    BY <1>8 DEF DriftTick, Callbacks
  <2>0. AnyBreached(det) \in BOOLEAN /\ Clears(det) \in BOOLEAN /\ det'.drift \in BOOLEAN
    BY <2>1 DEF AnyBreached, Clears, Windows
  <2>4. hist' \in [acts : Nat, quiet : Nat, byOperator : BOOLEAN]
        /\ hist'.acts = (IF Clears(det) THEN 0 ELSE hist.acts)
        /\ hist'.quiet = (IF det'.drift /\ ~AnyBreached(det) THEN hist.quiet + 1 ELSE 0)
    <3> DEFINE quiet == IF det'.drift /\ ~AnyBreached(det) THEN hist.quiet + 1 ELSE 0
               acts == IF Clears(det) THEN 0 ELSE hist.acts
    <3>1. quiet \in Nat /\ acts \in Nat
      BY <2>0
    <3>2. hist' = [hist EXCEPT !.quiet = quiet, !.acts = acts]
      BY <1>8 DEF DriftTick
    <3> HIDE DEF quiet, acts
    <3>3. hist' \in [acts : Nat, quiet : Nat, byOperator : BOOLEAN]
          /\ hist'.acts = acts /\ hist'.quiet = quiet
      BY <3>1, <3>2
    <3> QED
      BY <3>3 DEF quiet, acts
  <2>5. det'.drift => hist'.quiet = det'.streak
    BY <2>0, <2>1, <2>4, TickChanges
  <2>6. hist'.acts <= 1 /\ (hist'.acts = 1 => ctl'.frozen)
    BY <2>0, <2>3, <2>4
  <2> QED
    BY <2>1, <2>2, <2>3, <2>4, <2>5, <2>6
<1>9. CASE AddOperatorGoal \/ Start \/ Stop
  BY <1>9 DEF AddOperatorGoal, Start, Stop, outside
<1>10. CASE Freeze
  BY <1>10 DEF Freeze, outside
<1>11. CASE ThawCheck
  BY <1>11 DEF ThawCheck, outside
<1>12. CASE Thaw
  <2>1. hist' \in [acts : Nat, quiet : Nat, byOperator : BOOLEAN]
        /\ hist'.acts = 0 /\ hist'.quiet = hist.quiet
    BY <1>12 DEF Thaw
  <2>2. ctl' \in [frozen : BOOLEAN, stop : BOOLEAN, thawing : BOOLEAN, callback : BOOLEAN]
    BY <1>12 DEF Thaw
  <2> QED
    BY <1>12, <2>1, <2>2 DEF Thaw, outside
<1>13. CASE UNCHANGED vars
  BY <1>13 DEF vars
<1> QED
  BY <1>1, <1>2, <1>3, <1>4, <1>5, <1>6, <1>7, <1>8, <1>9, <1>10, <1>11, <1>12, <1>13
     DEF Next, Tick, Operator

LEMMA LoopInvAlways == Spec => []LoopInv
BY LoopInvInit, LoopInvStep, PTL DEF Spec

-----------------------------------------------------------------------------
(* The theorems.                                                           *)

(* freeze() is prompt: hist.acts never passes one, for LoopInv holds.      *)
THEOREM PromptFreeze == Spec => []FreezeIsPrompt
<1>1. LoopInv => FreezeIsPrompt
  BY DEF LoopInv, FreezeIsPrompt
<1> QED
  BY <1>1, LoopInvAlways, PTL

(* No goal is acted on while drift is detected: the detector moves only in *)
(* the ticks, and the tick that acts found it clear.                       *)
THEOREM NoActInDrift == Spec => NoActWhileDrifting
<1>1. LoopInv => (Acts => ~det.drift)
  BY DEF LoopInv, Acts
<1>2. LoopInv /\ [Next]_vars => [Acts => ~det.drift]_vars
  BY <1>1
<1> QED
  BY <1>2, LoopInvAlways, PTL DEF Spec, NoActWhileDrifting

(* Only an evaluation lowers the drift flag.                               *)
LEMMA OnlyEvaluationClears ==
    ASSUME LoopInv, Next, det.drift, ~det'.drift
    PROVE  DriftTick
<1> USE DEF LoopInv
<1>1. CASE Reflect
  BY <1>1, FeedScore DEF Reflect, Reports, SideEffects
<1>2. CASE Act
  BY <1>2 DEF Act, Stages
<1> QED
  BY <1>1, <1>2
     DEF Next, Tick, Operator, ThreadTick, TickOnce, BeginTick, ThreadEnds, CheckFrozen, Idle,
         ActRaises, AddOperatorGoal, Start, Stop, Freeze, ThawCheck, Thaw, outside

(* Drift is lifted only by an unbreached evaluation, ClearWindow in a row. *)
THEOREM ClearsOnlyAfterQuiet == Spec => ClearsAfterQuiet
<1>1. ASSUME LoopInv, [Next]_vars, det.drift, ~det'.drift
      PROVE  ~AnyBreached(det) /\ hist.quiet + 1 >= ClearWindow
  <2>1. Next
    BY <1>1 DEF vars
  <2>2. DriftTick
    BY <1>1, <2>1, OnlyEvaluationClears
  <2> QED
    BY <1>1, <2>2, TickChanges DEF DriftTick, LoopInv
<1>2. LoopInv /\ [Next]_vars =>
         [det.drift /\ ~det'.drift => ~AnyBreached(det) /\ hist.quiet + 1 >= ClearWindow]_vars
  BY <1>1
<1> QED
  BY <1>2, LoopInvAlways, PTL DEF Spec, ClearsAfterQuiet

(* A drift due to the completion rate is never lifted: while it stands no  *)
(* goal is acted on, so the window that breached stays as it is.           *)
THEOREM DriftOfCompletionsStays == Spec => CompletionDriftStays
<1>1. ASSUME LoopInv, [Next]_vars, det.drift, CompletionsBreached(det)
      PROVE  det'.drift /\ CompletionsBreached(det')
  <2> USE DEF LoopInv
  <2>1. AnyBreached(det)
    BY <1>1 DEF AnyBreached
  <2>2. CASE Reflect
    <3>1. det'.drift = det.drift /\ det'.completions = det.completions
      BY <1>1, <2>2, FeedScore DEF Reflect, Reports, SideEffects
    <3> QED
      BY <1>1, <3>1 DEF CompletionsBreached, GoalCompletionRate
  <2>3. CASE Act
    BY <1>1, <2>3 DEF Act
  <2>4. CASE DriftTick
    <3>1. det'.drift /\ det'.completions = det.completions
      BY <1>1, <2>1, <2>4, TickChanges DEF DriftTick
    <3> QED
      BY <1>1, <3>1 DEF CompletionsBreached, GoalCompletionRate
  <2>5. CASE UNCHANGED det
    BY <1>1, <2>5 DEF CompletionsBreached, GoalCompletionRate
  <2> QED
    BY <1>1, <2>2, <2>3, <2>4, <2>5
       DEF Next, Tick, Operator, ThreadTick, TickOnce, BeginTick, ThreadEnds, CheckFrozen, Idle,
           ActRaises, AddOperatorGoal, Start, Stop, Freeze, ThawCheck, Thaw, outside, vars
<1>2. LoopInv /\ [Next]_vars =>
         [det.drift /\ CompletionsBreached(det) => det'.drift /\ CompletionsBreached(det')]_vars
  BY <1>1
<1> QED
  BY <1>2, LoopInvAlways, PTL DEF Spec, CompletionDriftStays

(* A freeze and drift both end the acting.                                 *)
THEOREM OnlyAllowedActs == Spec => ActsAreAllowed
<1>1. LoopInv /\ LoopInv' /\ [Next]_vars => [Acts => ~det.drift /\ hist'.acts <= 1]_vars
  BY DEF LoopInv, Acts
<1> QED
  BY <1>1, LoopInvAlways, PTL DEF Spec, ActsAreAllowed

(* Drift is lifted after a quiet streak only, and that of the completion   *)
(* rate never.                                                             *)
THEOREM DriftSteady == Spec => DriftIsSteady
BY ClearsOnlyAfterQuiet, DriftOfCompletionsStays, PTL DEF DriftIsSteady
-----------------------------------------------------------------------------
(***************************************************************************)
(* The rules a synthesizer has from the start.                             *)
(***************************************************************************)

(* A rule does not take back, on the facts that make it fire, the goal it  *)
(* adds; only a siren does both, each time the rule is ready again.        *)
THEOREM OnlySirensEndWhatTheyFire ==
    ASSUME NEW s \in Facts, NEW p \in Facts, NEW r \in DefaultRules,
           Condition(r.name, s, p), Ended(r.name, s)
    PROVE  r.name = "perception_alarm_audio" /\ s.sound = "siren"
<1>1. CASE r.name = "perception_alarm_audio"
  <2>1. s.sound # "quiet"
    BY <1>1 DEF Condition
  <2>2. s.sound # "alarm"
    BY <1>1 DEF Ended
  <2> QED
    BY <1>1, <2>1, <2>2 DEF Facts
<1>2. CASE r.name = "perception_near_obstacle"
  BY <1>2 DEF Condition, Ended
<1>3. CASE r.name = "cognition_tier_degraded"
  BY <1>3 DEF Condition, Ended
<1>4. CASE r.name \notin {"perception_alarm_audio", "perception_near_obstacle",
                          "cognition_tier_degraded"}
  BY <1>4 DEF Ended
<1> QED
  BY <1>1, <1>2, <1>3, <1>4

-----------------------------------------------------------------------------
(***************************************************************************)
(* The shape of the state.  What the model computes by recursion, the sum  *)
(* of the synthesized goals and the lists that goals are put into and      *)
(* taken from, exists by induction on a number (UpTo, Iterates); the rest  *)
(* is that each of these lists stays in the order of priorities, and that  *)
(* the sum grows by at most one a rule, from a value below the cap.        *)
(***************************************************************************)

(* A set of numbers that is not empty has a least one.                     *)
LEMMA LeastOf ==
    ASSUME NEW T \in SUBSET Nat, T # {}
    PROVE  \E m \in T : \A t \in T : m <= t
<1>1. PICK m \in T : \A t \in T : ~(<<t, m>> \in OpToRel(<, Nat))
  BY NatLessThanWellFounded, WFMin
<1>2. \A t \in T : ~(t < m)
  BY <1>1 DEF OpToRel
<1> QED
  BY <1>2

(* Induction up to N, for a set of numbers.                                *)
LEMMA UpTo ==
    ASSUME NEW N \in Nat, NEW S, 0 \in S, \A n \in 0..(N - 1) : n \in S => n + 1 \in S
    PROVE  0..N \subseteq S
<1> DEFINE T == {n \in Nat : n <= N /\ n \notin S}
<1>1. ASSUME T # {} PROVE FALSE
  <2>1. PICK m \in T : \A t \in T : m <= t
    <3>1. T \in SUBSET Nat
      OBVIOUS
    <3> HIDE DEF T
    <3> QED
      BY <1>1, <3>1, LeastOf
  <2>2. m # 0 /\ m \in Nat /\ m <= N /\ m \notin S
    OBVIOUS
  <2>3. m - 1 \in 0..(N - 1) /\ m - 1 \in Nat /\ m - 1 < m /\ m - 1 <= N
    BY <2>2
  <2>4. m - 1 \in S
    BY <2>1, <2>3
  <2> QED
    BY <2>2, <2>3, <2>4
<1> QED
  BY <1>1

(* The iterates of a list of functions of one set into itself.             *)
LEMMA Iterates ==
    ASSUME NEW S, NEW base \in S, NEW N \in Nat, NEW step \in [1..N -> [S -> S]]
    PROVE  \E f \in [0..N -> S] :
              f = [n \in 0..N |-> IF n = 0 THEN base ELSE step[n][f[n - 1]]]
<1> DEFINE Is(f, k) == /\ f \in [0..k -> S]
                       /\ f[0] = base /\ \A n \in 1..k : f[n] = step[n][f[n - 1]]
           K == {k \in Nat : \E f : Is(f, k)}
<1>1. 0 \in K
  <2> DEFINE h == [n \in 0..0 |-> base]
  <2>1. Is(h, 0)
    OBVIOUS
  <2> HIDE DEF h, Is
  <2> QED
    BY <2>1
<1>2. ASSUME NEW k \in 0..(N - 1), k \in K PROVE k + 1 \in K
  <2>1. PICK f : Is(f, k)
    BY <1>2
  <2> DEFINE h == [n \in 0..(k + 1) |-> IF n = k + 1 THEN step[k + 1][f[k]] ELSE f[n]]
  <2>2. k \in Nat /\ k + 1 \in 1..N /\ f[k] \in S /\ step[k + 1][f[k]] \in S
    <3>1. k \in 0..k /\ k + 1 \in 1..N
      BY <1>2
    <3> QED
      BY <2>1, <3>1
  <2>3. h \in [0..(k + 1) -> S] /\ h[0] = base /\ h[k + 1] = step[k + 1][f[k]]
        /\ \A n \in 0..k : h[n] = f[n]
    BY <2>1, <2>2
  <2>4. ASSUME NEW n \in 1..(k + 1) PROVE h[n] = step[n][h[n - 1]]
    <3>1. n - 1 \in 0..k /\ (n = k + 1 \/ n \in 1..k) /\ k \in 0..k
      BY <2>2
    <3>2. CASE n = k + 1
      <4>1. n - 1 = k
        BY <2>2, <3>2
      <4> HIDE DEF h
      <4> QED
        BY <2>3, <3>1, <3>2, <4>1
    <3>3. CASE n \in 1..k
      <4>1. n \in 0..k /\ f[n] = step[n][f[n - 1]]
        BY <2>1, <3>3
      <4> HIDE DEF h
      <4> QED
        BY <2>3, <3>1, <4>1
    <3> QED
      BY <3>1, <3>2, <3>3
  <2>5. Is(h, k + 1)
    BY <2>3, <2>4
  <2> HIDE DEF h, Is
  <2> QED
    BY <2>2, <2>5
<1>3. N \in K
  <2> HIDE DEF K
  <2>1. 0..N \subseteq K
    BY <1>1, <1>2, UpTo
  <2> QED
    BY <2>1
<1>4. PICK f : Is(f, N)
  BY <1>3
<1>5. \A n \in 0..N : f[n] = IF n = 0 THEN base ELSE step[n][f[n - 1]]
  BY <1>4
<1>6. f = [n \in 0..N |-> IF n = 0 THEN base ELSE step[n][f[n - 1]]]
  <2>1. f = [n \in 0..N |-> f[n]]
    BY <1>4
  <2> QED
    BY <1>5, <2>1
<1> QED
  BY <1>4, <1>6

(* A finite set can be listed.                                             *)
LEMMA ListOf ==
    ASSUME NEW S, IsFiniteSet(S)
    PROVE  /\ SetToSeq(S) \in Seq(S) /\ Len(SetToSeq(S)) = Cardinality(S)
           /\ Cardinality(S) \in Nat
<1>1. Cardinality(S) \in Nat /\ ExistsBijection(1..Cardinality(S), S)
  BY FS_CardinalityType
<1>2. \E f \in [1..Cardinality(S) -> S] : IsInjective(f)
  BY <1>1 DEF ExistsBijection, Bijection, Injection, IsInjective
<1>3. SetToSeq(S) \in [1..Cardinality(S) -> S]
  BY <1>2 DEF SetToSeq
<1> QED
  BY <1>1, <1>3, LenProperties, SeqDef
-----------------------------------------------------------------------------
(* The goal list.                                                          *)

GoalList == {gs \in Seq(Goals) : Len(gs) <= MaxGoals /\ IsOrdered(gs)}

LEMMA GoalsHavePriorities ==
    /\ \A g \in Goals : g.priority \in Nat
    /\ \A r \in Rules : SynthesizedGoal(r) \in Goals
    /\ {StabilizeGoal, RealignGoal} \subseteq Goals /\ OperatorGoals \subseteq Goals
<1>1. /\ \A r \in Rules : r.priority \in Nat
      /\ \A g \in OperatorGoals : g.priority \in Nat
  BY LoopConstants
<1> QED
  <2>1. \A r \in Rules : SynthesizedGoal(r).priority \in Nat
    BY <1>1 DEF SynthesizedGoal
  <2>2. StabilizeGoal.priority \in Nat /\ RealignGoal.priority \in Nat
    BY DEF StabilizeGoal, RealignGoal
  <2>3. \A g \in Goals : g.priority \in Nat
    BY <1>1, <2>1, <2>2 DEF Goals
  <2> QED
    BY <2>3 DEF Goals

(* In an ordered list those ahead of a goal are its first ones.            *)
LEMMA AheadIsPrefix ==
    ASSUME NEW gs \in Seq(Goals), IsOrdered(gs), NEW goal \in Goals
    PROVE  \E k \in 0..Len(gs) :
              /\ {i \in DOMAIN gs : gs[i].priority >= goal.priority} = 1..k
              /\ Cardinality({i \in DOMAIN gs : gs[i].priority >= goal.priority}) = k
<1> DEFINE Ahead == {i \in DOMAIN gs : gs[i].priority >= goal.priority}
           N == Len(gs)
           T == {i \in 1..(N + 1) : i \notin Ahead}
<1>1. N \in Nat /\ DOMAIN gs = 1..N /\ \A i \in 1..N : gs[i] \in Goals
  BY LenProperties, ElementOfSeq
<1>2. \A i \in 1..N : gs[i].priority \in Nat
  BY <1>1, GoalsHavePriorities
<1>3. PICK m \in T : \A t \in T : m <= t
  <2>1. N + 1 \in T /\ T \in SUBSET Nat
    BY <1>1
  <2> HIDE DEF T
  <2> QED
    BY <2>1, LeastOf
<1>4. m \in 1..(N + 1) /\ m \notin Ahead
  OBVIOUS
<1>5. \A i \in 1..(m - 1) : i \in Ahead
  <2> SUFFICES ASSUME NEW i \in 1..(m - 1), i \notin Ahead PROVE FALSE
    OBVIOUS
  <2>1. i \in 1..(N + 1) /\ i < m
    BY <1>1, <1>4
  <2> HIDE DEF Ahead
  <2>2. i \in T
    BY <2>1
  <2> QED
    BY <1>3, <2>1, <2>2
<1>6. \A i \in Ahead : i \in 1..(m - 1)
  <2> SUFFICES ASSUME NEW i \in 1..N, gs[i].priority >= goal.priority, ~(i < m) PROVE FALSE
    BY <1>1, <1>4
  <2>1. CASE i = m
    BY <1>1, <1>4, <2>1
  <2>2. CASE i # m
    <3>1. m \in 1..N /\ m < i
      BY <1>1, <1>4, <2>2
    <3>2. gs[m].priority >= gs[i].priority
      BY <1>1, <3>1 DEF IsOrdered
    <3>3. gs[m].priority >= goal.priority
      BY <1>2, <3>1, <3>2, GoalsHavePriorities
    <3> QED
      BY <1>1, <1>4, <3>1, <3>3
  <2> QED
    BY <2>1, <2>2
<1>7. Ahead = 1..(m - 1) /\ m - 1 \in 0..N
  <2> HIDE DEF Ahead
  <2>1. m - 1 \in 0..N
    BY <1>1, <1>4
  <2> HIDE DEF T
  <2>2. Ahead = 1..(m - 1)
    BY <1>5, <1>6
  <2> QED
    BY <2>1, <2>2
<1>8. Cardinality(1..(m - 1)) = m - 1
  <2> PICK k \in 0..N : k = m - 1
    BY <1>7
  <2>1. Cardinality(1..k) = k
    BY <1>1, FS_Interval
  <2> QED
    BY <2>1
<1> HIDE DEF Ahead
<1>9. \E k \in 0..N : Ahead = 1..k /\ Cardinality(Ahead) = k
  BY <1>7, <1>8
<1> QED
  BY <1>9 DEF Ahead

(* r is seq with e after its first k elements.                             *)
Has(S, r, seq, k, e) ==
    /\ r \in Seq(S) /\ Len(r) = Len(seq) + 1
    /\ \A j \in 1..(Len(seq) + 1) :
          r[j] = IF j <= k THEN seq[j] ELSE IF j = k + 1 THEN e ELSE seq[j - 1]

LEMMA Inserted ==
    ASSUME NEW S, NEW seq \in Seq(S), NEW k \in 0..Len(seq), NEW e \in S
    PROVE  Has(S, InsertAt(seq, k + 1, e), seq, k, e)
<1> DEFINE a == SubSeq(seq, 1, k)  b == <<e>>  c == SubSeq(seq, k + 1, Len(seq))
<1>1. Len(seq) \in Nat /\ (k + 1) - 1 = k /\ k \in Nat
  BY LenProperties
<1>2. a \in Seq(S) /\ Len(a) = k /\ \A j \in 1..k : a[j] = seq[j]
  BY <1>1, SubSeqProperties, LenProperties, ElementOfSeq
<1>3. b \in Seq(S) /\ Len(b) = 1 /\ b[1] = e
  OBVIOUS
<1>4. c \in Seq(S) /\ Len(c) = Len(seq) - k /\ \A j \in 1..(Len(seq) - k) : c[j] = seq[k + j]
  BY <1>1, SubSeqProperties, LenProperties, ElementOfSeq
<1>5. InsertAt(seq, k + 1, e) = (a \o b) \o c
  BY <1>1 DEF InsertAt
<1> HIDE DEF a, b, c
<1> PICK ab : ab = a \o b
  OBVIOUS
<1>6. /\ ab \in Seq(S) /\ Len(ab) = k + 1
      /\ \A j \in 1..(k + 1) : ab[j] = IF j <= k THEN a[j] ELSE b[j - k]
  <2>1. a \in Seq(S) /\ b \in Seq(S)
    BY <1>2, <1>3
  <2>2. /\ a \o b \in Seq(S) /\ Len(a \o b) = Len(a) + Len(b)
        /\ \A j \in 1..Len(a) + Len(b) : (a \o b)[j] = IF j <= Len(a) THEN a[j] ELSE b[j - Len(a)]
    BY <2>1, ConcatProperties
  <2>3. Len(a) = k /\ Len(b) = 1
    BY <1>2, <1>3
  <2> QED
    BY <2>2, <2>3
<1> PICK q : q = ab \o c
  OBVIOUS
<1>7. /\ q \in Seq(S) /\ Len(q) = Len(seq) + 1
      /\ \A j \in 1..(Len(seq) + 1) : q[j] = IF j <= k + 1 THEN ab[j] ELSE c[j - (k + 1)]
  <2>1. ab \in Seq(S) /\ c \in Seq(S)
    BY <1>4, <1>6
  <2>2. /\ ab \o c \in Seq(S) /\ Len(ab \o c) = Len(ab) + Len(c)
        /\ \A j \in 1..Len(ab) + Len(c) : (ab \o c)[j] = IF j <= Len(ab) THEN ab[j] ELSE c[j - Len(ab)]
    BY <2>1, ConcatProperties
  <2>3. Len(ab) = k + 1 /\ Len(ab) + Len(c) = Len(seq) + 1
    BY <1>1, <1>4, <1>6
  <2> QED
    BY <2>2, <2>3
<1>8. ASSUME NEW j \in 1..(Len(seq) + 1)
      PROVE  q[j] = IF j <= k THEN seq[j] ELSE IF j = k + 1 THEN e ELSE seq[j - 1]
  <2>1. CASE j <= k
    <3>1. j \in 1..k /\ j \in 1..(k + 1) /\ j <= k + 1
      BY <1>1, <2>1
    <3>2. q[j] = ab[j] /\ ab[j] = a[j] /\ a[j] = seq[j]
      BY <1>2, <1>6, <1>7, <2>1, <3>1
    <3> QED
      BY <2>1, <3>2
  <2>2. CASE j = k + 1
    <3>1. j \in 1..(k + 1) /\ ~(j <= k) /\ j - k = 1 /\ j <= k + 1
      BY <1>1, <2>2
    <3>2. q[j] = ab[j] /\ ab[j] = b[j - k]
      BY <1>6, <1>7, <3>1
    <3> QED
      BY <1>3, <2>2, <3>1, <3>2
  <2>3. CASE j > k + 1
    <3>1. j - (k + 1) \in 1..(Len(seq) - k) /\ k + (j - (k + 1)) = j - 1
      BY <1>1, <2>3
    <3>2. q[j] = c[j - (k + 1)]
      BY <1>1, <1>7, <2>3
    <3>3. c[j - (k + 1)] = seq[j - 1]
      BY <1>4, <3>1
    <3> QED
      BY <1>1, <2>3, <3>2, <3>3
  <2>4. j <= k \/ j = k + 1 \/ j > k + 1
    BY <1>1
  <2> QED
    BY <2>1, <2>2, <2>3, <2>4
<1>9. InsertAt(seq, k + 1, e) = q
  BY <1>5
<1> QED
  <2>1. q \in Seq(S) /\ Len(q) = Len(seq) + 1
    BY <1>7
  <2>2. \A j \in 1..(Len(seq) + 1) :
           q[j] = IF j <= k THEN seq[j] ELSE IF j = k + 1 THEN e ELSE seq[j - 1]
    BY <1>8
  <2>3. Has(S, q, seq, k, e)
    BY <2>1, <2>2 DEF Has
  <2> QED
    BY <1>9, <2>3
(* A goal is added in its place.                                           *)
LEMMA AddGoalKeeps ==
    ASSUME NEW gs \in GoalList, NEW goal \in Goals
    PROVE  AddGoal(gs, goal) \in GoalList
<1> DEFINE N == Len(gs)
           Ahead == {i \in DOMAIN gs : gs[i].priority >= goal.priority}
<1>1. gs \in Seq(Goals) /\ N <= MaxGoals /\ IsOrdered(gs)
  BY DEF GoalList
<1>2. N \in Nat /\ DOMAIN gs = 1..N /\ \A i \in 1..N : gs[i].priority \in Nat
  BY <1>1, LenProperties, ElementOfSeq, GoalsHavePriorities
<1>3. CASE N >= MaxGoals
  BY <1>3 DEF AddGoal
<1>4. CASE ~(N >= MaxGoals)
  <2>1. PICK k \in 0..N : Ahead = 1..k /\ Cardinality(Ahead) = k
    BY <1>1, AheadIsPrefix
  <2> PICK q : q = InsertAt(gs, k + 1, goal)
    OBVIOUS
  <2>2. AddGoal(gs, goal) = q
    <3>1. AddGoal(gs, goal) = InsertAt(gs, Cardinality(Ahead) + 1, goal)
      BY <1>4 DEF AddGoal
    <3> HIDE DEF Ahead
    <3> QED
      BY <2>1, <3>1
  <2>3. /\ q \in Seq(Goals) /\ Len(q) = N + 1
        /\ \A j \in 1..(N + 1) :
              q[j] = IF j <= k THEN gs[j] ELSE IF j = k + 1 THEN goal ELSE gs[j - 1]
    <3>1. gs \in Seq(Goals) /\ k \in 0..Len(gs)
      BY <1>1, <2>1
    <3>2. Has(Goals, InsertAt(gs, k + 1, goal), gs, k, goal)
      BY <3>1, Inserted
    <3> QED
      BY <3>2 DEF Has
  <2>4. k \in Nat /\ k <= N /\ goal.priority \in Nat
    BY <1>2, GoalsHavePriorities
  <2>5. \A i \in 1..N : gs[i].priority >= goal.priority <=> i <= k
    <3> SUFFICES ASSUME NEW i \in 1..N PROVE gs[i].priority >= goal.priority <=> i <= k
      OBVIOUS
    <3>1. i \in Ahead <=> i \in 1..k
      BY <2>1
    <3> QED
      BY <1>2, <2>4, <3>1
  <2>6. ASSUME NEW i \in 1..(N + 1), NEW j \in 1..(N + 1), i < j
        PROVE  q[i].priority >= q[j].priority
    <3>1. \A a, b \in 1..N : a <= b => gs[a].priority >= gs[b].priority
      BY <1>1, <1>2 DEF IsOrdered
    <3>2. CASE j <= k
      <4>1. q[i] = gs[i] /\ q[j] = gs[j] /\ i \in 1..N /\ j \in 1..N
        BY <1>2, <2>3, <2>4, <2>6, <3>2
      <4> QED
        BY <2>6, <3>1, <4>1
    <3>3. CASE j = k + 1
      <4>1. q[i] = gs[i] /\ q[j] = goal /\ i \in 1..N /\ i <= k
        BY <1>2, <2>3, <2>4, <2>6, <3>3
      <4> QED
        BY <2>5, <4>1
    <3>4. CASE j > k + 1
      <4>1. q[j] = gs[j - 1] /\ j - 1 \in 1..N /\ ~(j - 1 <= k)
        BY <1>2, <2>3, <2>4, <2>6, <3>4
      <4>2. CASE i <= k
        <5>1. q[i] = gs[i] /\ i \in 1..N /\ i <= j - 1
          BY <1>2, <2>3, <2>4, <2>6, <3>4, <4>2
        <5> QED
          BY <3>1, <4>1, <5>1
      <4>3. CASE i = k + 1
        <5>1. q[i] = goal
          BY <2>3, <2>4, <4>3
        <5> QED
          BY <1>2, <2>4, <2>5, <4>1, <5>1
      <4>4. CASE i > k + 1
        <5>1. q[i] = gs[i - 1] /\ i - 1 \in 1..N /\ i - 1 <= j - 1
          BY <1>2, <2>3, <2>4, <2>6, <4>4
        <5> QED
          BY <3>1, <4>1, <5>1
      <4> QED
        BY <2>4, <4>2, <4>3, <4>4
    <3> QED
      BY <2>4, <3>2, <3>3, <3>4
  <2>7. IsOrdered(q)
    <3>1. DOMAIN q = 1..(N + 1)
      BY <2>3, LenProperties
    <3> QED
      BY <2>6, <3>1 DEF IsOrdered
  <2> QED
    BY <1>2, <1>4, <2>2, <2>3, <2>7, GoalBound DEF GoalList
<1> QED
  BY <1>3, <1>4

(* The goal at work is taken off the front.                                *)
LEMMA CompleteCurrentKeeps ==
    ASSUME NEW gs \in GoalList, gs # <<>>
    PROVE  CompleteCurrent(gs) \in GoalList
<1>1. gs \in Seq(Goals) /\ Len(gs) <= MaxGoals /\ IsOrdered(gs)
  BY DEF GoalList
<1>2. /\ Tail(gs) \in Seq(Goals) /\ Len(Tail(gs)) = Len(gs) - 1
      /\ \A i \in 1..Len(Tail(gs)) : Tail(gs)[i] = gs[i + 1]
      /\ DOMAIN gs = 1..Len(gs) /\ DOMAIN Tail(gs) = 1..Len(Tail(gs))
      /\ Len(gs) \in Nat /\ Len(Tail(gs)) \in Nat
  BY <1>1, HeadTailProperties, LenProperties
<1>3. IsOrdered(Tail(gs))
  <2> PICK t : t = Tail(gs)
    OBVIOUS
  <2>1. \A i, j \in 1..Len(t) : i < j => t[i].priority >= t[j].priority
    <3> SUFFICES ASSUME NEW i \in 1..Len(t), NEW j \in 1..Len(t), i < j
                 PROVE  t[i].priority >= t[j].priority
      OBVIOUS
    <3>1. t[i] = gs[i + 1] /\ t[j] = gs[j + 1]
      BY <1>2
    <3>2. i + 1 \in DOMAIN gs /\ j + 1 \in DOMAIN gs /\ i + 1 < j + 1
      BY <1>2
    <3> QED
      BY <1>1, <3>1, <3>2 DEF IsOrdered
  <2> QED
    BY <1>2, <2>1 DEF IsOrdered
<1> QED
  BY <1>1, <1>2, <1>3, GoalBound DEF GoalList, CompleteCurrent

(* What is left of a list when goals are completed is in its order.        *)
LEMMA CompleteGoalsKeeps ==
    ASSUME NEW gs \in GoalList, NEW origins
    PROVE  CompleteGoals(gs, origins) \in GoalList
<1> DEFINE N == Len(gs)
           S == Seq(Goals)
           Kept(q, n) == IF gs[n].origin \in origins THEN q ELSE Append(q, gs[n])
           step == [n \in 1..N |-> [q \in S |-> Kept(q, n)]]
<1>1. gs \in S /\ N <= MaxGoals /\ IsOrdered(gs)
  BY DEF GoalList
<1>2. N \in Nat /\ DOMAIN gs = 1..N /\ \A i \in 1..N : gs[i] \in Goals
  BY <1>1, LenProperties, ElementOfSeq
<1>3. <<>> \in S /\ \A n \in 1..N : \A q \in S : Kept(q, n) \in S
  BY <1>2, AppendProperties, EmptySeq
<1>4. step \in [1..N -> [S -> S]]
  BY <1>3
<1>5. PICK f \in [0..N -> S] : f = [n \in 0..N |-> IF n = 0 THEN <<>> ELSE step[n][f[n - 1]]]
  <2>1. N \in Nat
    BY <1>2
  <2>2. <<>> \in S
    BY <1>3
  <2> HIDE DEF S, step, N
  <2> QED
    BY <1>4, <2>1, <2>2, Iterates
<1>6. \A n \in 0..N : f[n] = IF n = 0 THEN <<>> ELSE Kept(f[n - 1], n)
  <2> SUFFICES ASSUME NEW n \in 0..N PROVE f[n] = IF n = 0 THEN <<>> ELSE Kept(f[n - 1], n)
    OBVIOUS
  <2>1. f[n] = IF n = 0 THEN <<>> ELSE step[n][f[n - 1]]
    <3> HIDE DEF step
    <3> QED
      BY <1>5
  <2>2. CASE n # 0
    <3>1. n \in 1..N /\ n - 1 \in 0..N
      BY <1>2, <2>2
    <3>2. f[n - 1] \in S
      BY <3>1
    <3> HIDE DEF Kept, S
    <3> QED
      BY <2>1, <2>2, <3>1, <3>2
  <2> QED
    BY <2>1, <2>2
<1>7. f = [n \in 0..N |-> IF n = 0 THEN <<>> ELSE Kept(f[n - 1], n)]
  <2>1. f = [n \in 0..N |-> f[n]]
    OBVIOUS
  <2> HIDE DEF Kept
  <2> QED
    BY <1>6, <2>1
<1> DEFINE left == CHOOSE h : h = [n \in 0..N |-> IF n = 0 THEN <<>> ELSE Kept(h[n - 1], n)]
<1>8. CompleteGoals(gs, origins) = left[N]
  BY DEF CompleteGoals
<1>9. left = [n \in 0..N |-> IF n = 0 THEN <<>> ELSE Kept(left[n - 1], n)]
  <2> HIDE DEF Kept
  <2> QED
    BY <1>7
<1> HIDE DEF left, step
<1> DEFINE Good(q, n) == /\ q \in Seq(Goals) /\ Len(q) <= n /\ IsOrdered(q)
                         /\ \A i \in 1..Len(q) : \E j \in 1..n : q[i] = gs[j]
           T == {n \in Nat : Good(left[n], n)}
<1>10. 0 \in T
  <2>1. left[0] = <<>>
    BY <1>2, <1>9
  <2>2. <<>> \in Seq(Goals) /\ Len(<<>>) = 0 /\ DOMAIN <<>> = {} /\ 1..0 = {}
    BY EmptySeq
  <2>3. Good(<<>>, 0)
    BY <2>2 DEF IsOrdered
  <2> HIDE DEF Good
  <2> QED
    BY <2>1, <2>3
<1>11. ASSUME NEW n \in 0..(N - 1), n \in T PROVE n + 1 \in T
  <2> PICK q : q = left[n]
    OBVIOUS
  <2>1. n \in Nat /\ n + 1 \in Nat /\ n + 1 \in 1..N /\ Good(q, n)
    <3>1. n \in Nat /\ n + 1 \in Nat /\ n + 1 \in 1..N
      BY <1>2
    <3> HIDE DEF Good
    <3>2. Good(q, n)
      BY <1>11
    <3> QED
      BY <3>1, <3>2
  <2>2. left[n + 1] = Kept(q, n + 1)
    <3>1. n + 1 \in 0..N /\ n + 1 # 0 /\ (n + 1) - 1 = n
      BY <1>2
    <3> HIDE DEF Kept
    <3> QED
      BY <1>9, <3>1
  <2>3. Good(q, n + 1)
    <3>1. \A j \in 1..n : j \in 1..(n + 1)
      BY <2>1
    <3>2. Len(q) \in Nat
      BY <2>1, LenProperties
    <3> QED
      BY <2>1, <3>1, <3>2
  <2>4. Good(Append(q, gs[n + 1]), n + 1)
    <3> DEFINE g == gs[n + 1]
    <3> PICK r : r = Append(q, g)
      OBVIOUS
    <3>1. /\ r \in Seq(Goals) /\ Len(r) = Len(q) + 1 /\ Len(q) \in Nat
          /\ \A i \in 1..Len(q) : r[i] = q[i]
          /\ r[Len(q) + 1] = g
          /\ DOMAIN r = 1..(Len(q) + 1) /\ DOMAIN q = 1..Len(q)
      BY <1>2, <2>1, AppendProperties, LenProperties
    <3>2. Len(r) <= n + 1
      BY <2>1, <3>1
    <3>3. \A i \in 1..Len(r) : \E j \in 1..(n + 1) : r[i] = gs[j]
      <4> SUFFICES ASSUME NEW i \in 1..Len(r) PROVE \E j \in 1..(n + 1) : r[i] = gs[j]
        OBVIOUS
      <4>1. CASE i = Len(q) + 1
        <5>1. n + 1 \in 1..(n + 1)
          BY <2>1
        <5> QED
          BY <3>1, <4>1, <5>1
      <4>2. CASE i \in 1..Len(q)
        <5>1. PICK j \in 1..n : q[i] = gs[j]
          BY <2>1, <4>2
        <5>2. j \in 1..(n + 1)
          BY <2>1
        <5> QED
          BY <3>1, <4>2, <5>1, <5>2
      <4> QED
        BY <3>1, <4>1, <4>2
    <3>4. IsOrdered(r)
      <4> SUFFICES ASSUME NEW i \in 1..(Len(q) + 1), NEW j \in 1..(Len(q) + 1), i < j
                   PROVE  r[i].priority >= r[j].priority
        BY <3>1 DEF IsOrdered
      <4>1. i \in 1..Len(q) /\ r[i] = q[i]
        BY <3>1
      <4>2. CASE j \in 1..Len(q)
        <5>1. r[j] = q[j]
          BY <3>1, <4>2
        <5> QED
          BY <2>1, <3>1, <4>1, <4>2, <5>1 DEF IsOrdered
      <4>3. CASE j = Len(q) + 1
        <5>1. PICK m \in 1..n : q[i] = gs[m]
          BY <2>1, <4>1
        <5>2. m \in 1..N /\ m < n + 1
          BY <1>2, <2>1
        <5>3. gs[m].priority >= g.priority
          BY <1>1, <1>2, <2>1, <5>2 DEF IsOrdered
        <5> QED
          BY <3>1, <4>1, <4>3, <5>1, <5>3
      <4> QED
        BY <3>1, <4>2, <4>3
    <3> HIDE DEF Good, g
    <3>5. Good(r, n + 1)
      BY <3>1, <3>2, <3>3, <3>4 DEF Good
    <3> QED
      BY <3>5 DEF g
  <2> HIDE DEF Good
  <2>5. Good(left[n + 1], n + 1)
    BY <2>2, <2>3, <2>4
  <2> QED
    BY <2>1, <2>5
<1>12. N \in T
  <2> HIDE DEF T
  <2>1. 0..N \subseteq T
    BY <1>2, <1>10, <1>11, UpTo
  <2> QED
    BY <1>2, <2>1
<1>13. left[N] \in Seq(Goals) /\ Len(left[N]) <= N /\ IsOrdered(left[N])
  BY <1>12
<1>14. Len(left[N]) <= MaxGoals
  <2>1. Len(left[N]) \in Nat
    BY <1>13, LenProperties
  <2> QED
    BY <1>1, <1>2, <1>13, <2>1, GoalBound
<1> QED
  BY <1>8, <1>13, <1>14 DEF GoalList
LEMMA AddSynthesizedKeeps ==
    ASSUME NEW gs \in GoalList, NEW rules \in SUBSET Rules
    PROVE  AddSynthesized(gs, rules) \in GoalList
<1> DEFINE order == SetToSeq(rules)
           N == Len(order)
           goal(n) == SynthesizedGoal(order[n])
           step == [n \in 1..N |-> [q \in GoalList |-> AddGoal(q, goal(n))]]
<1>1. order \in Seq(rules) /\ N \in Nat
  <2>1. IsFiniteSet(rules)
    BY LoopConstants, FS_Subset
  <2> QED
    BY <2>1, ListOf
<1>2. \A n \in 1..N : goal(n) \in Goals
  BY <1>1, ElementOfSeq, GoalsHavePriorities
<1>3. \A n \in 1..N : \A q \in GoalList : AddGoal(q, goal(n)) \in GoalList
  BY <1>2, AddGoalKeeps
<1>4. step \in [1..N -> [GoalList -> GoalList]]
  BY <1>3
<1> HIDE DEF order, goal
<1>5. PICK f \in [0..N -> GoalList] : f = [n \in 0..N |-> IF n = 0 THEN gs ELSE step[n][f[n - 1]]]
  <2>1. N \in Nat
    BY <1>1
  <2> HIDE DEF N, step
  <2> QED
    BY <1>4, <2>1, Iterates
<1>6. \A n \in 0..N : f[n] = IF n = 0 THEN gs ELSE AddGoal(f[n - 1], goal(n))
  <2> SUFFICES ASSUME NEW n \in 0..N PROVE f[n] = IF n = 0 THEN gs ELSE AddGoal(f[n - 1], goal(n))
    OBVIOUS
  <2>1. f[n] = IF n = 0 THEN gs ELSE step[n][f[n - 1]]
    <3> HIDE DEF step
    <3> QED
      BY <1>5
  <2>2. CASE n # 0
    <3>1. n \in 1..N /\ n - 1 \in 0..N
      BY <1>1, <2>2
    <3>2. f[n - 1] \in GoalList
      BY <3>1
    <3> QED
      BY <2>1, <2>2, <3>1, <3>2
  <2> QED
    BY <2>1, <2>2
<1>7. f = [n \in 0..N |-> IF n = 0 THEN gs ELSE AddGoal(f[n - 1], goal(n))]
  <2>1. f = [n \in 0..N |-> f[n]]
    OBVIOUS
  <2> QED
    BY <1>6, <2>1
<1> DEFINE added == CHOOSE h : h = [n \in 0..N |-> IF n = 0 THEN gs ELSE AddGoal(h[n - 1], goal(n))]
<1>8. AddSynthesized(gs, rules) = added[N]
  BY DEF AddSynthesized, order, goal
<1>9. added = [n \in 0..N |-> IF n = 0 THEN gs ELSE AddGoal(added[n - 1], goal(n))]
  BY <1>7
<1> HIDE DEF added, step
<1> DEFINE T == {n \in Nat : added[n] \in GoalList}
<1>10. 0 \in T
  BY <1>1, <1>9
<1>11. ASSUME NEW n \in 0..(N - 1), n \in T PROVE n + 1 \in T
  <2>1. n + 1 \in 1..N /\ n + 1 \in 0..N /\ n + 1 # 0 /\ (n + 1) - 1 = n /\ n + 1 \in Nat
    BY <1>1
  <2>2. added[n + 1] = AddGoal(added[n], goal(n + 1))
    BY <1>9, <2>1
  <2> QED
    BY <1>3, <1>11, <2>1, <2>2
<1> HIDE DEF T
<1>12. 0..N \subseteq T
  BY <1>1, <1>10, <1>11, UpTo
<1>13. N \in T
  BY <1>1, <1>12
<1> QED
  BY <1>8, <1>13 DEF T

-----------------------------------------------------------------------------
(* The count of synthesized goals.                                         *)

NumRules == Cardinality(Rules)
InOrder(n) == SetToSeq(Rules)[n]

LEMMA RulesAreListed ==
    /\ NumRules \in Nat /\ NumRules > 0 /\ Len(SetToSeq(Rules)) = NumRules
    /\ \A n \in 1..NumRules : InOrder(n) \in Rules
<1>1. IsFiniteSet(Rules) /\ Rules # {}
  BY LoopConstants
<1>2. /\ SetToSeq(Rules) \in Seq(Rules) /\ Len(SetToSeq(Rules)) = NumRules
      /\ NumRules \in Nat
  BY <1>1, ListOf DEF NumRules
<1>3. NumRules # 0
  BY <1>1, FS_EmptySet DEF NumRules
<1> QED
  BY <1>2, <1>3, ElementOfSeq DEF InOrder

(* The count is a sum along the list of rules.                             *)
Sums(counts, f) ==
    /\ f \in [0..NumRules -> Nat] /\ f[0] = 0
    /\ \A n \in 0..(NumRules - 1) : f[n + 1] = f[n] + counts[InOrder(n + 1)]
    /\ ActiveGoals(counts) = f[NumRules]

LEMMA SumIs ==
    ASSUME NEW counts \in [Rules -> Nat]
    PROVE  \E f : Sums(counts, f)
<1> DEFINE N == NumRules
           S == Nat
           step == [n \in 1..N |-> [x \in Nat |-> x + counts[InOrder(n)]]]
<1>1. N \in Nat /\ \A n \in 1..N : counts[InOrder(n)] \in Nat
  BY RulesAreListed
<1>2. step \in [1..N -> [S -> S]]
  BY <1>1
<1>3. PICK f \in [0..N -> S] : f = [n \in 0..N |-> IF n = 0 THEN 0 ELSE step[n][f[n - 1]]]
  <2> DEFINE zero == 0
  <2>1. N \in Nat /\ zero \in S
    BY <1>1
  <2> HIDE DEF N, S, step, zero
  <2>2. \E h \in [0..N -> S] : h = [n \in 0..N |-> IF n = 0 THEN zero ELSE step[n][h[n - 1]]]
    BY <1>2, <2>1, Iterates
  <2> QED
    BY <2>2 DEF zero
<1>4. \A n \in 0..N : f[n] = IF n = 0 THEN 0 ELSE f[n - 1] + counts[InOrder(n)]
  <2> SUFFICES ASSUME NEW n \in 0..N PROVE f[n] = IF n = 0 THEN 0 ELSE f[n - 1] + counts[InOrder(n)]
    OBVIOUS
  <2>1. f[n] = IF n = 0 THEN 0 ELSE step[n][f[n - 1]]
    <3> HIDE DEF step
    <3> QED
      BY <1>3
  <2>2. CASE n # 0
    <3>1. n \in 1..N /\ n - 1 \in 0..N
      BY <1>1, <2>2
    <3>2. f[n - 1] \in Nat
      BY <3>1
    <3> QED
      BY <2>1, <2>2, <3>1, <3>2
  <2> QED
    BY <2>1, <2>2
<1>5. f = [n \in 0..N |-> IF n = 0 THEN 0 ELSE f[n - 1] + counts[InOrder(n)]]
  <2>1. f = [n \in 0..N |-> f[n]]
    OBVIOUS
  <2> QED
    BY <1>4, <2>1
<1> DEFINE sum == CHOOSE h : h = [n \in 0..N |-> IF n = 0 THEN 0 ELSE h[n - 1] + counts[InOrder(n)]]
<1>6. ActiveGoals(counts) = sum[N]
  BY RulesAreListed DEF ActiveGoals, InOrder
<1>7. sum = [n \in 0..N |-> IF n = 0 THEN 0 ELSE sum[n - 1] + counts[InOrder(n)]]
  BY <1>5
<1> HIDE DEF sum, step
<1>8. sum[0] = 0
  BY <1>1, <1>7
<1>9. ASSUME NEW n \in 0..(N - 1) PROVE sum[n + 1] = sum[n] + counts[InOrder(n + 1)]
  <2>1. n + 1 \in 0..N /\ n + 1 # 0 /\ (n + 1) - 1 = n
    BY <1>1
  <2> QED
    BY <1>7, <2>1
<1> DEFINE T == {n \in Nat : sum[n] \in Nat}
<1>10. 0..N \subseteq T
  <2>1. 0 \in T
    BY <1>8
  <2>2. ASSUME NEW n \in 0..(N - 1), n \in T PROVE n + 1 \in T
    <3>1. n + 1 \in 1..N /\ n + 1 \in Nat
      BY <1>1
    <3>2. sum[n] \in Nat /\ counts[InOrder(n + 1)] \in Nat
      BY <1>1, <2>2, <3>1
    <3>3. sum[n + 1] \in Nat
      BY <1>9, <3>2
    <3> QED
      BY <3>1, <3>3
  <2> HIDE DEF T
  <2> QED
    BY <1>1, <2>1, <2>2, UpTo
<1>11. sum \in [0..N -> Nat]
  <2>1. \A n \in 0..N : sum[n] \in Nat
    BY <1>10
  <2>2. sum = [n \in 0..N |-> sum[n]]
    BY <1>7
  <2> QED
    BY <2>1, <2>2
<1> QED
  BY <1>6, <1>8, <1>9, <1>11 DEF Sums

(* Counts that are at most one more, or not more, in each rule.            *)
LEMMA SumGrows ==
    ASSUME NEW counts \in [Rules -> Nat], NEW more \in [Rules -> Nat], NEW one \in {0, 1},
           \A r \in Rules : more[r] <= counts[r] + one
    PROVE  /\ ActiveGoals(counts) \in Nat /\ ActiveGoals(more) \in Nat
           /\ ActiveGoals(more) <= ActiveGoals(counts) + (IF one = 1 THEN NumRules ELSE 0)
<1> DEFINE N == NumRules
           Extra(n) == IF one = 1 THEN n ELSE 0
<1>1. PICK f : Sums(counts, f)
  BY SumIs
<1>2. PICK g : Sums(more, g)
  BY SumIs
<1>3. N \in Nat /\ \A n \in 1..N : InOrder(n) \in Rules
  BY RulesAreListed
<1>4. \A n \in 0..N : f[n] \in Nat /\ g[n] \in Nat
  BY <1>1, <1>2 DEF Sums
<1> DEFINE T == {n \in Nat : g[n] <= f[n] + Extra(n)}
<1>5. 0 \in T
  BY <1>1, <1>2 DEF Sums
<1>6. ASSUME NEW n \in 0..(N - 1), n \in T PROVE n + 1 \in T
  <2>1. /\ n \in Nat /\ n + 1 \in Nat /\ n \in 0..N /\ n + 1 \in 0..N /\ n + 1 \in 1..N
    BY <1>3
  <2>2. /\ f[n + 1] = f[n] + counts[InOrder(n + 1)]
        /\ g[n + 1] = g[n] + more[InOrder(n + 1)]
    BY <1>1, <1>2 DEF Sums
  <2> PICK c \in Nat, m \in Nat : c = counts[InOrder(n + 1)] /\ m = more[InOrder(n + 1)] /\ m <= c + one
    BY <1>3, <2>1
  <2> PICK a \in Nat, b \in Nat : a = f[n] /\ b = g[n]
    BY <1>4, <2>1
  <2>3. f[n + 1] = a + c /\ g[n + 1] = b + m
    BY <2>2
  <2>4. b <= a + Extra(n)
    BY <1>6
  <2>5. b + m <= (a + c) + Extra(n + 1)
    BY <2>1, <2>4
  <2> HIDE DEF Extra
  <2>6. g[n + 1] <= f[n + 1] + Extra(n + 1)
    BY <2>3, <2>5
  <2> QED
    BY <2>1, <2>6
<1>7. N \in T
  <2> HIDE DEF T, N
  <2>1. 0..N \subseteq T
    BY <1>3, <1>5, <1>6, UpTo
  <2> QED
    BY <1>3, <2>1
<1>8. N \in 0..N
  BY <1>3
<1> QED
  BY <1>1, <1>2, <1>4, <1>7, <1>8 DEF Sums
LEMMA NoCounts == ActiveGoals([r \in Rules |-> 0]) = 0
<1> DEFINE zeros == [r \in Rules |-> 0]
<1>1. zeros \in [Rules -> Nat]
  OBVIOUS
<1>2. PICK f : Sums(zeros, f)
  BY <1>1, SumIs
<1>3. NumRules \in Nat /\ \A n \in 1..NumRules : zeros[InOrder(n)] = 0
  BY RulesAreListed
<1> HIDE DEF zeros
<1> DEFINE T == {n \in Nat : f[n] = 0}
<1>4. 0 \in T
  BY <1>2 DEF Sums
<1>5. ASSUME NEW n \in 0..(NumRules - 1), n \in T PROVE n + 1 \in T
  <2>1. n + 1 \in 1..NumRules /\ n + 1 \in Nat
    BY <1>3
  <2>2. f[n + 1] = f[n] + zeros[InOrder(n + 1)] /\ f[n] = 0
    BY <1>2, <1>5 DEF Sums
  <2>3. f[n + 1] = 0
    BY <1>3, <2>1, <2>2
  <2> QED
    BY <2>1, <2>3
<1> HIDE DEF T
<1>6. 0..NumRules \subseteq T
  BY <1>3, <1>4, <1>5, UpTo
<1>7. f[NumRules] = 0
  BY <1>3, <1>6 DEF T
<1> QED
  BY <1>2, <1>7 DEF Sums, zeros

-----------------------------------------------------------------------------
(* The windows of the detector.                                            *)

Window(S) == {w \in Seq(S) : Len(w) <= WindowSize}

LEMMA RollKeeps ==
    ASSUME NEW S, NEW window \in Window(S), NEW entry \in S
    PROVE  Roll(window, entry) \in Window(S)
<1> DEFINE longer == Append(window, entry)
<1>1. /\ longer \in Seq(S) /\ Len(longer) = Len(window) + 1 /\ longer # <<>>
      /\ Len(window) \in Nat /\ Len(window) <= WindowSize
  BY AppendProperties, LenProperties DEF Window
<1>2. Tail(longer) \in Seq(S) /\ Len(Tail(longer)) = Len(window)
  <2> HIDE DEF longer
  <2>1. Tail(longer) \in Seq(S) /\ Len(Tail(longer)) = Len(longer) - 1
    BY <1>1, HeadTailProperties
  <2> QED
    BY <1>1, <2>1
<1> HIDE DEF longer
<1>3. Roll(window, entry) = IF Len(longer) > WindowSize THEN Tail(longer) ELSE longer
  BY DEF Roll, longer
<1>4. CASE Len(longer) > WindowSize
  BY <1>1, <1>2, <1>3, <1>4 DEF Window
<1>5. CASE ~(Len(longer) > WindowSize)
  BY <1>1, <1>3, <1>5, DetectorConstants DEF Window
<1> QED
  BY <1>4, <1>5

LEMMA DetectorKeeps ==
    ASSUME NEW d \in Detector
    PROVE  /\ \A score \in Scores : FeedCriticScore(d, score) \in Detector
           /\ \A completed \in BOOLEAN : FeedGoalCompleted(d, completed) \in Detector
           /\ AfterTick(d) \in Detector
<1>1. d \in [critic : Window(Scores), completions : Window(BOOLEAN), drift : BOOLEAN, streak : Nat]
  BY DEF Detector, Window
<1>2. ASSUME NEW score \in Scores PROVE FeedCriticScore(d, score) \in Detector
  <2>1. PICK w \in Window(Scores) : w = Roll(d.critic, score)
    BY <1>1, RollKeeps
  <2> QED
    BY <1>1, <2>1 DEF FeedCriticScore, Detector, Window
<1>3. ASSUME NEW completed \in BOOLEAN PROVE FeedGoalCompleted(d, completed) \in Detector
  <2>1. PICK w \in Window(BOOLEAN) : w = Roll(d.completions, completed)
    BY <1>1, RollKeeps
  <2> QED
    BY <1>1, <2>1 DEF FeedGoalCompleted, Detector, Window
<1>4. AfterTick(d) \in Detector
  <2>1. \/ AfterTick(d) = d
        \/ \E drift \in BOOLEAN, streak \in Nat :
              AfterTick(d) = [d EXCEPT !.drift = drift, !.streak = streak]
    <3>0. d.drift \in BOOLEAN /\ d.streak \in Nat /\ d.streak + 1 \in Nat
      BY <1>1
    <3>1. CASE AnyBreached(d)
      BY <3>1 DEF AfterTick
    <3>2. CASE ~AnyBreached(d) /\ ~d.drift
      BY <3>2 DEF AfterTick
    <3>3. CASE ~AnyBreached(d) /\ d.drift /\ d.streak + 1 >= ClearWindow
      BY <3>3 DEF AfterTick
    <3>4. CASE ~AnyBreached(d) /\ d.drift /\ ~(d.streak + 1 >= ClearWindow)
      <4>1. AfterTick(d) = [d EXCEPT !.drift = d.drift, !.streak = d.streak + 1]
        BY <1>1, <3>4 DEF AfterTick
      <4> QED
        BY <3>0, <4>1
    <3> QED
      BY <3>1, <3>2, <3>3, <3>4
  <2> QED
    BY <2>1 DEF Detector
<1> QED
  BY <1>2, <1>3, <1>4

-----------------------------------------------------------------------------
(* The state is well formed.                                               *)

Loops == [thread : BOOLEAN, stage : Stages, cycle : 0..(ReflectEvery - 1)]
Ctls == [frozen : BOOLEAN, stop : BOOLEAN, thawing : BOOLEAN, callback : BOOLEAN]
Hists == [acts : Nat, quiet : Nat, byOperator : BOOLEAN]

LEMMA WellFormedIs ==
    WellFormed <=> /\ goals \in GoalList /\ det \in Detector /\ active \in [Rules -> Nat]
                   /\ loop \in Loops /\ ctl \in Ctls /\ hist \in Hists
                   /\ ActiveGoals(active) < MaxActive + NumRules
BY DEF WellFormed, TypeOK, SynthesizedIsBounded, GoalList, Loops, Ctls, Hists, NumRules

LEMMA WellFormedInit == Init => WellFormed
<1> SUFFICES ASSUME Init PROVE WellFormed
  OBVIOUS
<1>1. goals \in GoalList
  <2>1. <<>> \in Seq(Goals) /\ Len(<<>>) = 0 /\ DOMAIN <<>> = {}
    BY EmptySeq
  <2> QED
    BY <2>1, GoalBound DEF Init, GoalList, IsOrdered
<1>2. det \in Detector
  BY DetectorConstants DEF Init, NewDetector, Detector
<1>3. active \in [Rules -> Nat] /\ ActiveGoals(active) < MaxActive + NumRules
  BY NoCounts, RulesAreListed, LoopConstants DEF Init
<1>4. loop \in Loops /\ ctl \in Ctls /\ hist \in Hists
  BY LoopConstants DEF Init, Loops, Ctls, Hists, Stages
<1> QED
  BY <1>1, <1>2, <1>3, <1>4, WellFormedIs

(* One rule fires at most once in a tick, and none when the cap is reached. *)
LEMMA SynthesisKeeps ==
    ASSUME WellFormed, NEW over \in SUBSET Rules, NEW firing \in SUBSET Rules,
           SynthesizeGoals(over, firing)
    PROVE  /\ goals' \in GoalList /\ active' \in [Rules -> Nat]
           /\ ActiveGoals(active)' < MaxActive + NumRules
<1> DEFINE left == [r \in Rules |-> IF r \in over THEN 0 ELSE active[r]]
           fired == IF ActiveGoals(left) >= MaxActive THEN {} ELSE firing
           more == [r \in Rules |-> left[r] + (IF r \in fired THEN 1 ELSE 0)]
<1>1. goals \in GoalList /\ active \in [Rules -> Nat] /\ ActiveGoals(active) < MaxActive + NumRules
  BY WellFormedIs
<1>2. left \in [Rules -> Nat] /\ more \in [Rules -> Nat] /\ fired \in SUBSET Rules
  BY <1>1
<1>3. /\ \A r \in Rules : left[r] <= active[r] + 0
      /\ \A r \in Rules : more[r] <= left[r] + 1
      /\ fired = {} => \A r \in Rules : more[r] <= left[r] + 0
  BY <1>1
<1>4. /\ goals' = AddSynthesized(CompleteGoals(goals, {r.name : r \in over}), fired)
      /\ active' = more
  BY DEF SynthesizeGoals
<1>5. ActiveGoals(left) >= MaxActive => fired = {}
  OBVIOUS
<1> HIDE DEF left, fired, more
<1>6. goals' \in GoalList
  BY <1>1, <1>2, <1>4, CompleteGoalsKeeps, AddSynthesizedKeeps
<1>7. NumRules \in Nat /\ MaxActive \in Nat
  BY RulesAreListed, LoopConstants
<1>8. /\ ActiveGoals(left) \in Nat /\ ActiveGoals(active) \in Nat
      /\ ActiveGoals(left) <= ActiveGoals(active)
  <2>1. /\ ActiveGoals(left) \in Nat /\ ActiveGoals(active) \in Nat
        /\ ActiveGoals(left) <= ActiveGoals(active) + (IF 0 = 1 THEN NumRules ELSE 0)
    BY <1>1, <1>2, <1>3, SumGrows
  <2> QED
    BY <2>1
<1>9. ActiveGoals(more) < MaxActive + NumRules
  <2>1. CASE ActiveGoals(left) >= MaxActive
    <3>1. \A r \in Rules : more[r] <= left[r] + 0
      BY <1>3, <1>5, <2>1
    <3>2. /\ ActiveGoals(more) \in Nat
          /\ ActiveGoals(more) <= ActiveGoals(left) + (IF 0 = 1 THEN NumRules ELSE 0)
      BY <1>2, <3>1, SumGrows
    <3> QED
      BY <1>1, <1>7, <1>8, <3>2
  <2>2. CASE ~(ActiveGoals(left) >= MaxActive)
    <3>1. /\ ActiveGoals(more) \in Nat
          /\ ActiveGoals(more) <= ActiveGoals(left) + (IF 1 = 1 THEN NumRules ELSE 0)
      BY <1>2, <1>3, SumGrows
    <3> QED
      BY <1>7, <1>8, <2>2, <3>1
  <2> QED
    BY <2>1, <2>2
<1>10. ActiveGoals(active)' = ActiveGoals(more)
  BY <1>4 DEF ActiveGoals
<1> QED
  BY <1>2, <1>4, <1>6, <1>9, <1>10

LEMMA WellFormedStep == WellFormed /\ [Next]_vars => WellFormed'
<1> SUFFICES ASSUME WellFormed, [Next]_vars PROVE WellFormed'
  OBVIOUS
<1> DEFINE Rest == /\ goals' \in GoalList /\ det' \in Detector
                   /\ loop' \in Loops /\ ctl' \in Ctls /\ hist' \in Hists
<1>1. /\ goals \in GoalList /\ det \in Detector /\ active \in [Rules -> Nat]
      /\ loop \in Loops /\ ctl \in Ctls /\ hist \in Hists
      /\ ActiveGoals(active) < MaxActive + NumRules
  BY WellFormedIs
<1>2. ASSUME Rest, active' \in [Rules -> Nat], ActiveGoals(active)' < MaxActive + NumRules
      PROVE  WellFormed'
  BY <1>2 DEF WellFormed, TypeOK, SynthesizedIsBounded, GoalList, Loops, Ctls, Hists, NumRules
<1>3. ASSUME Rest, active' = active PROVE WellFormed'
  <2>1. ActiveGoals(active)' = ActiveGoals(active)
    BY <1>3 DEF ActiveGoals
  <2> QED
    BY <1>1, <1>2, <1>3, <2>1
<1>4. CASE ThreadTick \/ TickOnce
  <2>1. BeginTick
    BY <1>4 DEF ThreadTick, TickOnce
  <2>2. PICK over \in SUBSET Rules, firing \in SUBSET Rules : SynthesizeGoals(over, firing)
    BY <2>1 DEF BeginTick
  <2>3. /\ goals' \in GoalList /\ active' \in [Rules -> Nat]
        /\ ActiveGoals(active)' < MaxActive + NumRules
    BY <2>2, SynthesisKeeps
  <2>4. det' \in Detector /\ loop' \in Loops /\ ctl' \in Ctls /\ hist' \in Hists
    BY <1>1, <2>1 DEF BeginTick, Loops, Stages
  <2> QED
    BY <1>2, <2>3, <2>4
<1>5. CASE Reflect
  <2>1. loop' \in Loops
    <3>1. (loop.cycle + 1) % ReflectEvery \in 0..(ReflectEvery - 1)
      BY <1>1, LoopConstants DEF Loops
    <3>2. loop' = [loop EXCEPT !.stage = "check", !.cycle = (loop.cycle + 1) % ReflectEvery]
      BY <1>5 DEF Reflect
    <3> QED
      BY <1>1, <3>1, <3>2 DEF Loops, Stages
  <2>2. UNCHANGED <<active, ctl, hist>>
    BY <1>5 DEF Reflect
  <2>3. goals' \in GoalList /\ det' \in Detector
    <3>1. CASE UNCHANGED <<goals, det>>
      BY <1>1, <3>1
    <3>2. ASSUME NEW report \in Reports, SideEffects(report)
          PROVE  goals' \in GoalList /\ det' \in Detector
      <4>1. report.score \in Scores
        BY DEF Reports
      <4> QED
        BY <1>1, <3>2, <4>1, DetectorKeeps, AddGoalKeeps, GoalsHavePriorities DEF SideEffects
    <3> QED
      BY <1>5, <3>1, <3>2 DEF Reflect
  <2> QED
    BY <1>1, <1>3, <2>1, <2>2, <2>3
<1>6. CASE ThreadEnds \/ CheckFrozen \/ Idle
  BY <1>1, <1>3, <1>6 DEF ThreadEnds, CheckFrozen, Idle, Loops, Stages
<1>7. CASE Act \/ ActRaises
  <2>1. loop' \in Loops /\ hist' \in Hists /\ UNCHANGED <<active, ctl>>
    <3>1. loop' \in Loops /\ UNCHANGED <<active, ctl>>
      BY <1>1, <1>7 DEF Act, ActRaises, Loops, Stages
    <3>2. hist.acts + 1 \in Nat
      BY <1>1 DEF Hists
    <3>3. PICK n \in Nat : hist' = [hist EXCEPT !.acts = n]
      BY <1>7, <3>2 DEF Act, ActRaises, CountAct
    <3> QED
      BY <1>1, <3>1, <3>3 DEF Hists
  <2>2. goals' \in GoalList
    BY <1>1, <1>7, CompleteCurrentKeeps DEF Act, ActRaises, Settle
  <2>3. det' \in Detector
    <3>1. CASE UNCHANGED det
      BY <1>1, <3>1
    <3>2. ASSUME NEW score \in Scores, NEW completed \in BOOLEAN,
                 det' = FeedGoalCompleted(FeedCriticScore(det, score), completed)
          PROVE  det' \in Detector
      <4>1. FeedCriticScore(det, score) \in Detector
        BY <1>1, DetectorKeeps
      <4> QED
        BY <3>2, <4>1, DetectorKeeps
    <3> QED
      BY <1>7, <3>1, <3>2 DEF Act, ActRaises
  <2> QED
    BY <1>1, <1>3, <2>1, <2>2, <2>3
<1>8. CASE DriftTick
  <2>1. loop' \in Loops /\ UNCHANGED active
    BY <1>1, <1>8 DEF DriftTick, Loops, Stages
  <2>2. ctl' \in Ctls
    BY <1>1, <1>8 DEF DriftTick, Callbacks, Ctls
  <2>3. hist' \in Hists
    <3>1. hist.quiet + 1 \in Nat /\ hist.acts \in Nat
      BY <1>1 DEF Hists
    <3>2. PICK q \in Nat, n \in Nat : hist' = [hist EXCEPT !.quiet = q, !.acts = n]
      BY <1>8, <3>1 DEF DriftTick
    <3> QED
      BY <1>1, <3>2 DEF Hists
  <2>4. goals' \in GoalList /\ det' \in Detector
    BY <1>1, <1>8, DetectorKeeps, AddGoalKeeps, GoalsHavePriorities DEF DriftTick
  <2> QED
    BY <1>3, <2>1, <2>2, <2>3, <2>4
<1>9. CASE AddOperatorGoal
  <2>1. PICK goal \in OperatorGoals : goals' = AddGoal(goals, goal)
    BY <1>9 DEF AddOperatorGoal
  <2>2. goal \in Goals
    BY GoalsHavePriorities
  <2>3. goals' \in GoalList
    BY <1>1, <2>1, <2>2, AddGoalKeeps
  <2>4. UNCHANGED <<det, active, loop, ctl, hist>>
    BY <1>9 DEF AddOperatorGoal, outside
  <2> QED
    BY <1>1, <1>3, <2>3, <2>4
<1>10. CASE Start \/ Stop \/ Freeze \/ ThawCheck \/ Thaw
  <2>1. UNCHANGED <<goals, det, active>>
    BY <1>10 DEF Start, Stop, Freeze, ThawCheck, Thaw, outside
  <2>2. loop' \in Loops
    BY <1>1, <1>10 DEF Start, Stop, Freeze, ThawCheck, Thaw, Loops
  <2>3. ctl' \in Ctls
    BY <1>1, <1>10 DEF Start, Stop, Freeze, ThawCheck, Thaw, Ctls
  <2>4. hist' \in Hists
    <3>1. CASE Start \/ Stop \/ ThawCheck
      BY <1>1, <3>1 DEF Start, Stop, ThawCheck
    <3>2. CASE Freeze
      BY <1>1, <3>2 DEF Freeze, Hists
    <3>3. CASE Thaw
      BY <1>1, <3>3 DEF Thaw, Hists
    <3> QED
      BY <1>10, <3>1, <3>2, <3>3
  <2> QED
    BY <1>1, <1>3, <2>1, <2>2, <2>3, <2>4
<1>11. CASE UNCHANGED vars
  BY <1>1, <1>3, <1>11 DEF vars
<1> QED
  BY <1>4, <1>5, <1>6, <1>7, <1>8, <1>9, <1>10, <1>11 DEF Next, Tick, Operator

(* The goal list stays in order, the detector's windows and the count of   *)
(* synthesized goals within their bounds.                                  *)
THEOREM StateWellFormed == Spec => []WellFormed
BY WellFormedInit, WellFormedStep, PTL DEF Spec
=============================================================================
