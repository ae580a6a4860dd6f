--------------------------- MODULE PromptPathProofs ---------------------------
(***************************************************************************)
(* Theorems about model prompts and the managed server, for any callers,   *)
(* any number of prompts and any retry budget.                             *)
(***************************************************************************)
EXTENDS PromptPath, FiniteSetTheorems, SequenceTheorems, TLAPS

Budgets == [Options -> 0..MaxAttempts]

(* choose() returns an option its budget still allows, or none.            *)
LEMMA ChoiceIs ==
    ASSUME NEW used \in Budgets, NEW outcome
    PROVE  LET choice == Choice(used, OptionsFor(outcome)) IN
           /\ choice # None => /\ choice \in Options /\ used[choice] < MaxAttempts
                               /\ choice # Partial <=> outcome # "interrupted"
           /\ Spend(used, choice) \in Budgets
<1> USE PromptConstants
<1> DEFINE options == OptionsFor(outcome)
           allowed == Allowed(used, options)
           least == CHOOSE i \in allowed : \A j \in allowed : i <= j
           choice == Choice(used, options)
<1>1. /\ DOMAIN options \in {{1}, {1, 2, 3}}
      /\ \A i \in DOMAIN options : /\ options[i] \in Options
                                   /\ options[i] # None
                                   /\ options[i] # Partial <=> outcome # "interrupted"
  BY DEF OptionsFor, Options, None, Partial, Router, EchoStub, Smaller
<1>2. CASE allowed = {}
  BY <1>2 DEF Choice, Spend
<1>3. CASE allowed # {}
  <2>1. allowed \subseteq DOMAIN options
    BY DEF Allowed
  <2>2. \E i \in allowed : \A j \in allowed : i <= j
    <3> HIDE DEF allowed, options
    <3>1. allowed \subseteq {1, 2, 3}
      BY <1>1, <2>1
    <3>2. CASE 1 \in allowed
      BY <3>1, <3>2
    <3>3. CASE 1 \notin allowed /\ 2 \in allowed
      BY <3>1, <3>3
    <3>4. CASE 1 \notin allowed /\ 2 \notin allowed
      <4>1. allowed = {3}
        BY <1>3, <3>1, <3>4
      <4> QED
        BY <4>1
    <3> QED
      BY <3>2, <3>3, <3>4
  <2>3. least \in allowed
    BY <2>2
  <2>4. choice = options[least]
    BY <1>3 DEF Choice
  <2>5. least \in DOMAIN options /\ used[options[least]] < MaxAttempts
    BY <2>3 DEF Allowed
  <2> HIDE DEF least, options, allowed, choice
  <2>6. /\ choice \in Options /\ choice # None /\ used[choice] < MaxAttempts
        /\ choice # Partial <=> outcome # "interrupted"
    BY <1>1, <2>4, <2>5
  <2>7. Spend(used, choice) \in Budgets
    BY <2>6 DEF Spend, Budgets
  <2> QED
    BY <2>6, <2>7 DEF choice, options
<1> QED
  BY <1>2, <1>3

(* Whatever is chosen in the end, the budgets are kept, and an interrupt   *)
(* is answered by neither the router nor the echo.                         *)
LEMMA ChosenIs ==
    ASSUME NEW outcome, spent.option \in Budgets
    PROVE  /\ Chosen(outcome).used \in Budgets
           /\ outcome = "interrupted" => Chosen(outcome).mode \notin {Router, EchoStub}
<1> DEFINE first == Choice(spent.option, OptionsFor(outcome))
           afterFirst == Spend(spent.option, first)
           second == Choice(afterFirst, OptionsFor(outcome))
<1>1. /\ afterFirst \in Budgets
      /\ first # None => (first # Partial <=> outcome # "interrupted")
  BY ChoiceIs
<1> HIDE DEF first, afterFirst
<1>2. Spend(afterFirst, second) \in Budgets
  BY <1>1, ChoiceIs
<1>3. outcome = "interrupted" => first \notin {Router, EchoStub}
  BY <1>1 DEF None, Partial, Router, EchoStub
<1>4. Chosen(outcome) = IF outcome = "interrupted" \/ first \in {Router, EchoStub}
                        THEN [mode |-> first, used |-> afterFirst]
                        ELSE [mode |-> second, used |-> Spend(afterFirst, second)]
  BY DEF Chosen, first, afterFirst
<1> HIDE DEF second
<1> QED
  BY <1>1, <1>2, <1>3, <1>4
-----------------------------------------------------------------------------
(***************************************************************************)
(* The inductive invariant.  A frame exists only while its prompt is       *)
(* generated, and what it waits for is its own; while the manager is calm, *)
(* there is one frame, and from the moment it finds no living server to    *)
(* the moment it has one of its own, none lives behind the handle.  Every  *)
(* prompt asked pays for one server.                                       *)
(***************************************************************************)
FramesFollowPrompts ==
    \A c \in Callers :
        /\ frame[c].proc # 0 => frame[c].stage = "waiting"
        /\ frame[c].stage # "out" => prompt[c].stage = "generating"
        /\ prompt[c].stage \in {"idle", "approved", "generating"} => prompt[c].status = "none"
        /\ prompt[c].stage \in {"idle", "approved"} => prompt[c].rows = {}
        /\ prompt[c].stage = "routing" => "fallback" \in prompt[c].rows

LoneFrame ==
    Calm => /\ \A c, d \in InBackend : c = d
            /\ \A c \in Callers : frame[c].stage \in {"waiting", "forgetting"} => ~Warm
            /\ InBackend = {} /\ ~keepAlive => ~Warm

Starters == {c \in Callers : prompt[c].stage = "approved" \/ frame[c].stage = "resolving"}

StartsArePaid == Len(servers) + Cardinality(Starters) <= spent.asked

PathInv ==
    /\ TypeOK /\ FramesFollowPrompts /\ LoneFrame /\ OneServer /\ StartsArePaid
    /\ EveryPromptIsRecorded /\ InterruptIsFinal

LEMMA StartersCount ==
    /\ IsFiniteSet(Starters) /\ Cardinality(Starters) \in Nat
    /\ \A c : IsFiniteSet(Starters \cup {c}) /\ IsFiniteSet(Starters \ {c})
    /\ \A c : Cardinality(Starters \cup {c})
                = IF c \in Starters THEN Cardinality(Starters) ELSE Cardinality(Starters) + 1
    /\ \A c : Cardinality(Starters \ {c})
                = IF c \in Starters THEN Cardinality(Starters) - 1 ELSE Cardinality(Starters)
<1>1. Starters \in SUBSET Callers
  BY DEF Starters
<1>2. IsFiniteSet(Starters) /\ Cardinality(Starters) \in Nat
  BY <1>1, ManagerConstants, FS_Subset, FS_CardinalityType
<1> QED
  BY <1>2, FS_AddElement, FS_RemoveElement

LEMMA NoPromptIs ==
    NoPrompt \in Prompt /\ NoPrompt.rows = {} /\ NoPrompt.status = "none"
BY DEF NoPrompt, Prompt

(* What a prompt may come to, once its frame is gone.                      *)
Sound(c, r) ==
    /\ r \in Prompt /\ r.stage # "generating"
    /\ r.stage \in {"idle", "approved"} => r.rows = {} /\ r.status = "none"
    /\ r.stage = "routing" => "fallback" \in r.rows
    /\ r.stage = "returned" => r.rows \cap {"fallback", "receipt"} # {}
    /\ r.rows # {} /\ frame[c].outcome = "interrupted"
          => r.stage # "routing" /\ r.status # "completed_fallback"

(* The invariant asks no more than that of a step that only touches one    *)
(* prompt.                                                                 *)
LEMMA SoundStepKeeps ==
    ASSUME PathInv, NEW c \in Callers, NEW r, Sound(c, r),
           frame[c].stage = "out", UNCHANGED manager,
           prompt' = [prompt EXCEPT ![c] = r],
           spent' \in [asked : 0..MaxPrompts, option : Budgets],
           StartsArePaid'
    PROVE  PathInv'
<1> USE DEF PathInv
<1>1. UNCHANGED <<servers, handle, keepAlive, frame, history>>
  BY DEF manager
<1>2. ManagerTypeOK' /\ LoneFrame' /\ OneServer'
  BY <1>1 DEF ManagerTypeOK, LoneFrame, OneServer, TypeOK, Calm, InBackend, Warm, Alive
<1>3. prompt \in [Callers -> Prompt] /\ r \in Prompt
  BY DEF TypeOK, Sound
<1>4. \A d \in Callers : prompt'[d] = IF d = c THEN r ELSE prompt[d]
  BY <1>3
<1>5. TypeOK'
  BY <1>1, <1>2, <1>3 DEF TypeOK, Budgets
<1>6. FramesFollowPrompts' /\ EveryPromptIsRecorded' /\ InterruptIsFinal'
  BY <1>1, <1>4 DEF FramesFollowPrompts, EveryPromptIsRecorded, InterruptIsFinal, Sound
<1> QED
  BY <1>2, <1>5, <1>6

(* Such a step leaves the starts paid for, as a caller that is asked is    *)
(* one more that may start a server, and no other step adds one.           *)
LEMMA PromptStepKeeps ==
    ASSUME PathInv, NEW c \in Callers,
           Ask(c) \/ UnknownBackend(c) \/ Complete(c) \/ FallBack(c) \/ Routed(c)
    PROVE  PathInv'
<1> USE PromptConstants
<1>1. UNCHANGED manager
  BY DEF Ask, UnknownBackend, Complete, FallBack, Routed
<1>2. UNCHANGED <<servers, frame>>
  BY <1>1 DEF manager
<1>3. /\ prompt \in [Callers -> Prompt] /\ prompt[c] \in Prompt
      /\ spent \in [asked : 0..MaxPrompts, option : Budgets]
      /\ Len(servers) \in Nat
      /\ Len(servers) + Cardinality(Starters) <= spent.asked
      /\ frame[c].outcome # "interrupted" \/ frame[c].outcome = "interrupted"
  BY LenProperties DEF PathInv, TypeOK, ManagerTypeOK, Budgets, StartsArePaid
<1>4. CASE Ask(c)
  <2> DEFINE r == [NoPrompt EXCEPT !.stage = "approved"]
  <2>1. /\ prompt' = [prompt EXCEPT ![c] = r]
        /\ frame[c].stage = "out" /\ prompt[c].stage # "approved" /\ c \notin Starters
        /\ spent' = [spent EXCEPT !.asked = @ + 1] /\ spent.asked < MaxPrompts
    BY <1>4 DEF Ask, Starters
  <2>2. r \in Prompt /\ r.stage = "approved" /\ r.rows = {} /\ r.status = "none"
    BY NoPromptIs DEF Prompt
  <2> HIDE DEF r
  <2>3. Sound(c, r)
    BY <2>2 DEF Sound
  <2>4. Starters' = Starters \cup {c}
    BY <1>2, <1>3, <2>1, <2>2 DEF Starters
  <2>5. StartsArePaid'
    BY <1>2, <1>3, <2>1, <2>4, StartersCount DEF StartsArePaid
  <2>6. spent' \in [asked : 0..MaxPrompts, option : Budgets]
    BY <1>3, <2>1
  <2> QED
    BY <1>1, <2>1, <2>3, <2>5, <2>6, SoundStepKeeps
<1>5. CASE UnknownBackend(c)
  <2> DEFINE r == [prompt[c] EXCEPT !.stage = "raised"]
  <2>1. prompt' = [prompt EXCEPT ![c] = r] /\ UNCHANGED spent
    BY <1>5 DEF UnknownBackend
  <2>2. /\ prompt[c].stage = "approved" /\ frame[c].stage = "out" /\ prompt[c].rows = {}
    BY <1>5 DEF UnknownBackend, PathInv, FramesFollowPrompts, ManagerTypeOK, TypeOK, Frame
  <2>3. r \in Prompt /\ r.stage = "raised" /\ r.rows = {}
    BY <1>3, <2>2 DEF Prompt
  <2> HIDE DEF r
  <2>4. Sound(c, r)
    BY <2>3 DEF Sound
  <2>5. Starters' = Starters \ {c}
    BY <1>2, <1>3, <2>1, <2>2, <2>3 DEF Starters
  <2>6. StartsArePaid'
    BY <1>2, <1>3, <2>1, <2>5, StartersCount DEF StartsArePaid
  <2> QED
    BY <1>1, <1>3, <2>1, <2>2, <2>4, <2>6, SoundStepKeeps
<1>6. ASSUME NEW r, prompt' = [prompt EXCEPT ![c] = r], Sound(c, r),
             prompt[c].stage # "approved", r.stage # "approved", frame[c].stage = "out",
             UNCHANGED spent \/ \E used \in Budgets : spent' = [spent EXCEPT !.option = used]
      PROVE  PathInv'
  <2>1. Starters' = Starters
    BY <1>2, <1>3, <1>6 DEF Starters
  <2>2. spent' \in [asked : 0..MaxPrompts, option : Budgets] /\ spent'.asked = spent.asked
    BY <1>3, <1>6
  <2>3. StartsArePaid'
    BY <1>2, <1>3, <2>1, <2>2 DEF StartsArePaid
  <2> QED
    BY <1>1, <1>6, <2>2, <2>3, SoundStepKeeps
<1>7. CASE Complete(c)
  <2> DEFINE r == [prompt[c] EXCEPT !.stage = "returned", !.rows = @ \cup {"receipt"},
                                    !.status = "ok"]
  <2>1. r \in Prompt /\ r.stage = "returned" /\ "receipt" \in r.rows /\ r.status = "ok"
    BY <1>3 DEF Prompt
  <2>2. prompt' = [prompt EXCEPT ![c] = r] /\ UNCHANGED spent
        /\ prompt[c].stage = "generating" /\ frame[c].stage = "out"
    BY <1>3, <1>7 DEF Complete, Finished
  <2> HIDE DEF r
  <2>3. Sound(c, r)
    BY <2>1 DEF Sound
  <2> QED
    BY <1>6, <2>1, <2>2, <2>3
<1>8. CASE FallBack(c)
  <2> DEFINE choice == Chosen(frame[c].outcome)
  <2>1. choice.used \in Budgets
        /\ (frame[c].outcome = "interrupted" => choice.mode \notin {Router, EchoStub})
    BY <1>3, ChosenIs
  <2>2. \/ choice.mode = Router /\ Route(c, choice.used)
        \/ choice.mode = EchoStub /\ Echo(c, choice.used)
        \/ Interrupted(c, choice.mode, choice.used)
    BY <1>8 DEF FallBack
  <2>3. prompt[c].stage = "generating" /\ frame[c].stage = "out"
    BY <1>8 DEF FallBack, Finished
  <2> HIDE DEF choice
  <2>4. CASE choice.mode = Router /\ Route(c, choice.used)
    <3> DEFINE r == [prompt[c] EXCEPT !.stage = "routing", !.rows = @ \cup {"fallback"}]
    <3>1. r \in Prompt /\ r.stage = "routing" /\ "fallback" \in r.rows
      BY <1>3 DEF Prompt
    <3>2. prompt' = [prompt EXCEPT ![c] = r] /\ spent' = [spent EXCEPT !.option = choice.used]
      BY <1>3, <2>4 DEF Route
    <3> HIDE DEF r
    <3>3. Sound(c, r)
      BY <2>1, <2>4, <3>1 DEF Sound
    <3> QED
      BY <1>6, <2>1, <2>3, <3>1, <3>2, <3>3
  <2>5. CASE choice.mode = EchoStub /\ Echo(c, choice.used)
    <3> DEFINE r == [prompt[c] EXCEPT !.stage = "returned", !.status = "completed_fallback",
                                      !.rows = @ \cup {"fallback", "receipt"}]
    <3>1. r \in Prompt /\ r.stage = "returned" /\ "receipt" \in r.rows
      BY <1>3 DEF Prompt
    <3>2. prompt' = [prompt EXCEPT ![c] = r] /\ spent' = [spent EXCEPT !.option = choice.used]
      BY <1>3, <2>5 DEF Echo
    <3> HIDE DEF r
    <3>3. Sound(c, r)
      BY <2>1, <2>5, <3>1 DEF Sound
    <3> QED
      BY <1>6, <2>1, <2>3, <3>1, <3>2, <3>3
  <2>6. CASE Interrupted(c, choice.mode, choice.used)
    <3> DEFINE r == [prompt[c] EXCEPT !.stage = "returned", !.status = "interrupted",
                                      !.rows = @ \cup {"receipt"}]
    <3>1. r \in Prompt /\ r.stage = "returned" /\ "receipt" \in r.rows
          /\ r.status = "interrupted"
      BY <1>3 DEF Prompt
    <3>2. prompt' = [prompt EXCEPT ![c] = r] /\ spent' = [spent EXCEPT !.option = choice.used]
      BY <1>3, <2>6 DEF Interrupted
    <3> HIDE DEF r
    <3>3. Sound(c, r)
      BY <3>1 DEF Sound
    <3> QED
      BY <1>6, <2>1, <2>3, <3>1, <3>2, <3>3
  <2> QED
    BY <2>2, <2>4, <2>5, <2>6
<1>9. CASE Routed(c)
  <2>1. /\ prompt[c].stage = "routing" /\ UNCHANGED spent
        /\ frame[c].stage = "out" /\ "fallback" \in prompt[c].rows
        /\ frame[c].outcome # "interrupted"
    BY <1>9 DEF Routed, PathInv, FramesFollowPrompts, InterruptIsFinal, TypeOK
  <2>2. CASE prompt' = [prompt EXCEPT ![c].stage = "returned",
                                      ![c].status = "completed_fallback"]
    <3> DEFINE r == [prompt[c] EXCEPT !.stage = "returned", !.status = "completed_fallback"]
    <3>1. r \in Prompt /\ r.stage = "returned" /\ "fallback" \in r.rows
      BY <1>3, <2>1 DEF Prompt
    <3>2. prompt' = [prompt EXCEPT ![c] = r]
      BY <1>3, <2>2
    <3> HIDE DEF r
    <3>3. Sound(c, r)
      BY <2>1, <3>1 DEF Sound
    <3> QED
      BY <1>6, <2>1, <3>1, <3>2, <3>3
  <2>3. CASE prompt' = [prompt EXCEPT ![c].stage = "raised"]
    <3> DEFINE r == [prompt[c] EXCEPT !.stage = "raised"]
    <3>1. r \in Prompt /\ r.stage = "raised"
      BY <1>3 DEF Prompt
    <3>2. prompt' = [prompt EXCEPT ![c] = r]
      BY <1>3, <2>3
    <3> HIDE DEF r
    <3>3. Sound(c, r)
      BY <2>1, <3>1 DEF Sound
    <3> QED
      BY <1>6, <2>1, <3>1, <3>2, <3>3
  <2> QED
    BY <1>9, <2>2, <2>3 DEF Routed
<1> QED
  BY <1>4, <1>5, <1>7, <1>8, <1>9
-----------------------------------------------------------------------------
(***************************************************************************)
(* The steps of the manager.                                               *)
(***************************************************************************)

(* While the manager is calm, the frame that takes a step is the only one, *)
(* so a living server is its own or the one remembered.                    *)
LEMMA AloneWhenCalm ==
    ASSUME PathInv, Calm, NEW c \in Callers, frame[c].stage # "out"
    PROVE  /\ \A d \in Callers : d # c => frame[d].stage = "out" /\ frame[d].proc = 0
           /\ \A s \in DOMAIN servers : Alive(s) => s = handle \/ s = frame[c].proc
<1>1. \A d \in Callers : d # c => frame[d].stage = "out"
  BY DEF PathInv, LoneFrame, InBackend
<1>2. \A d \in Callers : frame[d].proc # 0 => frame[d].stage = "waiting"
  BY DEF PathInv, FramesFollowPrompts
<1>3. \A d \in Callers : d # c => frame[d].proc = 0
  BY <1>1, <1>2
<1>4. \A s \in DOMAIN servers : s # 0
  BY DEF PathInv, TypeOK, ManagerTypeOK
<1> QED
  BY <1>1, <1>3, <1>4 DEF PathInv, OneServer

(* What is asked of a step that only one frame takes: the server it starts *)
(* is paid for, and, while the manager stays calm, what lives is its own   *)
(* or remembered, and nothing lives behind the handle when it should not.  *)
FrameStep(c, f) ==
    /\ frame' = [frame EXCEPT ![c] = f] /\ UNCHANGED <<prompt, spent, keepAlive>>
    /\ frame[c].stage # "out" /\ f.stage # "resolving"
    /\ f.proc # 0 => f.stage = "waiting"
    /\ f.proc <= Len(servers')
    /\ servers' \in Seq({"starting", "serving", "dead"}) /\ Len(servers) <= Len(servers')
    /\ Len(servers') <= IF frame[c].stage = "resolving" THEN Len(servers) + 1 ELSE Len(servers)
    /\ handle' \in 0..Len(servers')
    /\ history' \in [abandoned : BOOLEAN, met : BOOLEAN]

StaysCalm(f) ==
    Calm' => /\ Calm
             /\ f.stage \in {"waiting", "forgetting"} => ~Warm'
             /\ f.stage = "out" /\ ~keepAlive => ~Warm'
             /\ \A s \in DOMAIN servers' : servers'[s] # "dead" => s = handle' \/ s = f.proc

LEMMA FrameStepKeeps ==
    ASSUME PathInv, NEW c \in Callers, NEW f \in Frame, FrameStep(c, f), StaysCalm(f)
    PROVE  PathInv'
<1> USE PromptConstants DEF FrameStep, StaysCalm
<1>1. /\ frame \in [Callers -> Frame] /\ prompt \in [Callers -> Prompt]
      /\ spent.asked \in 0..MaxPrompts /\ keepAlive \in BOOLEAN
      /\ spent \in [asked : 0..MaxPrompts, option : [Options -> 0..MaxAttempts]]
      /\ \A d \in Callers : frame[d].proc \in Nat /\ frame[d].proc <= Len(servers)
      /\ Len(servers) \in Nat /\ Len(servers') \in Nat /\ f.proc \in Nat
  BY LenProperties DEF PathInv, TypeOK, ManagerTypeOK, Frame
<1>2. \A d \in Callers : frame'[d] = IF d = c THEN f ELSE frame[d]
  BY <1>1
<1>3. ManagerTypeOK'
  <2>1. frame' \in [Callers -> Frame]
    BY <1>1
  <2>2. \A d \in Callers : frame'[d].proc <= Len(servers')
    BY <1>1, <1>2
  <2> QED
    BY <1>1, <2>1, <2>2 DEF ManagerTypeOK
<1>4. StartsArePaid' /\ Len(servers') <= MaxPrompts
  <2>1. Starters' = IF frame[c].stage = "resolving" THEN Starters \ {c} ELSE Starters
    <3>1. prompt[c].stage # "approved"
      BY DEF PathInv, FramesFollowPrompts
    <3> QED
      BY <1>2, <3>1 DEF Starters
  <2>2. frame[c].stage = "resolving" => c \in Starters
    BY DEF Starters
  <2>3. Len(servers) + Cardinality(Starters) <= spent.asked
    BY DEF PathInv, StartsArePaid
  <2>4. Cardinality(Starters') \in Nat
        /\ Len(servers') + Cardinality(Starters') <= spent.asked
    <3>1. CASE frame[c].stage = "resolving"
      <4>1. /\ Cardinality(Starters \ {c}) = Cardinality(Starters) - 1
            /\ IsFiniteSet(Starters \ {c}) /\ Cardinality(Starters) \in Nat
        BY <2>2, <3>1, StartersCount
      <4>2. Cardinality(Starters \ {c}) \in Nat
        BY <4>1, FS_CardinalityType
      <4> QED
        BY <1>1, <2>1, <2>3, <3>1, <4>1, <4>2
    <3>2. CASE frame[c].stage # "resolving"
      BY <1>1, <2>1, <2>3, <3>2, StartersCount
    <3> QED
      BY <3>1, <3>2
  <2> QED
    BY <1>1, <2>4 DEF StartsArePaid
<1>5. TypeOK'
  BY <1>1, <1>3, <1>4 DEF TypeOK
<1>6. FramesFollowPrompts' /\ EveryPromptIsRecorded' /\ InterruptIsFinal'
  BY <1>2 DEF PathInv, FramesFollowPrompts, EveryPromptIsRecorded, InterruptIsFinal
<1>7. LoneFrame' /\ OneServer'
  <2> SUFFICES ASSUME Calm' PROVE LoneFrame' /\ OneServer'
    BY DEF LoneFrame, OneServer
  <2>1. \A d \in Callers : d # c => frame'[d].stage = "out" /\ frame'[d].proc = 0
    BY <1>2, AloneWhenCalm
  <2>2. \A d, e \in InBackend' : d = e
    BY <2>1 DEF InBackend
  <2>3. \A d \in Callers : frame'[d].stage \in {"waiting", "forgetting"} => ~Warm'
    BY <1>2, <2>1
  <2>4. InBackend' = {} /\ ~keepAlive' => ~Warm'
    BY <1>2 DEF InBackend
  <2>5. OneServer'
    BY <1>2 DEF OneServer, Alive
  <2> QED
    BY <2>2, <2>3, <2>4, <2>5 DEF LoneFrame
<1> QED
  BY <1>4, <1>5, <1>6, <1>7 DEF PathInv
LEMMA StreamKeeps ==
    ASSUME PathInv, NEW c \in Callers, Stream(c) \/ Interrupt(c), UNCHANGED <<prompt, spent>>
    PROVE  PathInv'
<1>1. /\ frame \in [Callers -> Frame] /\ frame[c] \in Frame
      /\ servers \in Seq({"starting", "serving", "dead"}) /\ Len(servers) \in Nat
      /\ handle \in 0..Len(servers) /\ keepAlive \in BOOLEAN
      /\ history \in [abandoned : BOOLEAN, met : BOOLEAN]
      /\ frame[c].proc <= Len(servers) /\ frame[c].proc \in Nat
      /\ frame[c].proc # 0 => frame[c].stage = "waiting"
      /\ DOMAIN servers = 1..Len(servers)
  BY LenProperties DEF PathInv, TypeOK, ManagerTypeOK, FramesFollowPrompts, Frame
<1>2. Calm /\ frame[c].stage # "out"
         => \A s \in DOMAIN servers : Alive(s) => s = handle \/ s = frame[c].proc
  BY AloneWhenCalm
<1>3. Calm /\ frame[c].stage \in {"waiting", "forgetting"} => ~Warm
  BY DEF PathInv, LoneFrame
<1>4. CASE Reuse(c)
  <2> DEFINE f == [frame[c] EXCEPT !.stage = "streaming"]
  <2>1. f \in Frame /\ f.stage = "streaming" /\ f.proc = frame[c].proc /\ f.proc = 0
    BY <1>1, <1>4 DEF Reuse, Frame
  <2>2. frame' = [frame EXCEPT ![c] = f]
    BY <1>4 DEF Reuse
  <2>3. frame[c].stage = "resolving" /\ UNCHANGED <<servers, handle, keepAlive, history>>
    BY <1>4 DEF Reuse
  <2> HIDE DEF f
  <2>4. Calm' => \A s \in DOMAIN servers' : servers'[s] # "dead" => s = handle' \/ s = f.proc
    BY <1>2, <2>1, <2>3 DEF Calm, Alive
  <2>8. FrameStep(c, f)
    BY <1>1, <2>1, <2>2, <2>3, <2>4 DEF FrameStep
  <2>9. StaysCalm(f)
    BY <1>1, <2>1, <2>2, <2>3, <2>4 DEF StaysCalm, Calm
  <2> QED
    BY <2>1, <2>8, <2>9, FrameStepKeeps
<1>5. CASE Start(c)
  <2> DEFINE f == [frame[c] EXCEPT !.stage = "waiting", !.proc = Len(servers) + 1]
  <2>1. f \in Frame /\ f.stage = "waiting" /\ f.proc = Len(servers) + 1
    <3>1. Len(servers) + 1 \in Nat
      BY <1>1
    <3> HIDE DEF Frame
    <3> QED
      BY <1>1, <3>1 DEF Frame
  <2>2. frame' = [frame EXCEPT ![c] = f]
    BY <1>5 DEF Start
  <2>3. /\ frame[c].stage = "resolving" /\ UNCHANGED <<handle, keepAlive, history>>
        /\ frame[c].proc = 0 /\ ~Warm
    BY <1>1, <1>5 DEF Start
  <2>4. /\ servers' \in Seq({"starting", "serving", "dead"})
        /\ Len(servers') = Len(servers) + 1
        /\ \A s \in 1..Len(servers) : servers'[s] = servers[s]
    <3>1. servers' = Append(servers, "starting")
      BY <1>5 DEF Start
    <3> QED
      BY <1>1, <3>1
  <2> HIDE DEF f
  <2>5. ~Warm'
    BY <1>1, <2>3, <2>4 DEF Warm, Alive
  <2>6. Calm' => \A s \in DOMAIN servers' : servers'[s] # "dead" => s = handle' \/ s = f.proc
    <3> SUFFICES ASSUME Calm', NEW s \in DOMAIN servers', servers'[s] # "dead", s # f.proc
                 PROVE  s = handle'
      OBVIOUS
    <3>1. s \in DOMAIN servers /\ servers'[s] = servers[s] /\ s # 0
      BY <1>1, <2>1, <2>4
    <3> QED
      BY <1>2, <2>3, <3>1 DEF Calm, Alive
  <2>8. FrameStep(c, f)
    BY <1>1, <2>1, <2>2, <2>3, <2>4, <2>5, <2>6 DEF FrameStep
  <2>9. StaysCalm(f)
    BY <1>1, <2>1, <2>2, <2>3, <2>4, <2>5, <2>6 DEF StaysCalm, Calm
  <2> QED
    BY <2>1, <2>8, <2>9, FrameStepKeeps
<1>6. CASE Ready(c)
  <2> DEFINE f == [frame[c] EXCEPT !.stage = "streaming", !.proc = 0]
  <2>1. f \in Frame /\ f.stage = "streaming" /\ f.proc = 0
    BY <1>1, <1>6 DEF Frame
  <2>2. frame' = [frame EXCEPT ![c] = f]
    BY <1>6 DEF Ready
  <2>3. /\ frame[c].stage = "waiting" /\ UNCHANGED <<servers, keepAlive, history>>
        /\ handle' = frame[c].proc
    BY <1>6 DEF Ready
  <2> HIDE DEF f
  <2>4. Calm' => \A s \in DOMAIN servers' : servers'[s] # "dead" => s = handle' \/ s = f.proc
    BY <1>1, <1>2, <1>3, <2>3 DEF Calm, Alive, Warm
  <2>8. FrameStep(c, f)
    BY <1>1, <2>1, <2>2, <2>3, <2>4 DEF FrameStep
  <2>9. StaysCalm(f)
    BY <1>1, <2>1, <2>2, <2>3, <2>4 DEF StaysCalm, Calm
  <2> QED
    BY <2>1, <2>8, <2>9, FrameStepKeeps
<1>7. ASSUME NEW outcome \in {"failed", "interrupted"}, StartGivenUp(c, outcome)
      PROVE  PathInv'
  <2> DEFINE f == [NoFrame EXCEPT !.outcome = outcome]
  <2>1. f \in Frame /\ f.stage = "out" /\ f.proc = 0
    BY <1>7 DEF Frame, NoFrame
  <2>2. /\ frame' = [frame EXCEPT ![c] = f] /\ frame[c].stage = "waiting"
        /\ history' = [history EXCEPT !.abandoned = TRUE]
        /\ UNCHANGED <<servers, handle, keepAlive>>
    BY <1>7 DEF StartGivenUp
  <2> HIDE DEF f
  <2>3. history' \in [abandoned : BOOLEAN, met : BOOLEAN] /\ ~Calm'
    BY <1>1, <2>2 DEF Calm
  <2>8. FrameStep(c, f)
    BY <1>1, <2>1, <2>2, <2>3 DEF FrameStep
  <2>9. StaysCalm(f)
    BY <1>1, <2>1, <2>2, <2>3 DEF StaysCalm, Calm
  <2> QED
    BY <2>1, <2>8, <2>9, FrameStepKeeps
<1>8. ASSUME NEW outcome \in {"done", "failed", "interrupted"}, Leave(c, outcome)
      PROVE  PathInv'
  <2> DEFINE f == [frame[c] EXCEPT !.stage = "finally", !.outcome = outcome]
  <2>1. f \in Frame /\ f.stage = "finally" /\ f.proc = frame[c].proc /\ f.proc = 0
    BY <1>1, <1>8 DEF Leave, Frame
  <2>2. /\ frame' = [frame EXCEPT ![c] = f] /\ frame[c].stage = "streaming"
        /\ UNCHANGED <<servers, handle, keepAlive, history>>
    BY <1>8 DEF Leave
  <2> HIDE DEF f
  <2>3. Calm' => \A s \in DOMAIN servers' : servers'[s] # "dead" => s = handle' \/ s = f.proc
    BY <1>1, <1>2, <2>1, <2>2 DEF Calm, Alive
  <2>8. FrameStep(c, f)
    BY <1>1, <2>1, <2>2, <2>3 DEF FrameStep
  <2>9. StaysCalm(f)
    BY <1>1, <2>1, <2>2, <2>3 DEF StaysCalm, Calm
  <2> QED
    BY <2>1, <2>8, <2>9, FrameStepKeeps
<1>9. CASE Kept(c)
  <2> DEFINE f == [frame[c] EXCEPT !.stage = "out"]
  <2>1. f \in Frame /\ f.stage = "out" /\ f.proc = frame[c].proc /\ f.proc = 0
    BY <1>1, <1>9 DEF Kept, Frame
  <2>2. /\ frame' = [frame EXCEPT ![c] = f] /\ frame[c].stage = "finally"
        /\ UNCHANGED <<servers, handle, keepAlive, history>> /\ (keepAlive \/ handle = 0)
    BY <1>9 DEF Kept
  <2> HIDE DEF f
  <2>3. Calm' => \A s \in DOMAIN servers' : servers'[s] # "dead" => s = handle' \/ s = f.proc
    BY <1>1, <1>2, <2>1, <2>2 DEF Calm, Alive
  <2>4. ~keepAlive => ~Warm'
    BY <1>1, <2>2 DEF Warm
  <2>8. FrameStep(c, f)
    BY <1>1, <2>1, <2>2, <2>3, <2>4 DEF FrameStep
  <2>9. StaysCalm(f)
    BY <1>1, <2>1, <2>2, <2>3, <2>4 DEF StaysCalm, Calm
  <2> QED
    BY <2>1, <2>8, <2>9, FrameStepKeeps
<1>10. CASE Terminate(c)
  <2> DEFINE f == [frame[c] EXCEPT !.stage = "forgetting"]
  <2>1. f \in Frame /\ f.stage = "forgetting" /\ f.proc = frame[c].proc /\ f.proc = 0
    BY <1>1, <1>10 DEF Terminate, Frame
  <2>2. /\ frame' = [frame EXCEPT ![c] = f] /\ frame[c].stage = "finally"
        /\ UNCHANGED <<handle, keepAlive, history>>
        /\ handle # 0 /\ servers' = [servers EXCEPT ![handle] = "dead"]
    BY <1>10 DEF Terminate
  <2> HIDE DEF f
  <2>3. /\ servers' \in Seq({"starting", "serving", "dead"}) /\ Len(servers') = Len(servers)
        /\ DOMAIN servers' = DOMAIN servers
        /\ \A s \in DOMAIN servers : servers'[s] = IF s = handle THEN "dead" ELSE servers[s]
    BY <1>1, <2>2
  <2>4. ~Warm'
    BY <1>1, <2>2, <2>3 DEF Warm, Alive
  <2>5. Calm' => \A s \in DOMAIN servers' : servers'[s] # "dead" => s = handle' \/ s = f.proc
    BY <1>2, <2>1, <2>2, <2>3 DEF Calm, Alive
  <2>8. FrameStep(c, f)
    BY <1>1, <2>1, <2>2, <2>3, <2>4, <2>5 DEF FrameStep
  <2>9. StaysCalm(f)
    BY <1>1, <2>1, <2>2, <2>3, <2>4, <2>5 DEF StaysCalm, Calm
  <2> QED
    BY <2>1, <2>8, <2>9, FrameStepKeeps
<1>11. CASE Forget(c)
  <2> DEFINE f == [frame[c] EXCEPT !.stage = "out"]
  <2>1. f \in Frame /\ f.stage = "out" /\ f.proc = frame[c].proc /\ f.proc = 0
    BY <1>1, <1>11 DEF Forget, Frame
  <2>2. /\ frame' = [frame EXCEPT ![c] = f] /\ frame[c].stage = "forgetting"
        /\ UNCHANGED <<servers, keepAlive, history>> /\ handle' = 0
    BY <1>11 DEF Forget
  <2> HIDE DEF f
  <2>3. Calm' => \A s \in DOMAIN servers' : servers'[s] # "dead" => s = handle' \/ s = f.proc
    BY <1>1, <1>2, <1>3, <2>1, <2>2 DEF Calm, Alive, Warm
  <2>4. ~keepAlive => ~Warm'
    BY <1>1, <2>2 DEF Warm
  <2>8. FrameStep(c, f)
    BY <1>1, <2>1, <2>2, <2>3, <2>4 DEF FrameStep
  <2>9. StaysCalm(f)
    BY <1>1, <2>1, <2>2, <2>3, <2>4 DEF StaysCalm, Calm
  <2> QED
    BY <2>1, <2>8, <2>9, FrameStepKeeps
<1> QED
  BY <1>4, <1>5, <1>6, <1>7, <1>8, <1>9, <1>10, <1>11
     DEF Stream, Interrupt, StartTimesOut, StreamEnds, StreamFails

(* The frame that is entered is the only one, or the manager is not calm.  *)
LEMMA GenerateKeeps ==
    ASSUME PathInv, NEW c \in Callers, Generate(c)
    PROVE  PathInv'
<1> USE DEF PathInv
<1> DEFINE f == [NoFrame EXCEPT !.stage = "resolving"]
           r == [prompt[c] EXCEPT !.stage = "generating", !.rows = {"execution"}]
<1>1. /\ frame \in [Callers -> Frame] /\ prompt \in [Callers -> Prompt] /\ prompt[c] \in Prompt
      /\ history \in [abandoned : BOOLEAN, met : BOOLEAN]
  BY DEF TypeOK, ManagerTypeOK
<1>2. /\ prompt[c].stage = "approved" /\ UNCHANGED <<servers, handle, keepAlive, spent>>
      /\ frame' = [frame EXCEPT ![c] = f] /\ prompt' = [prompt EXCEPT ![c] = r]
      /\ history' = [history EXCEPT !.met = @ \/ InBackend # {}]
  BY DEF Generate, EnterBackend
<1>3. f \in Frame /\ f.stage = "resolving" /\ f.proc = 0 /\ f.outcome = "none"
  BY DEF Frame, NoFrame
<1>4. r \in Prompt /\ r.stage = "generating" /\ r.status = "none"
  BY <1>1, <1>2 DEF Prompt, FramesFollowPrompts
<1> HIDE DEF f, r
<1>5. \A d \in Callers : /\ frame'[d] = IF d = c THEN f ELSE frame[d]
                         /\ prompt'[d] = IF d = c THEN r ELSE prompt[d]
  BY <1>1, <1>2
<1>6. ManagerTypeOK'
  <2>1. history' \in [abandoned : BOOLEAN, met : BOOLEAN]
    BY <1>1, <1>2
  <2>2. frame' \in [Callers -> Frame]
    BY <1>1, <1>2, <1>3
  <2>3. \A d \in Callers : frame'[d].proc <= Len(servers')
    BY <1>2, <1>3, <1>5, LenProperties DEF TypeOK, ManagerTypeOK
  <2> QED
    BY <1>2, <2>1, <2>2, <2>3 DEF TypeOK, ManagerTypeOK
<1>7. TypeOK' /\ StartsArePaid'
  <2>1. Starters' = Starters
    BY <1>2, <1>3, <1>4, <1>5 DEF Starters
  <2>2. prompt' \in [Callers -> Prompt]
    BY <1>1, <1>2, <1>4
  <2> QED
    BY <1>2, <1>6, <2>1, <2>2 DEF StartsArePaid, TypeOK
<1>8. FramesFollowPrompts' /\ EveryPromptIsRecorded' /\ InterruptIsFinal'
  BY <1>3, <1>4, <1>5 DEF FramesFollowPrompts, EveryPromptIsRecorded, InterruptIsFinal
<1>9. LoneFrame' /\ OneServer'
  <2> SUFFICES ASSUME Calm' PROVE LoneFrame' /\ OneServer'
    BY DEF LoneFrame, OneServer
  <2>1. Calm /\ InBackend = {}
    BY <1>1, <1>2 DEF Calm
  <2>2. \A d \in Callers : d # c => frame'[d].stage = "out"
    BY <1>5, <2>1 DEF InBackend
  <2>3. frame[c].proc = 0
    BY <2>1 DEF InBackend, FramesFollowPrompts
  <2>4. OneServer'
    <3> SUFFICES ASSUME NEW s \in DOMAIN servers, Alive(s)
                 PROVE  s = handle \/ \E d \in Callers : frame'[d].proc = s
      BY <1>2 DEF OneServer, Alive
    <3>1. s # 0
      BY DEF TypeOK, ManagerTypeOK
    <3>2. s = handle \/ \E d \in Callers : frame[d].proc = s
      BY <2>1 DEF OneServer
    <3> QED
      BY <1>5, <2>3, <3>1, <3>2
  <2>5. LoneFrame'
    BY <1>3, <1>5, <2>2 DEF LoneFrame, InBackend
  <2> QED
    BY <2>4, <2>5
<1> QED
  BY <1>7, <1>8, <1>9

(* No server comes back to life.                                           *)
LEMMA ServeKeeps ==
    ASSUME PathInv, Serve, UNCHANGED <<prompt, spent>>
    PROVE  PathInv'
<1> USE DEF PathInv
<1>1. PICK s \in DOMAIN servers : Binds(s) \/ PortTaken(s) \/ Dies(s)
  BY DEF Serve
<1>2. PICK state \in {"serving", "dead"} : Alive(s) /\ Becomes(s, state)
  BY <1>1 DEF Binds, PortTaken, Dies, Alive
<1>3. UNCHANGED <<handle, keepAlive, frame, history>>
      /\ servers' = [servers EXCEPT ![s] = state]
  BY <1>2 DEF Becomes
<1>4. /\ servers' \in Seq({"starting", "serving", "dead"}) /\ Len(servers') = Len(servers)
      /\ DOMAIN servers' = DOMAIN servers /\ DOMAIN servers = 1..Len(servers)
  BY <1>3 DEF TypeOK, ManagerTypeOK
<1>5. \A t \in DOMAIN servers : servers'[t] # "dead" => servers[t] # "dead"
  BY <1>2, <1>3 DEF TypeOK, ManagerTypeOK, Alive
<1>6. TypeOK' /\ StartsArePaid'
  BY <1>3, <1>4 DEF TypeOK, ManagerTypeOK, StartsArePaid, Starters
<1>7. Warm' => Warm
  BY <1>3, <1>4, <1>5 DEF Warm, Alive, TypeOK, ManagerTypeOK
<1>8. LoneFrame' /\ OneServer'
  BY <1>3, <1>4, <1>5, <1>7 DEF LoneFrame, OneServer, Calm, InBackend, Alive
<1> QED
  BY <1>3, <1>6, <1>8 DEF FramesFollowPrompts, EveryPromptIsRecorded, InterruptIsFinal

LEMMA PathInvAlways == Spec => []PathInv
<1> USE PromptConstants DEF PathInv
<1>1. Init => PathInv
  <2> SUFFICES ASSUME Init PROVE PathInv
    OBVIOUS
  <2> USE DEF Init, ManagerInit
  <2>1. NoFrame \in Frame /\ NoFrame.stage = "out" /\ NoFrame.proc = 0
        /\ NoPrompt.stage = "idle" /\ NoPrompt \in Prompt
    BY DEF NoFrame, Frame, NoPrompt, Prompt
  <2> HIDE DEF Spec
  <2>2. /\ \A c \in Callers : frame[c] = NoFrame /\ prompt[c] = NoPrompt
        /\ servers \in Seq({"starting", "serving", "dead"}) /\ Len(servers) = 0
        /\ DOMAIN servers = {}
    OBVIOUS
  <2>3. frame \in [Callers -> Frame] /\ prompt \in [Callers -> Prompt]
    BY <2>1
  <2>4. TypeOK
    BY <2>1, <2>2, <2>3 DEF TypeOK, ManagerTypeOK
  <2>5. Starters = {}
    BY <2>1, <2>2 DEF Starters
  <2>6. StartsArePaid
    BY <2>2, <2>5, FS_EmptySet DEF StartsArePaid
  <2> QED
    BY <2>1, <2>2, <2>4, <2>6, NoPromptIs
       DEF FramesFollowPrompts, LoneFrame, OneServer, EveryPromptIsRecorded, InterruptIsFinal,
           InBackend, Warm
<1>2. PathInv /\ [Next]_vars => PathInv'
  <2> SUFFICES ASSUME PathInv, [Next]_vars PROVE PathInv'
    OBVIOUS
  <2> HIDE DEF PathInv
  <2>1. CASE UNCHANGED vars
    BY <2>1 DEF vars, manager, PathInv, TypeOK, ManagerTypeOK, FramesFollowPrompts, LoneFrame,
                OneServer, StartsArePaid, Starters, EveryPromptIsRecorded, InterruptIsFinal,
                InBackend, Warm, Calm, Alive
  <2>2. CASE Next
    BY <2>2, PromptStepKeeps, StreamKeeps, GenerateKeeps, ServeKeeps DEF Next, Proceed
  <2> QED
    BY <2>1, <2>2
<1> QED
  BY <1>1, <1>2, PTL DEF Spec

(* The state keeps its shape, and servers their bound: one for each prompt *)
(* that was asked.                                                         *)
THEOREM TypeCorrect == Spec => []TypeOK
BY PathInvAlways, PTL DEF PathInv

(* For any callers that stream through one manager without a lock: as long *)
(* as no start was given up and no two of them met in the backend, there   *)
(* is no server beside the one remembered and the one being started, and a *)
(* server that is not to be kept is gone when its prompt is.               *)
THEOREM ServersKept == Spec => []ServersAreKept
<1>1. PathInv => ServersAreKept
  <2> SUFFICES ASSUME PathInv PROVE StoppedByPolicy
    BY DEF PathInv, ServersAreKept
  <2> SUFFICES ASSUME Calm, ~keepAlive, InBackend = {}, NEW s \in DOMAIN servers, Alive(s)
               PROVE  FALSE
    BY DEF StoppedByPolicy
  <2>1. s # 0 /\ ~Warm
    BY DEF PathInv, LoneFrame, TypeOK, ManagerTypeOK
  <2>2. \A c \in Callers : frame[c].proc = 0
    BY DEF PathInv, FramesFollowPrompts, InBackend
  <2> QED
    BY <2>1, <2>2 DEF PathInv, OneServer, Warm
<1> QED
  BY <1>1, PathInvAlways, PTL

(* For any retry budget and any outcome of the stream: a prompt that       *)
(* returned has a receipt or a fallback on record, and one the operator    *)
(* interrupted is never run as a command instead.                          *)
THEOREM PromptsSettled == Spec => []PromptsAreSettled
BY PathInvAlways, PTL DEF PathInv, PromptsAreSettled
=============================================================================
