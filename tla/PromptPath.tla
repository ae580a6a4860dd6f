------------------------------ MODULE PromptPath ------------------------------
(***************************************************************************)
(* prompt_model: a model prompt as a proposal, its stream, and what is     *)
(* made of it when it fails or is interrupted: the retry budget and the    *)
(* policy choose a fallback, twice over if the first choice is neither the *)
(* router nor the echo.                                                    *)
(*                                                                         *)
(* A prompt is a low-risk proposal, which the policy always approves.  The *)
(* rows of one prompt are the set of kinds recorded for its proposal.      *)
(***************************************************************************)
EXTENDS LlamafileProcess

CONSTANTS
    MaxAttempts, \* RetryBudget.max_attempts
    MaxPrompts   \* bound: prompts

VARIABLES
    prompt, \* each caller's prompt_model
    spent   \* attempts_by_key of the runtime's one retry budget

vars == <<prompt, spent, manager>>

ASSUME PromptConstants == MaxAttempts \in Nat /\ MaxPrompts \in Nat

Router == "deterministic_router"
EchoStub == "echo_stub"
Smaller == "retry_smaller_model_request"
Partial == "partial_receipt"
Options == {Router, EchoStub, Smaller, Partial}
None == "none"

Prompt == [stage : {"idle", "approved", "generating", "routing", "returned", "raised"},
           rows : SUBSET {"execution", "fallback", "receipt"},
           status : {"none", "ok", "interrupted", "completed_fallback"}]

NoPrompt == [stage |-> "idle", rows |-> {}, status |-> "none"]

TypeOK ==
    /\ ManagerTypeOK
    /\ Len(servers) <= MaxPrompts
    /\ prompt \in [Callers -> Prompt]
    /\ spent \in [asked : 0..MaxPrompts, option : [Options -> 0..MaxAttempts]]

Init ==
    /\ ManagerInit
    /\ prompt = [c \in Callers |-> NoPrompt]
    /\ spent = [asked |-> 0, option |-> [o \in Options |-> 0]]

-----------------------------------------------------------------------------
(* Choosing a fallback.                                                    *)

\* Mutant: Ctrl-C is classified like any other exception.
OptionsForAll(outcome) == <<Router, EchoStub, Smaller>>

OptionsFor(outcome) ==
    IF outcome = "interrupted" THEN <<Partial>> ELSE <<Router, EchoStub, Smaller>>

\* Mutant: one attempt too many.
AllowedOnceMore(used, options) == {i \in DOMAIN options : used[options[i]] <= MaxAttempts}

Allowed(used, options) == {i \in DOMAIN options : used[options[i]] < MaxAttempts}

\* choose(): the first option its budget allows, which is then spent.
Choice(used, options) ==
    LET allowed == Allowed(used, options)
    IN  IF allowed = {} THEN None
        ELSE options[CHOOSE i \in allowed : \A j \in allowed : i <= j]

Spend(used, option) == IF option = None THEN used ELSE [used EXCEPT ![option] = @ + 1]

\* A failure asks once; unless the router or the echo is to answer, the branch
\* of interrupted prompts asks again.  An interrupt comes to that branch alone.
Chosen(outcome) ==
    LET first == Choice(spent.option, OptionsFor(outcome))
        afterFirst == Spend(spent.option, first)
        second == Choice(afterFirst, OptionsFor(outcome))
    IN  IF outcome = "interrupted" \/ first \in {Router, EchoStub}
        THEN [mode |-> first, used |-> afterFirst]
        ELSE [mode |-> second, used |-> Spend(afterFirst, second)]

-----------------------------------------------------------------------------
(* One prompt.                                                             *)

Ask(c) ==
    /\ prompt[c].stage \in {"idle", "returned", "raised"}
    /\ frame[c].stage = "out"
    /\ spent.asked < MaxPrompts
    /\ spent' = [spent EXCEPT !.asked = @ + 1]
    /\ prompt' = [prompt EXCEPT ![c] = [NoPrompt EXCEPT !.stage = "approved"]]
    /\ UNCHANGED manager

Generate(c) ==
    /\ prompt[c].stage = "approved"
    /\ prompt' = [prompt EXCEPT ![c].stage = "generating", ![c].rows = {"execution"}]
    /\ EnterBackend(c)
    /\ UNCHANGED spent

\* No backend of that name: the exception leaves before the EXECUTION row.
UnknownBackend(c) ==
    /\ prompt[c].stage = "approved"
    /\ prompt' = [prompt EXCEPT ![c].stage = "raised"]
    /\ UNCHANGED <<spent, manager>>

Finished(c) ==
    /\ prompt[c].stage = "generating"
    /\ frame[c].stage = "out"

Complete(c) ==
    /\ Finished(c) /\ frame[c].outcome = "done"
    /\ prompt' = [prompt EXCEPT ![c].stage = "returned", ![c].rows = @ \cup {"receipt"},
                                ![c].status = "ok"]
    /\ UNCHANGED <<spent, manager>>

\* The fallback is recorded before the prompt is handled as a command.
Route(c, used) ==
    /\ prompt' = [prompt EXCEPT ![c].stage = "routing", ![c].rows = @ \cup {"fallback"}]
    /\ spent' = [spent EXCEPT !.option = used]

Echo(c, used) ==
    /\ prompt' = [prompt EXCEPT ![c].stage = "returned", ![c].status = "completed_fallback",
                                ![c].rows = @ \cup {"fallback", "receipt"}]
    /\ spent' = [spent EXCEPT !.option = used]

\* Mutant: without a mode left there is nothing to do.
InterruptedIfAny(c, mode, used) ==
    /\ mode # None
    /\ prompt' = [prompt EXCEPT ![c].stage = "returned", ![c].status = "interrupted",
                                ![c].rows = @ \cup {"receipt"}]
    /\ spent' = [spent EXCEPT !.option = used]

\* Whatever was chosen, or nothing: what there is of the answer is receipted.
Interrupted(c, mode, used) ==
    /\ prompt' = [prompt EXCEPT ![c].stage = "returned", ![c].status = "interrupted",
                                ![c].rows = @ \cup {"receipt"}]
    /\ spent' = [spent EXCEPT !.option = used]

FallBack(c) ==
    /\ Finished(c) /\ frame[c].outcome # "done"
    /\ LET choice == Chosen(frame[c].outcome)
       IN  CASE choice.mode = Router -> Route(c, choice.used)
             [] choice.mode = EchoStub -> Echo(c, choice.used)
             [] OTHER -> Interrupted(c, choice.mode, choice.used)
    /\ UNCHANGED manager

\* handle() returns what it may, and its receipt is of another proposal; or a
\* tool raises.
Routed(c) ==
    /\ prompt[c].stage = "routing"
    /\ \/ prompt' = [prompt EXCEPT ![c].stage = "returned", ![c].status = "completed_fallback"]
       \/ prompt' = [prompt EXCEPT ![c].stage = "raised"]
    /\ UNCHANGED <<spent, manager>>

Proceed(c) ==
    \/ Generate(c) \/ Complete(c) \/ FallBack(c) \/ Routed(c)
    \/ Stream(c) /\ UNCHANGED <<prompt, spent>>

Next ==
    \/ \E c \in Callers :
          Ask(c) \/ Proceed(c) \/ UnknownBackend(c)
          \/ (Interrupt(c) /\ UNCHANGED <<prompt, spent>>)
    \/ Serve /\ UNCHANGED <<prompt, spent>>

Spec == Init /\ [][Next]_vars

\* A call goes on: starting and streaming are both timed.
FairSpec == Spec /\ \A c \in Callers : WF_vars(Proceed(c))

-----------------------------------------------------------------------------
(* Properties.                                                             *)

(* However a prompt ends, its own proposal has a receipt or a fallback     *)
(* event that says what became of it.                                      *)
EveryPromptIsRecorded ==
    \A c \in Callers :
        prompt[c].stage = "returned" => prompt[c].rows \cap {"fallback", "receipt"} # {}

(* A prompt that the operator interrupts is not carried out by other       *)
(* means: the router does not run it as a command.                         *)
InterruptIsFinal ==
    \A c \in Callers :
        prompt[c].rows # {} /\ frame[c].outcome = "interrupted"
            => prompt[c].stage # "routing" /\ prompt[c].status # "completed_fallback"

(* What became of a prompt is on record, and is what the operator wanted.  *)
PromptsAreSettled == EveryPromptIsRecorded /\ InterruptIsFinal

(* "Retry budgets prevent infinite fallback loops": every prompt ends,     *)
(* with its budgets used up as well.                                       *)
EveryPromptEnds == \A c \in Callers : []<>(prompt[c].stage \in {"idle", "returned", "raised"})
=============================================================================
