------------------------------ MODULE ArcKernel ------------------------------
(***************************************************************************)
(* The event log, its projection and the policy of src/src/arc_kernel.     *)
(* Nothing here has a state: the operators take a log L, which is the list *)
(* EventLog keeps in memory, and return what the kernel derives from it.   *)
(*                                                                         *)
(* Only the events the kernel later reads back are kept: PROPOSAL,         *)
(* POLICY_DECISION, EXECUTION and RECEIPT.  INPUT, BRANCH_PLAN and         *)
(* EVALUATION events are appended next to them and read by reports only.   *)
(***************************************************************************)
EXTENDS Integers, Sequences, SequencesExt

CONSTANTS
    Pids,         \* proposal ids (uuid4 in the code)
    Paths,        \* files of the workspace
    Contents,     \* what a file may hold
    Oversized,    \* the contents longer than max_file_bytes_write
    Requests,     \* the routed requests an operator makes
    MaxShell,     \* max_shell_commands_per_session
    MaxHighRisk,  \* max_high_risk_approvals_per_session
    Absent,       \* "no such file"
    NoUndo,       \* a receipt without an undo entry
    Nobody        \* "no proposal" and "no request" in an idle process's locals

Intents == {"analysis", "read_file", "write_file", "delete_file",
            "shell_command", "unknown"}

RequestSet == [action : Intents, path : Paths, content : Contents]

ASSUME KernelConstants ==
    /\ Requests \subseteq RequestSet
    /\ Oversized \subseteq Contents
    /\ MaxShell \in Nat
    /\ MaxHighRisk \in Nat
    /\ Absent \notin Contents
    /\ Nobody \notin Pids \cup Requests

-----------------------------------------------------------------------------
(* Capabilities and events.                                                *)

Risk(action) ==
    CASE action = "delete_file" -> "high"
      [] action = "unknown" -> "critical"
      [] action \in {"write_file", "shell_command"} -> "medium"
      [] OTHER -> "low"

RequiresConfirmation(action) == action = "delete_file"

FileState == Contents \cup {Absent}
UndoSet == [path : Paths, content : FileState]
Decisions == {"approve", "deny", "require_confirmation"}

ProposalEvent(pid, req) == [kind |-> "proposal", pid |-> pid, req |-> req]
DecisionEvent(pid, decision, by) ==
    [kind |-> "policy_decision", pid |-> pid, decision |-> decision, by |-> by]
ExecutionEvent(pid, action) ==
    [kind |-> "execution", pid |-> pid, action |-> action]
ReceiptEvent(pid, success, undo) ==
    [kind |-> "receipt", pid |-> pid, success |-> success, undo |-> undo]

Event ==
    [kind : {"proposal"}, pid : Pids, req : Requests]
    \cup [kind : {"policy_decision"}, pid : Pids, decision : Decisions,
          by : {"policy", "operator"}]
    \cup [kind : {"execution"}, pid : Pids, action : Intents]
    \cup [kind : {"receipt"}, pid : Pids, success : BOOLEAN,
          undo : UndoSet \cup {NoUndo}]

-----------------------------------------------------------------------------
(* EventLog.find_latest and the engine's queries built on it.              *)

IsOf(e, kind, pid) == e.kind = kind /\ e.pid = pid

Occurrences(L, kind, pid) == {i \in DOMAIN L : IsOf(L[i], kind, pid)}

Holds(L, kind, pid) == Occurrences(L, kind, pid) # {}

FindLatest(L, kind, pid) == L[Max(Occurrences(L, kind, pid))]

LatestDecision(L, pid) ==
    IF Holds(L, "policy_decision", pid)
    THEN FindLatest(L, "policy_decision", pid).decision
    ELSE "none"

RequestOf(L, pid) == FindLatest(L, "proposal", pid).req

LatestReceipt(L, pid) == FindLatest(L, "receipt", pid)

Awaiting(L, pid) ==
    /\ Holds(L, "proposal", pid)
    /\ LatestDecision(L, pid) = "require_confirmation"

(* StateProjector: a receipt completes a proposal whatever was decided;    *)
(* otherwise the latest decision classifies it.                            *)
Completed(L) == {pid \in Pids : Holds(L, "proposal", pid) /\ Holds(L, "receipt", pid)}
PendingConfirmations(L) == {pid \in Pids : Awaiting(L, pid)} \ Completed(L)
DeniedProposals(L) ==
    {pid \in Pids : Holds(L, "proposal", pid) /\ LatestDecision(L, pid) = "deny"}
    \ Completed(L)

-----------------------------------------------------------------------------
(* BudgetManager.assess and PolicyEngine.evaluate.                         *)

CountEvents(L, Test(_)) == Cardinality({i \in DOMAIN L : Test(L[i])})

ShellExecutions(L) ==
    CountEvents(L, LAMBDA e : e.kind = "execution" /\ e.action = "shell_command")

IsHighRisk(action) == Risk(action) \in {"high", "critical"}

HighRiskApprovals(L) ==
    CountEvents(L, LAMBDA e :
        /\ e.kind = "policy_decision"
        /\ e.decision = "approve"
        /\ Holds(L, "proposal", e.pid)
        /\ IsHighRisk(RequestOf(L, e.pid).action))

\* Mutant: the shell budget is forgotten.
WithinBudgetButShell(L, req) ==
    /\ req.action = "write_file" => req.content \notin Oversized
    /\ IsHighRisk(req.action) => HighRiskApprovals(L) < MaxHighRisk

WithinBudget(L, req) ==
    /\ req.action = "write_file" => req.content \notin Oversized
    /\ req.action = "shell_command" => ShellExecutions(L) < MaxShell
    /\ IsHighRisk(req.action) => HighRiskApprovals(L) < MaxHighRisk

\* Mutant: high risk is approved like the rest.
EvaluateUnconfirmed(L, req) ==
    IF Risk(req.action) = "critical" \/ ~WithinBudget(L, req) THEN "deny" ELSE "approve"

Evaluate(L, req) ==
    IF \/ req.action = "unknown" \/ Risk(req.action) = "critical"
       \/ ~WithinBudget(L, req)
    THEN "deny"
    ELSE IF RequiresConfirmation(req.action) \/ Risk(req.action) = "high"
    THEN "require_confirmation"
    ELSE "approve"
=============================================================================
