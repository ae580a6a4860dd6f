---------------------------- MODULE LuciferRuntime ----------------------------
(***************************************************************************)
(* The proposal path of LuciferRuntime: handle, approve, reject, rollback  *)
(* and _execute_proposal over the kernel's log and the workspace.          *)
(*                                                                         *)
(* Each process (a CLI command, a daemon) opens the same SQLite file and   *)
(* reads it once, into EventLog._events; from then on it answers every     *)
(* query from that list and only writes to the file.  A call is a sequence *)
(* of appends with the tool's effect in the middle, so other processes and *)
(* crashes come between any two of them.                                   *)
(***************************************************************************)
EXTENDS ArcKernel

CONSTANTS
    Procs,        \* processes that may have the event file open
    Allowlisted,  \* the commands of ShellAdapter.ALLOWLIST
    InitialFiles, \* the workspace before the first call
    MaxFaults,    \* bound: crashes, failed commits and raising tools
    MaxRejects    \* bound: operator rejections

ASSUME RuntimeConstants ==
    /\ Allowlisted \subseteq Contents
    /\ InitialFiles \in [Paths -> FileState]
    /\ MaxFaults \in Nat
    /\ MaxRejects \in Nat
    /\ IsFiniteSet(Procs)

VARIABLES
    disk,     \* the rows of the events table, in idx order
    mem,      \* EventLog._events of each process
    pc,       \* where each process is in its current call
    call,     \* the call's local variables
    files,    \* the workspace
    issued,   \* proposal ids ever generated: uuid4 never repeats one
    runs,     \* history: every tools.execute, with the file before and after
    undone,   \* history: the proposals that were rolled back
    faults    \* history: crashes, failed commits and raising tools so far

vars == <<disk, mem, pc, call, files, issued, runs, undone, faults>>

Stages == {"down", "idle", "decide", "confirm", "execute", "log_execution", "log_receipt"}

NoCall == [pid |-> Nobody, req |-> Nobody, confirm |-> FALSE,
           success |-> FALSE, undo |-> NoUndo]
Call == [pid : Pids, req : Requests, confirm : BOOLEAN,
         success : BOOLEAN, undo : UndoSet \cup {NoUndo}]
Run == [pid : Pids, by : Procs, action : Intents, path : Paths,
        pre : FileState, post : FileState]

TypeOK ==
    /\ disk \in Seq(Event)
    /\ mem \in [Procs -> Seq(Event)]
    /\ pc \in [Procs -> Stages]
    /\ call \in [Procs -> Call \cup {NoCall}]
    /\ \A p \in Procs : pc[p] \notin {"down", "idle"} => call[p] \in Call
    /\ files \in [Paths -> FileState]
    /\ issued \subseteq Pids
    /\ runs \in Seq(Run)
    /\ undone \subseteq Pids
    /\ faults \in Nat

Init ==
    /\ disk = <<>>
    /\ mem = [p \in Procs |-> <<>>]
    /\ pc = [p \in Procs |-> "down"]
    /\ call = [p \in Procs |-> NoCall]
    /\ files = InitialFiles
    /\ issued = {}
    /\ runs = <<>>
    /\ undone = {}
    /\ faults = 0

-----------------------------------------------------------------------------
(* EventLog.append: the list first, then the INSERT and its commit.  When  *)
(* the database raises (locked past busy_timeout, disk full, a call from a *)
(* thread that did not open the connection) the event stays in the list,   *)
(* the caller's frame unwinds and the process goes on without the row.     *)

Record(p, e, then, locals) ==
    /\ mem' = [mem EXCEPT ![p] = Append(@, e)]
    /\ \/ /\ disk' = Append(disk, e)
          /\ pc' = [pc EXCEPT ![p] = then]
          /\ call' = [call EXCEPT ![p] = IF then = "idle" THEN NoCall ELSE locals]
          /\ UNCHANGED faults
       \/ /\ faults < MaxFaults
          /\ faults' = faults + 1
          /\ pc' = [pc EXCEPT ![p] = "idle"]
          /\ call' = [call EXCEPT ![p] = NoCall]
          /\ UNCHANGED disk

-----------------------------------------------------------------------------
(* A process opens the log, leaves, or is killed.                          *)

Open(p) ==
    /\ pc[p] = "down"
    /\ pc' = [pc EXCEPT ![p] = "idle"]
    /\ mem' = [mem EXCEPT ![p] = disk]
    /\ UNCHANGED <<disk, call, files, issued, runs, undone, faults>>

Leave(p) ==
    /\ pc' = [pc EXCEPT ![p] = "down"]
    /\ mem' = [mem EXCEPT ![p] = <<>>]
    /\ call' = [call EXCEPT ![p] = NoCall]
    /\ UNCHANGED <<disk, files, issued, runs, undone>>

Close(p) == pc[p] = "idle" /\ Leave(p) /\ UNCHANGED faults

Crash(p) ==
    /\ pc[p] \notin {"down", "idle"}
    /\ faults < MaxFaults
    /\ Leave(p)
    /\ faults' = faults + 1

\* An append the model leaves out raises: the branch plan or plan summary of
\* handle before its decision, the plan summary of approve before the tool.
OtherAppendRaises(p) ==
    /\ pc[p] \in {"decide", "execute"}
    /\ faults < MaxFaults
    /\ faults' = faults + 1
    /\ pc' = [pc EXCEPT ![p] = "idle"]
    /\ call' = [call EXCEPT ![p] = NoCall]
    /\ UNCHANGED <<disk, mem, files, issued, runs, undone>>

-----------------------------------------------------------------------------
(* handle: propose, decide, and confirm at once when the caller said so.   *)

Handle(p) ==
    /\ pc[p] = "idle"
    /\ \E pid \in Pids \ issued, req \in Requests, confirm \in BOOLEAN :
        /\ issued' = issued \cup {pid}
        /\ Record(p, ProposalEvent(pid, req), "decide",
                  [NoCall EXCEPT !.pid = pid, !.req = req, !.confirm = confirm])
    /\ UNCHANGED <<files, runs, undone>>

\* Mutant: a confirmed proposal runs without the operator's decision event.
AfterDecisionUnrecorded(decision, confirm) ==
    IF decision = "approve" \/ (decision = "require_confirmation" /\ confirm)
    THEN "execute" ELSE "idle"

\* Where handle goes with the policy's decision.
AfterDecision(decision, confirm) ==
    CASE decision = "approve" -> "execute"
      [] decision = "require_confirmation" /\ confirm -> "confirm"
      [] OTHER -> "idle"

Decide(p) ==
    /\ pc[p] = "decide"
    /\ LET decision == Evaluate(mem[p], call[p].req)
       IN Record(p, DecisionEvent(call[p].pid, decision, "policy"),
                 AfterDecision(decision, call[p].confirm), call[p])
    /\ UNCHANGED <<files, issued, runs, undone>>

Confirm(p) ==
    /\ pc[p] = "confirm"
    /\ Record(p, DecisionEvent(call[p].pid, "approve", "operator"), "execute", call[p])
    /\ UNCHANGED <<files, issued, runs, undone>>

-----------------------------------------------------------------------------
(* approve and reject: the first looks at the latest decision, the second  *)
(* only at whether the proposal exists.                                    *)

\* Mutant: approve looks only for the proposal.
ApproveUnchecked(p) ==
    /\ pc[p] = "idle"
    /\ \E pid \in Pids :
        /\ Holds(mem[p], "proposal", pid)
        /\ Record(p, DecisionEvent(pid, "approve", "operator"), "execute",
                  [NoCall EXCEPT !.pid = pid, !.req = RequestOf(mem[p], pid),
                                 !.confirm = TRUE])
    /\ UNCHANGED <<files, issued, runs, undone>>

Approve(p) ==
    /\ pc[p] = "idle"
    /\ \E pid \in Pids :
        /\ Awaiting(mem[p], pid)
        /\ Record(p, DecisionEvent(pid, "approve", "operator"), "execute",
                  [NoCall EXCEPT !.pid = pid, !.req = RequestOf(mem[p], pid),
                                 !.confirm = TRUE])
    /\ UNCHANGED <<files, issued, runs, undone>>

Rejections(L) ==
    CountEvents(L, LAMBDA e :
        e.kind = "policy_decision" /\ e.decision = "deny" /\ e.by = "operator")

Reject(p) ==
    /\ pc[p] = "idle"
    /\ Rejections(disk) < MaxRejects
    /\ \E pid \in Pids :
        /\ Holds(mem[p], "proposal", pid)
        /\ Record(p, DecisionEvent(pid, "deny", "operator"), "idle", NoCall)
    /\ UNCHANGED <<files, issued, runs, undone>>

-----------------------------------------------------------------------------
(* _execute_proposal: the tool, then EXECUTION, then RECEIPT.              *)

\* The file a tool leaves at req.path.
FileAfter(req) ==
    CASE req.action = "write_file" -> req.content
      [] req.action = "delete_file" -> Absent
      [] OTHER -> files[req.path]

\* What ToolResult.success may be.
ToolOutcomes(req) ==
    CASE req.action \in {"read_file", "delete_file"} -> {files[req.path] # Absent}
      [] req.action = "shell_command" ->
             IF req.content \in Allowlisted THEN BOOLEAN ELSE {FALSE}
      [] req.action = "unknown" -> {FALSE}
      [] OTHER -> {TRUE}

\* Mutant: a snapshot taken after the write.
UndoAfterwards(req, success) ==
    IF req.action \in {"write_file", "delete_file"} /\ success
    THEN [path |-> req.path, content |-> FileAfter(req)] ELSE NoUndo

\* The undo entry write_file and a delete_file that found its file return.
UndoOf(req, success) ==
    IF req.action \in {"write_file", "delete_file"} /\ success
    THEN [path |-> req.path, content |-> files[req.path]]
    ELSE NoUndo

RunEntry(p, req, post) ==
    [pid |-> call[p].pid, by |-> p, action |-> req.action, path |-> req.path,
     pre |-> files[req.path], post |-> post]

Execute(p) ==
    /\ pc[p] = "execute"
    /\ LET req == call[p].req IN
       \E success \in ToolOutcomes(req) :
        /\ files' = [files EXCEPT ![req.path] = FileAfter(req)]
        /\ runs' = Append(runs, RunEntry(p, req, FileAfter(req)))
        /\ call' = [call EXCEPT ![p].success = success,
                                ![p].undo = UndoOf(req, success)]
    /\ pc' = [pc EXCEPT ![p] = "log_execution"]
    /\ UNCHANGED <<disk, mem, issued, undone, faults>>

\* subprocess.run times out, a file is not UTF-8, a path is a directory: the
\* exception leaves _execute_proposal before any event, the file untouched.
ToolRaises(p) ==
    /\ pc[p] = "execute"
    /\ call[p].req.action \notin {"analysis", "unknown"}
    /\ faults < MaxFaults
    /\ faults' = faults + 1
    /\ runs' = Append(runs, RunEntry(p, call[p].req, files[call[p].req.path]))
    /\ pc' = [pc EXCEPT ![p] = "idle"]
    /\ call' = [call EXCEPT ![p] = NoCall]
    /\ UNCHANGED <<disk, mem, files, issued, undone>>

\* Mutant: the receipt is forgotten.
LogExecutionOnly(p) ==
    /\ pc[p] = "log_execution"
    /\ Record(p, ExecutionEvent(call[p].pid, call[p].req.action), "idle", NoCall)
    /\ UNCHANGED <<files, issued, runs, undone>>

LogExecution(p) ==
    /\ pc[p] = "log_execution"
    /\ Record(p, ExecutionEvent(call[p].pid, call[p].req.action), "log_receipt", call[p])
    /\ UNCHANGED <<files, issued, runs, undone>>

LogReceipt(p) ==
    /\ pc[p] = "log_receipt"
    /\ Record(p, ReceiptEvent(call[p].pid, call[p].success, call[p].undo), "idle", NoCall)
    /\ UNCHANGED <<files, issued, runs, undone>>

-----------------------------------------------------------------------------
(* rollback: the latest receipt's undo is written back.  Nothing is        *)
(* appended to the log and nothing stops a second rollback.                *)

Rollback(p) ==
    /\ pc[p] = "idle"
    /\ \E pid \in Pids :
        /\ Holds(mem[p], "receipt", pid)
        /\ LET undo == LatestReceipt(mem[p], pid).undo IN
           /\ undo # NoUndo
           /\ files' = [files EXCEPT ![undo.path] = undo.content]
        /\ undone' = undone \cup {pid}
    /\ UNCHANGED <<disk, mem, pc, call, issued, runs, faults>>

-----------------------------------------------------------------------------

\* The steps of a call already under way: the interpreter takes them.
Continue(p) == Decide(p) \/ Confirm(p) \/ Execute(p) \/ LogExecution(p) \/ LogReceipt(p)

Next == \E p \in Procs :
    \/ Open(p) \/ Close(p) \/ Crash(p) \/ OtherAppendRaises(p)
    \/ Handle(p) \/ Decide(p) \/ Confirm(p)
    \/ Approve(p) \/ Reject(p)
    \/ Execute(p) \/ ToolRaises(p) \/ LogExecution(p) \/ LogReceipt(p)
    \/ Rollback(p)

Spec == Init /\ [][Next]_vars

FairSpec == Spec /\ \A p \in Procs : WF_vars(Continue(p))
-----------------------------------------------------------------------------
(* Properties.                                                             *)

ApprovedBy(L, pid, who) ==
    \E i \in DOMAIN L : L[i] = DecisionEvent(pid, "approve", who)

(* No tool runs on the word of a process alone: for every tool run there   *)
(* is an approval in the durable log, whatever was lost, rejected or       *)
(* approved by a stale process in between, and for a destructive action it *)
(* is the operator's (doctrine: destructive actions require confirmation). *)
RunsAreAuthorised ==
    \A i \in DOMAIN runs :
        \/ ApprovedBy(disk, runs[i].pid, "operator")
        \/ ApprovedBy(disk, runs[i].pid, "policy") /\ ~IsHighRisk(runs[i].action)

RunsBy(p, pid) == CountEvents(runs, LAMBDA r : r.pid = pid /\ r.by = p)

(* A process never runs the same proposal twice, however often it is       *)
(* approved, rejected, crashed and reopened; with one process this is      *)
(* at-most-once execution.                                                 *)
RunsOncePerProcess == \A p \in Procs, pid \in Pids : RunsBy(p, pid) <= 1

(* The shell budget holds for the whole life of the event file: a process  *)
(* exceeds it only by what it cannot see, one command per fault (the       *)
(* EXECUTION event was lost) and the other processes' shares.              *)
ShellBudgetHolds ==
    CountEvents(runs, LAMBDA r : r.action = "shell_command")
        <= MaxShell * Cardinality(Procs) + faults

(* The audit trail never overstates: every receipt in the durable log has  *)
(* its execution event, every execution event its run, and every run an    *)
(* approval of its own, whoever recorded them and whatever failed.         *)
AuditTrail ==
    \A pid \in Pids :
        LET receipts == CountEvents(disk, LAMBDA e : IsOf(e, "receipt", pid))
            executions == CountEvents(disk, LAMBDA e : IsOf(e, "execution", pid))
            ran == CountEvents(runs, LAMBDA r : r.pid = pid)
            approvals == CountEvents(disk, LAMBDA e :
                             IsOf(e, "policy_decision", pid) /\ e.decision = "approve")
        IN receipts <= executions /\ executions <= ran /\ ran <= approvals

\* How many elements of view, in order, are found in the first n of L.
Matching(view, L) ==
    LET m[n \in 0..Len(L)] ==
            IF n = 0 THEN 0
            ELSE LET k == m[n - 1]
                 IN  IF k < Len(view) /\ view[k + 1] = L[n] THEN k + 1 ELSE k
    IN m
Matched(view, L) == Matching(view, L)[Len(L)]

(* A process's stale list is a subsequence of the file: it misses what     *)
(* others wrote, but holds nothing the file does not and nothing out of    *)
(* order, so a decision found in it was really made.                       *)
ViewsFollowLog ==
    faults = 0 => \A p \in Procs : Matched(mem[p], disk) = Len(mem[p])

(* Neither the log nor a view of it holds what did not happen.             *)
LogIsHonest == AuditTrail /\ ViewsFollowLog

\* Properties of a log that one process writes.

(* A mutation whose receipt reached the log can be undone: the latest      *)
(* receipt of its proposal carries the file as it was before the run.      *)
ReceiptUndoesRun ==
    \A i \in DOMAIN runs :
        LET r == runs[i] IN
        (r.pre # r.post /\ Holds(disk, "receipt", r.pid))
            => LatestReceipt(disk, r.pid).undo = [path |-> r.path, content |-> r.pre]

\* The index of the event that proposed pid.
ProposedAt(L, pid) == SelectInSeq(L, LAMBDA e : IsOf(e, "proposal", pid))

(* Once the high-risk budget is used up in the log, no later high-risk     *)
(* proposal ever runs, not by confirmation, not by a later approve.        *)
LateHighRiskNeverRuns ==
    \A i \in DOMAIN runs :
        LET at == ProposedAt(disk, runs[i].pid) IN
        (IsHighRisk(runs[i].action) /\ at > 0)
            => HighRiskApprovals(SubSeq(disk, 1, at)) < MaxHighRisk

(* Both budgets bound what runs, not only what is asked.                   *)
BudgetsHold == ShellBudgetHolds /\ LateHighRiskNeverRuns

\* The workspace a reader of the log would expect: each file as the latest
\* successful mutation's receipt left it.
LoggedMutation(L, f, i) ==
    /\ L[i].kind = "receipt" /\ L[i].success
    /\ RequestOf(L, L[i].pid).action \in {"write_file", "delete_file"}
    /\ RequestOf(L, L[i].pid).path = f

ReplayedFile(L, f) ==
    LET writes == {i \in DOMAIN L : LoggedMutation(L, f, i)} IN
    IF writes = {} THEN InitialFiles[f]
    ELSE LET req == RequestOf(L, L[Max(writes)].pid) IN
         IF req.action = "write_file" THEN req.content ELSE Absent

(* State is derived from receipts: with no fault and no rollback, the log  *)
(* alone reproduces the workspace whenever no call is under way.           *)
WorkspaceIsReplayable ==
    (faults = 0 /\ undone = {} /\ \A p \in Procs : pc[p] \in {"down", "idle"})
        => \A f \in Paths : files[f] = ReplayedFile(disk, f)

(* Receipts tell what became of the files, and what was before.            *)
ReceiptsTellFiles == ReceiptUndoesRun /\ WorkspaceIsReplayable

(* The budget on high-risk approvals as its name states it: never more     *)
(* approvals in the log than max_high_risk_approvals_per_session.  The     *)
(* code breaks it: approve() does not ask the budget.                      *)
HighRiskApprovalsWithinBudget == HighRiskApprovals(disk) <= MaxHighRisk

(* An approved proposal is carried through to its receipt unless a crash,  *)
(* a failed commit or a raising tool intervenes.                           *)
ApprovedIsReceipted ==
    \A pid \in Pids :
        LatestDecision(disk, pid) = "approve"
            ~> (Holds(disk, "receipt", pid) \/ faults > 0)

-----------------------------------------------------------------------------
(* One process implements the lifecycle of ProposalLifecycle.              *)

StatusOf(pid) ==
    CASE pid \in Completed(disk) -> "completed"
      [] pid \in PendingConfirmations(disk) -> "pending"
      [] pid \in DeniedProposals(disk) -> "denied"
      [] pid \notin Completed(disk) /\ LatestDecision(disk, pid) = "approve" -> "approved"
      [] OTHER -> IF Holds(disk, "proposal", pid) THEN "proposed" ELSE "none"

Lifecycle == INSTANCE ProposalLifecycle WITH
    status <- [pid \in Pids |-> StatusOf(pid)],
    ran <- {runs[i].pid : i \in DOMAIN runs}

ImplementsLifecycle == Lifecycle!Spec
=============================================================================
