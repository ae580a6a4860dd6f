------------------------- MODULE LuciferRuntimeProofs -------------------------
(***************************************************************************)
(* Theorems about the kernel's queries and the proposal path, for any      *)
(* processes, requests, budgets and number of faults.                      *)
(***************************************************************************)
EXTENDS LuciferRuntime, FiniteSetTheorems, SequenceTheorems, WellFoundedInduction, TLAPS

-----------------------------------------------------------------------------
(* What the kernel's queries return, for every log.                        *)

(* A non-empty set of naturals with an upper bound has the maximum the     *)
(* operator Max names.                                                     *)
LEMMA MaxOfBounded ==
    ASSUME NEW S \in SUBSET Nat, S # {}, NEW n \in Nat, \A s \in S : s <= n
    PROVE  Max(S) \in S /\ \A s \in S : s <= Max(S)
<1> DEFINE T == {i \in Nat : \E s \in S : i = n - s}
<1>1. \A s \in S : s \in Nat /\ n - s \in Nat
  OBVIOUS
<1>2. T \subseteq Nat /\ T # {}
  BY <1>1
<1>3. PICK m \in T : \A t \in T : ~(<<t, m>> \in OpToRel(<, Nat))
  <2> HIDE DEF T
  <2> QED
    BY <1>2, NatLessThanWellFounded, WFMin
<1>4. \A t \in T : ~(t < m)
  BY <1>2, <1>3 DEF OpToRel
<1>5. PICK x \in S : m = n - x
  OBVIOUS
<1>6. ASSUME NEW s \in S PROVE s <= x
  <2>1. n - s \in T
    BY <1>1
  <2>2. ~(n - s < n - x)
    BY <1>4, <1>5, <2>1
  <2> QED
    BY <1>1, <2>2
<1> QED
  BY <1>5, <1>6 DEF Max

(* find_latest returns the matching event with the highest index.          *)
LEMMA FindLatestIs ==
    ASSUME NEW L \in Seq(Event), NEW kind, NEW pid, Holds(L, kind, pid)
    PROVE  \E i \in DOMAIN L :
              /\ IsOf(L[i], kind, pid)
              /\ FindLatest(L, kind, pid) = L[i]
              /\ \A j \in Occurrences(L, kind, pid) : j <= i
<1> DEFINE S == Occurrences(L, kind, pid)
<1>1. S \in SUBSET Nat /\ S # {} /\ Len(L) \in Nat /\ \A s \in S : s <= Len(L)
  BY LenProperties DEF Occurrences, Holds
<1>2. Max(S) \in S /\ \A s \in S : s <= Max(S)
  BY <1>1, MaxOfBounded
<1> QED
  BY <1>2 DEF Occurrences, FindLatest

(* An appended event is the latest of its kind and proposal, and hides     *)
(* nothing else.                                                           *)
LEMMA FindLatestAppend ==
    ASSUME NEW L \in Seq(Event), NEW e \in Event, NEW kind, NEW pid
    PROVE  /\ Holds(Append(L, e), kind, pid) <=> Holds(L, kind, pid) \/ IsOf(e, kind, pid)
           /\ IsOf(e, kind, pid) => FindLatest(Append(L, e), kind, pid) = e
           /\ ~IsOf(e, kind, pid) /\ Holds(L, kind, pid)
                 => FindLatest(Append(L, e), kind, pid) = FindLatest(L, kind, pid)
<1> DEFINE n == Len(L)
           S == Occurrences(L, kind, pid)
           T == Occurrences(Append(L, e), kind, pid)
<1>1. /\ n \in Nat /\ DOMAIN L = 1..n /\ DOMAIN Append(L, e) = 1..(n + 1)
      /\ Append(L, e) \in Seq(Event)
      /\ \A i \in 1..n : Append(L, e)[i] = L[i]
      /\ Append(L, e)[n + 1] = e
  BY AppendProperties, LenProperties
<1>2. S \subseteq 1..n
  BY <1>1 DEF Occurrences
<1>3. T = IF IsOf(e, kind, pid) THEN S \cup {n + 1} ELSE S
  BY <1>1 DEF Occurrences
<1>4. ASSUME IsOf(e, kind, pid) PROVE FindLatest(Append(L, e), kind, pid) = e
  <2>1. T \in SUBSET Nat /\ T # {} /\ n + 1 \in Nat /\ \A s \in T : s <= n + 1
    BY <1>1, <1>2, <1>3, <1>4
  <2>2. Max(T) \in T /\ \A s \in T : s <= Max(T)
    BY <2>1, MaxOfBounded
  <2>3. n + 1 \in T
    BY <1>3, <1>4
  <2>4. Max(T) = n + 1
    <3> DEFINE m == Max(T)
    <3>1. m \in Nat /\ n + 1 \in Nat /\ m <= n + 1 /\ n + 1 <= m
      BY <2>1, <2>2, <2>3
    <3> HIDE DEF m, n
    <3>2. m = n + 1
      BY <3>1
    <3> QED
      BY <3>2 DEF m
  <2> QED
    BY <2>4, <1>1 DEF FindLatest
<1>5. ASSUME ~IsOf(e, kind, pid), Holds(L, kind, pid)
      PROVE  FindLatest(Append(L, e), kind, pid) = FindLatest(L, kind, pid)
  <2>1. S \in SUBSET Nat /\ S # {} /\ \A s \in S : s <= n
    BY <1>1, <1>2, <1>5 DEF Holds
  <2>2. Max(S) \in S
    BY <2>1, <1>1, MaxOfBounded
  <2> QED
    BY <2>2, <1>1, <1>2, <1>3, <1>5 DEF FindLatest
<1> QED
  BY <1>3, <1>4, <1>5 DEF Holds

(* The request and the undo entry that approve and rollback read back from *)
(* a log are well formed.                                                  *)
LEMMA QueriesAreTyped ==
    ASSUME NEW L \in Seq(Event), NEW pid
    PROVE  /\ Holds(L, "proposal", pid) => RequestOf(L, pid) \in Requests
           /\ Holds(L, "receipt", pid) => LatestReceipt(L, pid).undo \in UndoSet \cup {NoUndo}
           /\ Holds(L, "policy_decision", pid) => LatestDecision(L, pid) \in Decisions
<1>1. ASSUME NEW kind, Holds(L, kind, pid)
      PROVE  FindLatest(L, kind, pid) \in {e \in Event : e.kind = kind}
  BY <1>1, FindLatestIs, ElementOfSeq, LenProperties DEF IsOf
<1>2. Holds(L, "proposal", pid) => RequestOf(L, pid) \in Requests
  BY <1>1 DEF RequestOf, Event
<1>3. Holds(L, "receipt", pid) => LatestReceipt(L, pid).undo \in UndoSet \cup {NoUndo}
  BY <1>1 DEF LatestReceipt, Event
<1>4. Holds(L, "policy_decision", pid) => LatestDecision(L, pid) \in Decisions
  BY <1>1 DEF LatestDecision, Event
<1> QED
  BY <1>2, <1>3, <1>4

(* The policy approves nothing of high or critical risk by itself.         *)
LEMMA PolicyNeverApprovesHighRisk ==
    ASSUME NEW L, NEW req \in RequestSet, Evaluate(L, req) = "approve"
    PROVE  ~IsHighRisk(req.action)
BY DEF Evaluate, IsHighRisk, Risk, RequiresConfirmation, RequestSet, Intents

-----------------------------------------------------------------------------
(* Types.                                                                  *)

(* An append keeps the state well formed whether or not it commits.        *)
LEMMA RecordType ==
    ASSUME TypeOK, NEW p \in Procs, NEW e \in Event, NEW then \in Stages,
           NEW locals \in Call \cup {NoCall},
           then \notin {"down", "idle"} => locals \in Call,
           Record(p, e, then, locals),
           UNCHANGED <<files, runs, undone>>, issued' \subseteq Pids
    PROVE  TypeOK'
<1>1. disk' \in Seq(Event) /\ mem' \in [Procs -> Seq(Event)] /\ faults' \in Nat
  <2>1. Append(disk, e) \in Seq(Event) /\ Append(mem[p], e) \in Seq(Event)
    BY AppendProperties DEF TypeOK
  <2>2. disk' \in Seq(Event)
    BY <2>1 DEF TypeOK, Record
  <2>3. mem' \in [Procs -> Seq(Event)]
    BY <2>1 DEF TypeOK, Record
  <2>4. faults' \in Nat
    BY DEF TypeOK, Record
  <2> QED
    BY <2>2, <2>3, <2>4
<1>2. pc' \in [Procs -> Stages] /\ call' \in [Procs -> Call \cup {NoCall}]
  BY DEF TypeOK, Record, Stages
<1>3. \A q \in Procs : pc'[q] \notin {"down", "idle"} => call'[q] \in Call
  BY DEF TypeOK, Record
<1> QED
  BY <1>1, <1>2, <1>3 DEF TypeOK

LEMMA CallFields ==
    ASSUME TypeOK, NEW p \in Procs, pc[p] \notin {"down", "idle"}
    PROVE  /\ call[p] \in Call
           /\ call[p].pid \in Pids
           /\ call[p].req \in Requests /\ call[p].req \in RequestSet
           /\ call[p].req.action \in Intents /\ call[p].req.path \in Paths
           /\ call[p].req.content \in Contents
           /\ call[p].success \in BOOLEAN
           /\ call[p].undo \in UndoSet \cup {NoUndo}
BY KernelConstants DEF TypeOK, Call, RequestSet

(* Every event a step records is one of the kernel's.                      *)
LEMMA EventsAreEvents ==
    ASSUME NEW pid \in Pids
    PROVE  /\ \A req \in Requests : ProposalEvent(pid, req) \in Event
           /\ \A d \in Decisions, by \in {"policy", "operator"} : DecisionEvent(pid, d, by) \in Event
           /\ \A a \in Intents : ExecutionEvent(pid, a) \in Event
           /\ \A s \in BOOLEAN, u \in UndoSet \cup {NoUndo} : ReceiptEvent(pid, s, u) \in Event
BY DEF Event, ProposalEvent, DecisionEvent, ExecutionEvent, ReceiptEvent, Decisions

LEMMA EvaluateType ==
    ASSUME NEW L, NEW req
    PROVE  Evaluate(L, req) \in Decisions
BY DEF Evaluate, Decisions

(* TypeOK is inductive: one case for each action.                          *)
LEMMA TypeOKStep == TypeOK /\ [Next]_vars => TypeOK'
<1> SUFFICES ASSUME TypeOK, [Next]_vars PROVE TypeOK'
  OBVIOUS
<1> USE KernelConstants
<1>1. ASSUME NEW p \in Procs, Open(p) PROVE TypeOK'
  BY <1>1 DEF TypeOK, Open, Stages
<1>2. ASSUME NEW p \in Procs, Leave(p), faults' \in Nat PROVE TypeOK'
  <2>1. <<>> \in Seq(Event)
    OBVIOUS
  <2> QED
    BY <1>2, <2>1 DEF TypeOK, Leave, Stages
<1>3. ASSUME NEW p \in Procs, Close(p) PROVE TypeOK'
  BY <1>2, <1>3 DEF Close, TypeOK
<1>4. ASSUME NEW p \in Procs, Crash(p) PROVE TypeOK'
  BY <1>2, <1>4 DEF Crash, TypeOK
<1>5. ASSUME NEW p \in Procs, OtherAppendRaises(p) PROVE TypeOK'
  BY <1>5 DEF OtherAppendRaises, TypeOK, Stages
<1>6. ASSUME NEW p \in Procs, Handle(p) PROVE TypeOK'
  <2>1. PICK pid \in Pids \ issued, req \in Requests, confirm \in BOOLEAN :
          /\ issued' = issued \cup {pid}
          /\ Record(p, ProposalEvent(pid, req), "decide",
                    [NoCall EXCEPT !.pid = pid, !.req = req, !.confirm = confirm])
    BY <1>6 DEF Handle
  <2>2. [NoCall EXCEPT !.pid = pid, !.req = req, !.confirm = confirm] \in Call
    BY DEF NoCall, Call
  <2>3. issued' \subseteq Pids /\ UNCHANGED <<files, runs, undone>>
    BY <1>6, <2>1 DEF Handle, TypeOK
  <2> QED
    BY <2>1, <2>2, <2>3, EventsAreEvents, RecordType DEF Stages
<1>7. ASSUME NEW p \in Procs, Decide(p) PROVE TypeOK'
  <2> DEFINE d == Evaluate(mem[p], call[p].req)
  <2>1. call[p] \in Call /\ call[p].pid \in Pids /\ call[p].confirm \in BOOLEAN
    BY <1>7, CallFields DEF Decide, Call
  <2>2. DecisionEvent(call[p].pid, d, "policy") \in Event
    BY <2>1, EvaluateType, EventsAreEvents
  <2>3. AfterDecision(d, call[p].confirm) \in Stages
    BY DEF AfterDecision, Stages
  <2>4. issued' \subseteq Pids /\ UNCHANGED <<files, runs, undone>>
    BY <1>7 DEF Decide, TypeOK
  <2>5. Record(p, DecisionEvent(call[p].pid, d, "policy"),
               AfterDecision(d, call[p].confirm), call[p])
    BY <1>7 DEF Decide
  <2> QED
    BY <2>1, <2>2, <2>3, <2>4, <2>5, RecordType
<1>8. ASSUME NEW p \in Procs, Confirm(p) PROVE TypeOK'
  <2>1. call[p] \in Call /\ call[p].pid \in Pids
    BY <1>8, CallFields DEF Confirm
  <2>2. issued' \subseteq Pids /\ UNCHANGED <<files, runs, undone>>
    BY <1>8 DEF Confirm, TypeOK
  <2> QED
    BY <1>8, <2>1, <2>2, EventsAreEvents, RecordType DEF Confirm, Stages, Decisions
<1>9. ASSUME NEW p \in Procs, Approve(p) PROVE TypeOK'
  <2>1. PICK pid \in Pids :
          /\ Awaiting(mem[p], pid)
          /\ Record(p, DecisionEvent(pid, "approve", "operator"), "execute",
                    [NoCall EXCEPT !.pid = pid, !.req = RequestOf(mem[p], pid),
                                   !.confirm = TRUE])
    BY <1>9 DEF Approve
  <2>2. RequestOf(mem[p], pid) \in Requests
    BY <2>1, QueriesAreTyped DEF Awaiting, TypeOK
  <2>3. [NoCall EXCEPT !.pid = pid, !.req = RequestOf(mem[p], pid), !.confirm = TRUE] \in Call
    BY <2>2 DEF NoCall, Call
  <2>4. issued' \subseteq Pids /\ UNCHANGED <<files, runs, undone>>
    BY <1>9 DEF Approve, TypeOK
  <2> QED
    BY <2>1, <2>3, <2>4, EventsAreEvents, RecordType DEF Stages, Decisions
<1>10. ASSUME NEW p \in Procs, Reject(p) PROVE TypeOK'
  <2>1. PICK pid \in Pids : Record(p, DecisionEvent(pid, "deny", "operator"), "idle", NoCall)
    BY <1>10 DEF Reject
  <2>2. issued' \subseteq Pids /\ UNCHANGED <<files, runs, undone>>
    BY <1>10 DEF Reject, TypeOK
  <2> QED
    BY <2>1, <2>2, EventsAreEvents, RecordType DEF Stages, Decisions
<1>11. ASSUME NEW p \in Procs, Execute(p) PROVE TypeOK'
  <2> DEFINE req == call[p].req
  <2>1. PICK success \in ToolOutcomes(req) :
          /\ files' = [files EXCEPT ![req.path] = FileAfter(req)]
          /\ runs' = Append(runs, RunEntry(p, req, FileAfter(req)))
          /\ call' = [call EXCEPT ![p].success = success, ![p].undo = UndoOf(req, success)]
    BY <1>11 DEF Execute
  <2>2. /\ call[p] \in Call /\ call[p].pid \in Pids /\ req \in RequestSet
        /\ req.action \in Intents /\ req.path \in Paths /\ req.content \in Contents
    BY <1>11, CallFields DEF Execute
  <2>3. files[req.path] \in FileState /\ FileAfter(req) \in FileState
    BY <2>2 DEF FileAfter, FileState, TypeOK
  <2>4. files' \in [Paths -> FileState]
    BY <2>1, <2>2, <2>3 DEF TypeOK
  <2>5. RunEntry(p, req, FileAfter(req)) \in Run
    BY <2>2, <2>3 DEF RunEntry, Run
  <2>6. runs' \in Seq(Run)
    BY <2>1, <2>5, AppendProperties DEF TypeOK
  <2>7. success \in BOOLEAN
    BY DEF ToolOutcomes
  <2>8. UndoOf(req, success) \in UndoSet \cup {NoUndo}
    BY <2>2, <2>3 DEF UndoOf, UndoSet
  <2>9. [call[p] EXCEPT !.success = success, !.undo = UndoOf(req, success)] \in Call
    BY <2>2, <2>7, <2>8 DEF Call
  <2>10. call' = [call EXCEPT ![p] =
            [call[p] EXCEPT !.success = success, !.undo = UndoOf(req, success)]]
    BY <2>1, <2>2 DEF TypeOK
  <2>11. call' \in [Procs -> Call \cup {NoCall}] /\ call'[p] \in Call
    BY <2>9, <2>10 DEF TypeOK
  <2>12. \A q \in Procs : pc'[q] \notin {"down", "idle"} => call'[q] \in Call
    BY <1>11, <2>10, <2>11 DEF Execute, TypeOK
  <2> QED
    BY <1>11, <2>4, <2>6, <2>11, <2>12 DEF Execute, TypeOK, Stages
<1>12. ASSUME NEW p \in Procs, ToolRaises(p) PROVE TypeOK'
  <2>1. /\ call[p].pid \in Pids /\ call[p].req \in RequestSet
        /\ call[p].req.action \in Intents /\ call[p].req.path \in Paths
    BY <1>12, CallFields DEF ToolRaises
  <2>2. RunEntry(p, call[p].req, files[call[p].req.path]) \in Run
    BY <2>1 DEF RunEntry, Run, TypeOK
  <2>3. runs' \in Seq(Run)
    BY <1>12, <2>2, AppendProperties DEF ToolRaises, TypeOK
  <2> QED
    BY <1>12, <2>3 DEF ToolRaises, TypeOK, Stages
<1>13. ASSUME NEW p \in Procs, LogExecution(p) PROVE TypeOK'
  <2>1. call[p] \in Call /\ call[p].pid \in Pids /\ call[p].req.action \in Intents
    BY <1>13, CallFields DEF LogExecution
  <2>2. issued' \subseteq Pids /\ UNCHANGED <<files, runs, undone>>
    BY <1>13 DEF LogExecution, TypeOK
  <2> QED
    BY <1>13, <2>1, <2>2, EventsAreEvents, RecordType DEF LogExecution, Stages
<1>14. ASSUME NEW p \in Procs, LogReceipt(p) PROVE TypeOK'
  <2>1. /\ call[p].pid \in Pids /\ call[p].success \in BOOLEAN
        /\ call[p].undo \in UndoSet \cup {NoUndo}
    BY <1>14, CallFields DEF LogReceipt
  <2>2. issued' \subseteq Pids /\ UNCHANGED <<files, runs, undone>>
    BY <1>14 DEF LogReceipt, TypeOK
  <2> QED
    BY <1>14, <2>1, <2>2, EventsAreEvents, RecordType DEF LogReceipt, Stages
<1>15. ASSUME NEW p \in Procs, Rollback(p) PROVE TypeOK'
  <2>1. PICK pid \in Pids :
          /\ Holds(mem[p], "receipt", pid)
          /\ LatestReceipt(mem[p], pid).undo # NoUndo
          /\ files' = [files EXCEPT ![LatestReceipt(mem[p], pid).undo.path] =
                           LatestReceipt(mem[p], pid).undo.content]
          /\ undone' = undone \cup {pid}
    BY <1>15 DEF Rollback
  <2>2. LatestReceipt(mem[p], pid).undo \in UndoSet
    BY <2>1, QueriesAreTyped DEF TypeOK
  <2>3. files' \in [Paths -> FileState]
    BY <2>1, <2>2 DEF UndoSet, TypeOK
  <2> QED
    BY <1>15, <2>1, <2>3 DEF Rollback, TypeOK
<1>16. CASE UNCHANGED vars
  BY <1>16 DEF vars, TypeOK
<1> QED
  BY <1>1, <1>3, <1>4, <1>5, <1>6, <1>7, <1>8, <1>9, <1>10, <1>11, <1>12, <1>13,
     <1>14, <1>15, <1>16 DEF Next

(* Type correctness: in particular a process in the middle of a call always *)
(* has the proposal and the request it works on in its locals.             *)
THEOREM TypeCorrect == Spec => []TypeOK
<1>1. Init => TypeOK
  BY RuntimeConstants DEF Init, TypeOK, Stages
<1> QED
  BY <1>1, TypeOKStep, PTL DEF Spec
-----------------------------------------------------------------------------
(***************************************************************************)
(* RunsAreAuthorised is not inductive: a process about to run a tool was   *)
(* authorised by an earlier step.  Cleared says what that step left in the *)
(* durable log; appends by anyone keep it there.                           *)
(***************************************************************************)
Cleared(L, pid, action) ==
    \/ ApprovedBy(L, pid, "operator")
    \/ ApprovedBy(L, pid, "policy") /\ ~IsHighRisk(action)

ReadyIsCleared ==
    \A p \in Procs :
        pc[p] = "execute" => Cleared(disk, call[p].pid, call[p].req.action)

RunsAreCleared == \A i \in DOMAIN runs : Cleared(disk, runs[i].pid, runs[i].action)

AuthInv == TypeOK /\ ReadyIsCleared /\ RunsAreCleared

(* An approval once in the log stays there, and one appended is there.     *)
LEMMA ApprovalsPersist ==
    ASSUME NEW L \in Seq(Event), NEW e \in Event, NEW pid, NEW action
    PROVE  /\ Cleared(L, pid, action) => Cleared(Append(L, e), pid, action)
           /\ \A who : e = DecisionEvent(pid, "approve", who) =>
                    ApprovedBy(Append(L, e), pid, who)
<1>1. /\ DOMAIN L = 1..Len(L) /\ Len(L) \in Nat
      /\ DOMAIN Append(L, e) = 1..(Len(L) + 1)
      /\ \A i \in 1..Len(L) : Append(L, e)[i] = L[i]
      /\ Append(L, e)[Len(L) + 1] = e
  BY AppendProperties, LenProperties
<1>2. \A who : ApprovedBy(L, pid, who) => ApprovedBy(Append(L, e), pid, who)
  BY <1>1 DEF ApprovedBy
<1>3. \A who : e = DecisionEvent(pid, "approve", who) => ApprovedBy(Append(L, e), pid, who)
  BY <1>1 DEF ApprovedBy
<1> QED
  BY <1>2, <1>3 DEF Cleared

(* Recording an event keeps AuthInv's parts, provided it clears the run it *)
(* leads to.                                                               *)
LEMMA RecordKeepsAuth ==
    ASSUME AuthInv, NEW p \in Procs, NEW e \in Event, NEW then, NEW locals,
           Record(p, e, then, locals), UNCHANGED runs,
           then = "execute" => Cleared(Append(disk, e), locals.pid, locals.req.action)
    PROVE  ReadyIsCleared' /\ RunsAreCleared'
<1>1. ASSUME NEW pid, NEW action, Cleared(disk, pid, action)
      PROVE  Cleared(disk', pid, action)
  <2>1. disk' = disk \/ disk' = Append(disk, e)
    BY DEF Record
  <2>2. disk \in Seq(Event)
    BY DEF AuthInv, TypeOK
  <2>3. Cleared(Append(disk, e), pid, action)
    BY <1>1, <2>2, ApprovalsPersist
  <2> QED
    BY <1>1, <2>1, <2>3
<1>2. RunsAreCleared'
  BY <1>1 DEF RunsAreCleared, AuthInv
<1>3. ASSUME NEW q \in Procs, pc'[q] = "execute"
      PROVE  Cleared(disk', call'[q].pid, call'[q].req.action)
  <2>1. CASE q # p
    <3>1. pc[q] = "execute" /\ call'[q] = call[q]
      BY <1>3, <2>1 DEF Record, AuthInv, TypeOK
    <3> QED
      BY <1>1, <3>1 DEF ReadyIsCleared, AuthInv
  <2>2. CASE q = p
    <3>1. then = "execute" /\ disk' = Append(disk, e) /\ call'[p] = locals
      BY <1>3, <2>2 DEF Record, AuthInv, TypeOK
    <3> QED
      BY <3>1, <2>2
  <2> QED
    BY <2>1, <2>2
<1> QED
  BY <1>2, <1>3 DEF ReadyIsCleared

(* Steps that touch neither the log nor the runs, and bring no process to  *)
(* a run.                                                                  *)
LEMMA SilentKeepsAuth ==
    ASSUME AuthInv, UNCHANGED <<disk, runs>>,
           \A q \in Procs : pc'[q] = "execute" => pc[q] = "execute" /\ call'[q] = call[q]
    PROVE  ReadyIsCleared' /\ RunsAreCleared'
BY DEF AuthInv, ReadyIsCleared, RunsAreCleared

(* Running a tool adds one run, cleared because its process was.           *)
LEMMA RunKeepsAuth ==
    ASSUME AuthInv, NEW p \in Procs, pc[p] = "execute", UNCHANGED disk, NEW post \in FileState,
           runs' = Append(runs, RunEntry(p, call[p].req, post)),
           \A q \in Procs : pc'[q] = "execute" => pc[q] = "execute" /\ call'[q] = call[q]
    PROVE  ReadyIsCleared' /\ RunsAreCleared'
<1> DEFINE r == RunEntry(p, call[p].req, post)
<1>1. r \in Run
  BY CallFields DEF RunEntry, Run, AuthInv, TypeOK
<1>2. /\ DOMAIN runs = 1..Len(runs) /\ Len(runs) \in Nat
      /\ DOMAIN runs' = 1..(Len(runs) + 1)
      /\ \A i \in 1..Len(runs) : runs'[i] = runs[i]
      /\ runs'[Len(runs) + 1] = r
  BY <1>1, AppendProperties, LenProperties DEF AuthInv, TypeOK
<1>3. Cleared(disk, r.pid, r.action)
  BY DEF RunEntry, AuthInv, ReadyIsCleared
<1>4. RunsAreCleared'
  <2> HIDE DEF r
  <2>1. ASSUME NEW i \in DOMAIN runs' PROVE Cleared(disk', runs'[i].pid, runs'[i].action)
    <3>1. CASE i \in 1..Len(runs)
      BY <1>2, <3>1 DEF AuthInv, RunsAreCleared
    <3>2. CASE i = Len(runs) + 1
      BY <1>2, <1>3, <3>2
    <3> QED
      BY <1>2, <2>1, <3>1, <3>2
  <2> QED
    BY <2>1 DEF RunsAreCleared
<1>5. ReadyIsCleared'
  BY DEF AuthInv, ReadyIsCleared
<1> QED
  BY <1>4, <1>5

LEMMA AuthStep == AuthInv /\ [Next]_vars => AuthInv'
<1> SUFFICES ASSUME AuthInv, [Next]_vars PROVE ReadyIsCleared' /\ RunsAreCleared'
  BY TypeOKStep DEF AuthInv
<1>0. TypeOK
  BY DEF AuthInv
<1>1. ASSUME NEW p \in Procs, Open(p) \/ Close(p) \/ Crash(p) \/ OtherAppendRaises(p) \/ Rollback(p)
      PROVE  ReadyIsCleared' /\ RunsAreCleared'
  <2>1. \A q \in Procs : pc'[q] = "execute" => pc[q] = "execute" /\ call'[q] = call[q]
    BY <1>0, <1>1 DEF Open, Close, Crash, OtherAppendRaises, Leave, Rollback, TypeOK
  <2>2. UNCHANGED <<disk, runs>>
    BY <1>1 DEF Open, Close, Crash, OtherAppendRaises, Leave, Rollback
  <2> QED
    BY <2>1, <2>2, SilentKeepsAuth
<1>2. ASSUME NEW p \in Procs, Handle(p) PROVE ReadyIsCleared' /\ RunsAreCleared'
  <2>1. PICK pid \in Pids, req \in Requests, confirm \in BOOLEAN :
          Record(p, ProposalEvent(pid, req), "decide",
                 [NoCall EXCEPT !.pid = pid, !.req = req, !.confirm = confirm])
    BY <1>2 DEF Handle
  <2> QED
    BY <1>2, <2>1, EventsAreEvents, RecordKeepsAuth DEF Handle
<1>3. ASSUME NEW p \in Procs, Decide(p) PROVE ReadyIsCleared' /\ RunsAreCleared'
  <2> DEFINE d == Evaluate(mem[p], call[p].req)
             e == DecisionEvent(call[p].pid, d, "policy")
             then == AfterDecision(d, call[p].confirm)
  <2>1. call[p].pid \in Pids /\ call[p].req \in RequestSet
    BY <1>0, <1>3, CallFields DEF Decide
  <2>2. e \in Event
    BY <2>1, EvaluateType, EventsAreEvents
  <2>3. ASSUME then = "execute"
        PROVE  Cleared(Append(disk, e), call[p].pid, call[p].req.action)
    <3>1. d = "approve"
      BY <2>3 DEF AfterDecision
    <3>2. ~IsHighRisk(call[p].req.action)
      BY <2>1, <3>1, PolicyNeverApprovesHighRisk
    <3>3. ApprovedBy(Append(disk, e), call[p].pid, "policy")
      BY <1>0, <2>2, <3>1, ApprovalsPersist DEF TypeOK
    <3> QED
      BY <3>2, <3>3 DEF Cleared
  <2>4. Record(p, e, then, call[p]) /\ UNCHANGED runs
    BY <1>3 DEF Decide
  <2> HIDE DEF e, then
  <2> QED
    BY <2>2, <2>3, <2>4, RecordKeepsAuth
<1>4. ASSUME NEW p \in Procs, NEW pid \in Pids, NEW locals, locals.pid = pid,
             Record(p, DecisionEvent(pid, "approve", "operator"), "execute", locals), UNCHANGED runs
      PROVE  ReadyIsCleared' /\ RunsAreCleared'
  <2> DEFINE e == DecisionEvent(pid, "approve", "operator")
  <2>1. e \in Event
    BY EventsAreEvents DEF Decisions
  <2>2. ApprovedBy(Append(disk, e), pid, "operator")
    BY <1>0, <2>1, ApprovalsPersist DEF TypeOK
  <2>3. Cleared(Append(disk, e), locals.pid, locals.req.action)
    BY <1>4, <2>2 DEF Cleared
  <2> QED
    BY <1>4, <2>1, <2>3, RecordKeepsAuth
<1>5. ASSUME NEW p \in Procs, Confirm(p) PROVE ReadyIsCleared' /\ RunsAreCleared'
  BY <1>0, <1>4, <1>5, CallFields DEF Confirm
<1>6. ASSUME NEW p \in Procs, Approve(p) PROVE ReadyIsCleared' /\ RunsAreCleared'
  <2>1. PICK pid \in Pids :
          Record(p, DecisionEvent(pid, "approve", "operator"), "execute",
                 [NoCall EXCEPT !.pid = pid, !.req = RequestOf(mem[p], pid), !.confirm = TRUE])
    BY <1>6 DEF Approve
  <2>2. [NoCall EXCEPT !.pid = pid, !.req = RequestOf(mem[p], pid), !.confirm = TRUE].pid = pid
    BY DEF NoCall
  <2> QED
    BY <1>4, <1>6, <2>1, <2>2 DEF Approve
<1>7. ASSUME NEW p \in Procs, Reject(p) PROVE ReadyIsCleared' /\ RunsAreCleared'
  BY <1>7, EventsAreEvents, RecordKeepsAuth DEF Reject, Decisions
<1>8. ASSUME NEW p \in Procs, Execute(p) PROVE ReadyIsCleared' /\ RunsAreCleared'
  <2>1. FileAfter(call[p].req) \in FileState
    BY <1>0, <1>8, CallFields DEF Execute, FileAfter, FileState, TypeOK
  <2>2. runs' = Append(runs, RunEntry(p, call[p].req, FileAfter(call[p].req)))
    BY <1>8 DEF Execute
  <2>3. \A q \in Procs : pc'[q] = "execute" => pc[q] = "execute" /\ call'[q] = call[q]
    BY <1>0, <1>8 DEF Execute, TypeOK
  <2> QED
    BY <1>8, <2>1, <2>2, <2>3, RunKeepsAuth DEF Execute
<1>9. ASSUME NEW p \in Procs, ToolRaises(p) PROVE ReadyIsCleared' /\ RunsAreCleared'
  <2>1. files[call[p].req.path] \in FileState
    BY <1>0, <1>9, CallFields DEF ToolRaises, TypeOK
  <2>2. \A q \in Procs : pc'[q] = "execute" => pc[q] = "execute" /\ call'[q] = call[q]
    BY <1>0, <1>9 DEF ToolRaises, TypeOK
  <2> QED
    BY <1>9, <2>1, <2>2, RunKeepsAuth DEF ToolRaises
<1>10. ASSUME NEW p \in Procs, LogExecution(p) PROVE ReadyIsCleared' /\ RunsAreCleared'
  BY <1>0, <1>10, CallFields, EventsAreEvents, RecordKeepsAuth DEF LogExecution
<1>11. ASSUME NEW p \in Procs, LogReceipt(p) PROVE ReadyIsCleared' /\ RunsAreCleared'
  BY <1>0, <1>11, CallFields, EventsAreEvents, RecordKeepsAuth DEF LogReceipt
<1>12. CASE UNCHANGED vars
  BY <1>12 DEF vars, AuthInv, ReadyIsCleared, RunsAreCleared
<1> QED
  BY <1>1, <1>2, <1>3, <1>5, <1>6, <1>7, <1>8, <1>9, <1>10, <1>11, <1>12 DEF Next

(* Destructive actions require confirmation: no tool runs, in any process  *)
(* and after any faults, without an approval in the durable log, and none  *)
(* of high risk without the operator's.                                    *)
THEOREM RunsAuthorised == Spec => []RunsAreAuthorised
<1>1. Init => AuthInv
  <2>1. Init => TypeOK
    BY RuntimeConstants DEF Init, TypeOK, Stages
  <2>2. Init => ReadyIsCleared /\ RunsAreCleared
    BY DEF Init, ReadyIsCleared, RunsAreCleared
  <2> QED
    BY <2>1, <2>2 DEF AuthInv
<1>2. AuthInv => RunsAreAuthorised
  BY DEF AuthInv, RunsAreCleared, Cleared, RunsAreAuthorised
<1> QED
  BY <1>1, <1>2, AuthStep, PTL DEF Spec
-----------------------------------------------------------------------------
(***************************************************************************)
(* RunsOncePerProcess.  The policy decides a proposal once, before anyone  *)
(* else can approve it: so in every list a request for confirmation comes  *)
(* before the approvals, and a process that ran a proposal has an approval *)
(* in its list, after which approve() finds the latest decision no longer  *)
(* asking.                                                                 *)
(***************************************************************************)
Decides(e, pid, decision) == e.kind = "policy_decision" /\ e.pid = pid /\ e.decision = decision

Approved(L, pid) == \E i \in DOMAIN L : Decides(L[i], pid, "approve")
Asked(L, pid) == \E i \in DOMAIN L : Decides(L[i], pid, "require_confirmation")
AskedFirst(L) ==
    \A i, j \in DOMAIN L : \A pid \in Pids :
        Decides(L[i], pid, "require_confirmation") /\ Decides(L[j], pid, "approve") => i < j

Logs == {disk} \cup {mem[p] : p \in Procs}

LogsAreOfIssued ==
    /\ \A L \in Logs : \A i \in DOMAIN L : L[i].pid \in issued
    /\ \A i \in DOMAIN runs : runs[i].pid \in issued
    /\ \A p \in Procs : pc[p] \notin {"down", "idle"} => call[p].pid \in issued

LogsAskFirst == \A L \in Logs : AskedFirst(L)

DecidedOnce ==
    \A p \in Procs :
        /\ pc[p] = "decide" =>
              /\ \A L \in Logs : ~Approved(L, call[p].pid) /\ ~Asked(L, call[p].pid)
              /\ \A q \in Procs \ {p} : pc[q] = "decide" => call[q].pid # call[p].pid
        /\ pc[p] = "confirm" => Asked(mem[p], call[p].pid)
        /\ pc[p] = "execute" => Approved(mem[p], call[p].pid)

RunsAreRemembered ==
    \A i \in DOMAIN runs :
        /\ Approved(disk, runs[i].pid)
        /\ pc[runs[i].by] # "down" => Approved(mem[runs[i].by], runs[i].pid)
        /\ \A p \in Procs :
              pc[p] \in {"decide", "confirm", "execute"}
                  => runs[i].by # p \/ runs[i].pid # call[p].pid
        /\ \A j \in DOMAIN runs : runs[i].pid = runs[j].pid /\ runs[i].by = runs[j].by => i = j

OnceInv == AuthInv /\ LogsAreOfIssued /\ LogsAskFirst /\ DecidedOnce /\ RunsAreRemembered

LEMMA AppendDecides ==
    ASSUME NEW L \in Seq(Event), NEW e \in Event
    PROVE  /\ \A pid : Approved(Append(L, e), pid) <=> Approved(L, pid) \/ Decides(e, pid, "approve")
           /\ \A pid : Asked(Append(L, e), pid)
                          <=> Asked(L, pid) \/ Decides(e, pid, "require_confirmation")
           /\ AskedFirst(L) /\ (\A pid \in Pids : Decides(e, pid, "require_confirmation")
                                                     => ~Approved(L, pid))
                => AskedFirst(Append(L, e))
           /\ \A S : (\A i \in DOMAIN L : L[i].pid \in S) /\ e.pid \in S
                => \A i \in DOMAIN Append(L, e) : Append(L, e)[i].pid \in S
<1>1. /\ DOMAIN L = 1..Len(L) /\ Len(L) \in Nat
      /\ DOMAIN Append(L, e) = 1..(Len(L) + 1)
      /\ \A i \in 1..Len(L) : Append(L, e)[i] = L[i]
      /\ Append(L, e)[Len(L) + 1] = e
  BY AppendProperties, LenProperties
<1> DEFINE M == Append(L, e)
           n == Len(L)
<1> HIDE DEF M, n
<1>2. /\ DOMAIN L = 1..n /\ n \in Nat /\ DOMAIN M = 1..(n + 1)
      /\ \A i \in 1..n : M[i] = L[i]
      /\ M[n + 1] = e
  BY <1>1 DEF M, n
<1>3. \A i \in DOMAIN M : (i \in DOMAIN L /\ M[i] = L[i]) \/ (i = n + 1 /\ M[i] = e)
  BY <1>2
<1>4. \A i \in DOMAIN L : i \in DOMAIN M /\ M[i] = L[i] /\ i < n + 1
  BY <1>2
<1>5. n + 1 \in DOMAIN M
  BY <1>2
<1>6. \A pid : Approved(M, pid) <=> Approved(L, pid) \/ Decides(e, pid, "approve")
  BY <1>2, <1>3, <1>4, <1>5 DEF Approved
<1>7. \A pid : Asked(M, pid) <=> Asked(L, pid) \/ Decides(e, pid, "require_confirmation")
  BY <1>2, <1>3, <1>4, <1>5 DEF Asked
<1>8. ASSUME AskedFirst(L), \A pid \in Pids : Decides(e, pid, "require_confirmation")
                                                  => ~Approved(L, pid)
      PROVE  AskedFirst(M)
  <2> SUFFICES ASSUME NEW i \in DOMAIN M, NEW j \in DOMAIN M, NEW pid \in Pids,
                      Decides(M[i], pid, "require_confirmation"), Decides(M[j], pid, "approve")
               PROVE  i < j
    BY DEF AskedFirst
  <2>1. CASE i \in DOMAIN L /\ j \in DOMAIN L
    BY <1>4, <1>8, <2>1 DEF AskedFirst
  <2>2. CASE i = n + 1 /\ j \in DOMAIN L
    BY <1>2, <1>4, <1>8, <2>2 DEF Approved
  <2>3. CASE i = n + 1 /\ j = n + 1
    BY <1>2, <2>3 DEF Decides
  <2>4. CASE i \in DOMAIN L /\ j = n + 1
    BY <1>2, <1>4, <2>4
  <2> QED
    BY <1>3, <2>1, <2>2, <2>3, <2>4
<1>9. \A S : (\A i \in DOMAIN L : L[i].pid \in S) /\ e.pid \in S
                => \A i \in DOMAIN M : M[i].pid \in S
  BY <1>3
<1> QED
  BY <1>6, <1>7, <1>8, <1>9 DEF M
LEMMA LogsAreLogs ==
    ASSUME TypeOK
    PROVE  Logs \subseteq Seq(Event) /\ disk \in Logs /\ \A p \in Procs : mem[p] \in Logs
BY DEF TypeOK, Logs

LEMMA RunFields ==
    ASSUME TypeOK, NEW i \in DOMAIN runs
    PROVE  runs[i].by \in Procs /\ runs[i].pid \in Pids /\ runs[i].action \in Intents
<1>1. runs \in Seq(Run) /\ i \in 1..Len(runs)
  BY LenProperties DEF TypeOK
<1>2. runs[i] \in Run
  BY <1>1, ElementOfSeq
<1> QED
  BY <1>2 DEF Run

(* What is asked of an append: the proposal of its event is one that was   *)
(* made; a request for confirmation finds no approval anywhere, and no     *)
(* verdict is given while another process still decides; and a process     *)
(* that gets to decide, confirm or run has what DecidedOnce says and has   *)
(* not run the proposal yet.                                               *)
LEMMA RecordKeepsOnce ==
    ASSUME OnceInv, NEW p \in Procs, NEW e \in Event, NEW then, NEW locals,
           Record(p, e, then, locals), UNCHANGED runs,
           pc[p] # "down", then # "down",
           issued \subseteq issued', e.pid \in issued',
           then # "idle" => locals.pid \in issued',
           \A pid : Decides(e, pid, "require_confirmation") => \A L \in Logs : ~Approved(L, pid),
           \A q \in Procs \ {p} :
              pc[q] = "decide" => ~Decides(e, call[q].pid, "approve")
                                  /\ ~Decides(e, call[q].pid, "require_confirmation"),
           then = "decide" =>
              /\ \A L \in Logs : ~Approved(L, locals.pid) /\ ~Asked(L, locals.pid)
              /\ e.kind # "policy_decision"
              /\ \A q \in Procs : pc[q] = "decide" => call[q].pid # locals.pid,
           then = "confirm" => Decides(e, locals.pid, "require_confirmation"),
           then = "execute" => Decides(e, locals.pid, "approve"),
           then \in {"decide", "confirm", "execute"} =>
              \A i \in DOMAIN runs : runs[i].by # p \/ runs[i].pid # locals.pid
    PROVE  LogsAreOfIssued' /\ LogsAskFirst' /\ DecidedOnce' /\ RunsAreRemembered'
<1>1. TypeOK /\ Logs \subseteq Seq(Event)
  BY LogsAreLogs DEF OnceInv, AuthInv
<1>2. /\ mem'[p] = Append(mem[p], e) /\ \A q \in Procs \ {p} : mem'[q] = mem[q]
      /\ disk' = disk \/ disk' = Append(disk, e)
      /\ \A q \in Procs \ {p} : pc'[q] = pc[q] /\ call'[q] = call[q]
      /\ pc'[p] = "idle" \/ (pc'[p] = then /\ call'[p] = locals)
      /\ disk \in Seq(Event) /\ \A q \in Procs : mem[q] \in Seq(Event)
  BY <1>1 DEF Record, TypeOK
<1>3. ASSUME NEW M \in Logs'
      PROVE  M \in Logs \/ \E L \in Logs : M = Append(L, e)
  BY <1>2 DEF Logs
<1>8. ASSUME NEW pid
      PROVE  /\ Approved(disk, pid) => Approved(disk', pid)
             /\ \A q \in Procs : Approved(mem[q], pid) => Approved(mem'[q], pid)
             /\ \A q \in Procs : Asked(mem[q], pid) => Asked(mem'[q], pid)
             /\ Decides(e, pid, "approve") => Approved(mem'[p], pid)
             /\ Decides(e, pid, "require_confirmation") => Asked(mem'[p], pid)
  <2>1. /\ Approved(disk, pid) => Approved(Append(disk, e), pid)
        /\ \A q \in Procs : Approved(mem[q], pid) => Approved(Append(mem[q], e), pid)
        /\ \A q \in Procs : Asked(mem[q], pid) => Asked(Append(mem[q], e), pid)
        /\ Decides(e, pid, "approve") => Approved(Append(mem[p], e), pid)
        /\ Decides(e, pid, "require_confirmation") => Asked(Append(mem[p], e), pid)
    BY <1>2, AppendDecides
  <2> QED
    BY <1>2, <2>1
<1>4. LogsAreOfIssued'
  <2>1. ASSUME NEW M \in Logs', NEW i \in DOMAIN M PROVE M[i].pid \in issued'
    <3>1. CASE M \in Logs
      BY <2>1, <3>1 DEF OnceInv, LogsAreOfIssued
    <3>2. CASE \E L \in Logs : M = Append(L, e)
      <4>1. PICK L \in Logs : M = Append(L, e)
        BY <3>2
      <4>2. \A j \in DOMAIN L : L[j].pid \in issued'
        BY DEF OnceInv, LogsAreOfIssued
      <4> QED
        BY <1>1, <2>1, <4>1, <4>2, AppendDecides
    <3> QED
      BY <1>3, <2>1, <3>1, <3>2
  <2>2. \A q \in Procs : pc'[q] \notin {"down", "idle"} => call'[q].pid \in issued'
    BY <1>2 DEF OnceInv, LogsAreOfIssued
  <2>3. \A i \in DOMAIN runs' : runs'[i].pid \in issued'
    BY DEF OnceInv, LogsAreOfIssued
  <2> QED
    BY <2>1, <2>2, <2>3 DEF LogsAreOfIssued
<1>5. LogsAskFirst'
  <2> SUFFICES ASSUME NEW M \in Logs' PROVE AskedFirst(M)
    BY DEF LogsAskFirst
  <2>1. CASE M \in Logs
    BY <2>1 DEF OnceInv, LogsAskFirst
  <2>2. ASSUME NEW L \in Logs, M = Append(L, e) PROVE AskedFirst(M)
    BY <1>1, <2>2, AppendDecides DEF OnceInv, LogsAskFirst
  <2> QED
    BY <1>3, <2>1, <2>2
<1>6. DecidedOnce'
  <2>1. ASSUME NEW pid, \A L \in Logs : ~Approved(L, pid) /\ ~Asked(L, pid),
               ~Decides(e, pid, "approve"), ~Decides(e, pid, "require_confirmation"),
               NEW M \in Logs'
        PROVE  ~Approved(M, pid) /\ ~Asked(M, pid)
    <3>1. ASSUME NEW L \in Logs, M = Append(L, e) PROVE ~Approved(M, pid) /\ ~Asked(M, pid)
      BY <1>1, <2>1, <3>1, AppendDecides
    <3> QED
      BY <1>3, <2>1, <3>1
  <2>2. ASSUME NEW q \in Procs, pc'[q] = "decide"
        PROVE  /\ \A M \in Logs' : ~Approved(M, call'[q].pid) /\ ~Asked(M, call'[q].pid)
               /\ \A r \in Procs \ {q} : pc'[r] = "decide" => call'[r].pid # call'[q].pid
    <3>1. CASE q = p
      <4>1. then = "decide" /\ call'[q] = locals
        BY <1>2, <2>2, <3>1
      <4>2. ~Decides(e, locals.pid, "approve") /\ ~Decides(e, locals.pid, "require_confirmation")
        BY <4>1 DEF Decides
      <4>3. \A M \in Logs' : ~Approved(M, locals.pid) /\ ~Asked(M, locals.pid)
        BY <2>1, <4>1, <4>2
      <4> QED
        BY <1>2, <3>1, <4>1, <4>3
    <3>2. CASE q # p
      <4>1. pc[q] = "decide" /\ call'[q] = call[q]
        BY <1>2, <2>2, <3>2
      <4>2. \A M \in Logs' : ~Approved(M, call[q].pid) /\ ~Asked(M, call[q].pid)
        BY <2>1, <3>2, <4>1 DEF OnceInv, DecidedOnce
      <4> QED
        BY <1>2, <3>2, <4>1, <4>2 DEF OnceInv, DecidedOnce
    <3> QED
      BY <3>1, <3>2
  <2>3. ASSUME NEW q \in Procs
        PROVE  /\ pc'[q] = "confirm" => Asked(mem'[q], call'[q].pid)
               /\ pc'[q] = "execute" => Approved(mem'[q], call'[q].pid)
    BY <1>2, <1>8 DEF OnceInv, DecidedOnce
  <2> QED
    BY <2>2, <2>3 DEF DecidedOnce
<1>7. RunsAreRemembered'
  <2> SUFFICES ASSUME NEW i \in DOMAIN runs
               PROVE  /\ Approved(disk', runs[i].pid)
                      /\ pc'[runs[i].by] # "down" => Approved(mem'[runs[i].by], runs[i].pid)
                      /\ \A q \in Procs :
                            pc'[q] \in {"decide", "confirm", "execute"}
                               => runs[i].by # q \/ runs[i].pid # call'[q].pid
    BY DEF RunsAreRemembered, OnceInv
  <2>1. runs[i].by \in Procs
    BY <1>1, RunFields
  <2>2. Approved(disk', runs[i].pid)
    BY <1>8 DEF OnceInv, RunsAreRemembered
  <2>3. pc'[runs[i].by] # "down" => Approved(mem'[runs[i].by], runs[i].pid)
    BY <1>2, <1>8, <2>1 DEF OnceInv, RunsAreRemembered
  <2>4. \A q \in Procs : pc'[q] \in {"decide", "confirm", "execute"}
                            => runs[i].by # q \/ runs[i].pid # call'[q].pid
    BY <1>2 DEF OnceInv, RunsAreRemembered
  <2> QED
    BY <2>2, <2>3, <2>4
<1> QED
  BY <1>4, <1>5, <1>6, <1>7
(* Opening the log, leaving it, or unwinding a call.                       *)
LEMMA LeavingKeepsOnce ==
    ASSUME OnceInv, NEW p \in Procs, UNCHANGED <<disk, runs, issued>>,
           pc'[p] \in {"down", "idle"}, pc'[p] = "idle" => mem'[p] \in {mem[p], disk},
           pc[p] = "down" /\ pc'[p] = "idle" => mem'[p] = disk,
           mem'[p] \in {mem[p], disk, <<>>},
           \A q \in Procs \ {p} : pc'[q] = pc[q] /\ call'[q] = call[q] /\ mem'[q] = mem[q]
    PROVE  LogsAreOfIssued' /\ LogsAskFirst' /\ DecidedOnce' /\ RunsAreRemembered'
<1>1. \A M \in Logs' : M \in Logs \/ M = <<>>
  BY DEF Logs
<1>2. LogsAreOfIssued'
  BY <1>1 DEF OnceInv, LogsAreOfIssued
<1>3. LogsAskFirst'
  BY <1>1 DEF OnceInv, LogsAskFirst, AskedFirst
<1>4. \A pid : ~Approved(<<>>, pid) /\ ~Asked(<<>>, pid)
  BY DEF Approved, Asked
<1>5. DecidedOnce'
  <2> SUFFICES ASSUME NEW q \in Procs, q # p
               PROVE  /\ pc[q] = "decide" =>
                            /\ \A L \in Logs' : ~Approved(L, call[q].pid) /\ ~Asked(L, call[q].pid)
                            /\ \A r \in Procs \ {q} : pc'[r] = "decide" => call'[r].pid # call[q].pid
                      /\ pc[q] = "confirm" => Asked(mem[q], call[q].pid)
                      /\ pc[q] = "execute" => Approved(mem[q], call[q].pid)
    BY DEF DecidedOnce
  <2> QED
    BY <1>1, <1>4 DEF OnceInv, DecidedOnce
<1>6. RunsAreRemembered'
  <2> SUFFICES ASSUME NEW i \in DOMAIN runs
               PROVE  /\ pc'[runs[i].by] # "down" => Approved(mem'[runs[i].by], runs[i].pid)
                      /\ \A q \in Procs :
                            pc'[q] \in {"decide", "confirm", "execute"}
                               => runs[i].by # q \/ runs[i].pid # call'[q].pid
    BY DEF RunsAreRemembered, OnceInv
  <2>1. runs[i].by \in Procs
    BY RunFields DEF OnceInv, AuthInv
  <2> QED
    BY <2>1 DEF OnceInv, RunsAreRemembered
<1> QED
  BY <1>2, <1>3, <1>5, <1>6

(* A run is the first of its proposal in its process.                      *)
LEMMA RunKeepsOnce ==
    ASSUME OnceInv, NEW p \in Procs, pc[p] = "execute", UNCHANGED <<disk, mem, issued>>,
           NEW post \in FileState, runs' = Append(runs, RunEntry(p, call[p].req, post)),
           pc'[p] \in {"idle", "log_execution"},
           pc'[p] # "idle" => call'[p].pid = call[p].pid,
           \A q \in Procs \ {p} : pc'[q] = pc[q] /\ call'[q] = call[q]
    PROVE  LogsAreOfIssued' /\ LogsAskFirst' /\ DecidedOnce' /\ RunsAreRemembered'
<1> DEFINE r == RunEntry(p, call[p].req, post)
           n == Len(runs)
<1>1. TypeOK /\ r \in Run /\ r.pid = call[p].pid /\ r.by = p
  BY CallFields DEF RunEntry, Run, OnceInv, AuthInv, TypeOK
<1>2. /\ DOMAIN runs = 1..n /\ n \in Nat
      /\ DOMAIN runs' = 1..(n + 1)
      /\ \A i \in 1..n : runs'[i] = runs[i]
      /\ runs'[n + 1] = r
  BY <1>1, AppendProperties, LenProperties DEF TypeOK
<1>3. \A i \in DOMAIN runs' : (i \in DOMAIN runs /\ runs'[i] = runs[i]) \/ (i = n + 1 /\ runs'[i] = r)
  BY <1>2
<1> HIDE DEF r, n
<1>4. Logs' = Logs
  BY DEF Logs
<1>5. LogsAreOfIssued' /\ LogsAskFirst'
  <2>1. call[p].pid \in issued
    BY DEF OnceInv, LogsAreOfIssued
  <2> QED
    BY <1>1, <1>3, <1>4, <2>1 DEF OnceInv, LogsAreOfIssued, LogsAskFirst
<1>6. DecidedOnce'
  BY <1>4 DEF OnceInv, DecidedOnce
<1>7. RunsAreRemembered'
  <2>1. Approved(disk, r.pid) /\ Approved(mem[p], r.pid)
    <3>1. Cleared(disk, call[p].pid, call[p].req.action)
      BY DEF OnceInv, AuthInv, ReadyIsCleared
    <3>2. Approved(disk, call[p].pid)
      BY <3>1 DEF Cleared, ApprovedBy, Approved, Decides, DecisionEvent
    <3> QED
      BY <1>1, <3>2 DEF OnceInv, DecidedOnce
  <2>2. \A i \in DOMAIN runs' :
          /\ Approved(disk', runs'[i].pid)
          /\ pc'[runs'[i].by] # "down" => Approved(mem'[runs'[i].by], runs'[i].pid)
    <3> SUFFICES ASSUME NEW i \in DOMAIN runs'
                 PROVE  /\ Approved(disk, runs'[i].pid)
                        /\ pc'[runs'[i].by] # "down" => Approved(mem[runs'[i].by], runs'[i].pid)
      OBVIOUS
    <3>1. CASE i \in DOMAIN runs /\ runs'[i] = runs[i]
      <4>1. runs[i].by \in Procs
        BY <1>1, <3>1, RunFields
      <4> QED
        BY <3>1, <4>1 DEF OnceInv, RunsAreRemembered
    <3>2. CASE runs'[i] = r
      BY <1>1, <2>1, <3>2
    <3> QED
      BY <1>3, <3>1, <3>2
  <2>3. \A i \in DOMAIN runs' : \A q \in Procs :
          pc'[q] \in {"decide", "confirm", "execute"}
              => runs'[i].by # q \/ runs'[i].pid # call'[q].pid
    BY <1>1, <1>3 DEF OnceInv, RunsAreRemembered
  <2>4. \A i, j \in DOMAIN runs' : runs'[i].pid = runs'[j].pid /\ runs'[i].by = runs'[j].by => i = j
    <3>1. \A i \in DOMAIN runs : runs[i].by # r.by \/ runs[i].pid # r.pid
      BY <1>1 DEF OnceInv, RunsAreRemembered
    <3>2. \A i, j \in DOMAIN runs : runs[i].pid = runs[j].pid /\ runs[i].by = runs[j].by => i = j
      BY DEF OnceInv, RunsAreRemembered
    <3> QED
      BY <1>3, <3>1, <3>2
  <2> QED
    BY <2>2, <2>3, <2>4 DEF RunsAreRemembered
<1> QED
  BY <1>5, <1>6, <1>7

(* What Awaiting says of a list that asks first: nothing was approved.     *)
LEMMA AwaitingIsUnapproved ==
    ASSUME NEW L \in Seq(Event), AskedFirst(L), NEW pid \in Pids, Awaiting(L, pid)
    PROVE  Asked(L, pid) /\ ~Approved(L, pid)
<1>1. Holds(L, "policy_decision", pid)
      /\ FindLatest(L, "policy_decision", pid).decision = "require_confirmation"
  BY DEF Awaiting, LatestDecision
<1>2. PICK i \in DOMAIN L :
          /\ IsOf(L[i], "policy_decision", pid)
          /\ FindLatest(L, "policy_decision", pid) = L[i]
          /\ \A j \in Occurrences(L, "policy_decision", pid) : j <= i
  BY <1>1, FindLatestIs
<1>3. Decides(L[i], pid, "require_confirmation")
  BY <1>1, <1>2 DEF Decides, IsOf
<1>4. ASSUME NEW j \in DOMAIN L, Decides(L[j], pid, "approve") PROVE FALSE
  <2>1. i < j /\ j \in Occurrences(L, "policy_decision", pid)
    BY <1>3, <1>4 DEF AskedFirst, Occurrences, IsOf, Decides
  <2>2. i \in Nat /\ j \in Nat /\ j <= i
    BY <1>2, <2>1, LenProperties
  <2> QED
    BY <2>1, <2>2
<1> QED
  BY <1>3, <1>4 DEF Asked, Approved
LEMMA OnceStep == OnceInv /\ [Next]_vars => OnceInv'
<1> SUFFICES ASSUME OnceInv, [Next]_vars
             PROVE  LogsAreOfIssued' /\ LogsAskFirst' /\ DecidedOnce' /\ RunsAreRemembered'
  BY AuthStep DEF OnceInv
<1>0. TypeOK /\ AuthInv
  BY DEF OnceInv, AuthInv
<1> DEFINE Goal == LogsAreOfIssued' /\ LogsAskFirst' /\ DecidedOnce' /\ RunsAreRemembered'
<1>1. ASSUME NEW p \in Procs, Open(p) \/ Close(p) \/ Crash(p) \/ OtherAppendRaises(p)
      PROVE  Goal
  <2>1. /\ UNCHANGED <<disk, runs, issued>>
        /\ \A q \in Procs \ {p} : pc'[q] = pc[q] /\ call'[q] = call[q] /\ mem'[q] = mem[q]
    BY <1>0, <1>1 DEF Open, Close, Crash, OtherAppendRaises, Leave, TypeOK
  <2>2. /\ pc'[p] \in {"down", "idle"} /\ (pc'[p] = "idle" => mem'[p] \in {mem[p], disk})
        /\ (pc[p] = "down" /\ pc'[p] = "idle" => mem'[p] = disk)
        /\ mem'[p] \in {mem[p], disk, <<>>}
    BY <1>0, <1>1 DEF Open, Close, Crash, OtherAppendRaises, Leave, TypeOK
  <2> QED
    BY <2>1, <2>2, LeavingKeepsOnce
<1>2. ASSUME UNCHANGED <<disk, mem, pc, call, issued, runs>> PROVE Goal
  <2>1. Logs' = Logs
    BY <1>2 DEF Logs
  <2>2. DecidedOnce' /\ RunsAreRemembered'
    BY <1>2, <2>1 DEF OnceInv, DecidedOnce, RunsAreRemembered
  <2> QED
    BY <1>2, <2>1, <2>2 DEF OnceInv, LogsAreOfIssued, LogsAskFirst
<1>3. ASSUME NEW p \in Procs, Handle(p) PROVE Goal
  <2>1. PICK pid \in Pids \ issued, req \in Requests, confirm \in BOOLEAN :
          /\ issued' = issued \cup {pid}
          /\ Record(p, ProposalEvent(pid, req), "decide",
                    [NoCall EXCEPT !.pid = pid, !.req = req, !.confirm = confirm])
    BY <1>3 DEF Handle
  <2> DEFINE e == ProposalEvent(pid, req)
             locals == [NoCall EXCEPT !.pid = pid, !.req = req, !.confirm = confirm]
  <2>2. locals.pid = pid /\ e \in Event /\ e.pid = pid /\ e.kind # "policy_decision"
    BY EventsAreEvents DEF NoCall, ProposalEvent
  <2>3. \A any, decision : ~Decides(e, any, decision)
    BY <2>2 DEF Decides
  <2>4. \A L \in Logs : ~Approved(L, pid) /\ ~Asked(L, pid)
    BY <2>1 DEF OnceInv, LogsAreOfIssued, Approved, Asked, Decides
  <2>5. \A q \in Procs : pc[q] = "decide" => call[q].pid # pid
    BY <2>1 DEF OnceInv, LogsAreOfIssued
  <2>6. \A i \in DOMAIN runs : runs[i].pid # pid
    BY <2>1 DEF OnceInv, LogsAreOfIssued
  <2>7. Record(p, e, "decide", locals) /\ UNCHANGED runs /\ pc[p] # "down"
    BY <1>3, <2>1 DEF Handle
  <2> HIDE DEF e, locals
  <2> QED
    BY <2>1, <2>2, <2>3, <2>4, <2>5, <2>6, <2>7, RecordKeepsOnce
<1>4. ASSUME NEW p \in Procs, Decide(p) PROVE Goal
  <2> DEFINE d == Evaluate(mem[p], call[p].req)
             e == DecisionEvent(call[p].pid, d, "policy")
             then == AfterDecision(d, call[p].confirm)
  <2>1. pc[p] = "decide" /\ Record(p, e, then, call[p]) /\ UNCHANGED <<runs, issued>>
    BY <1>4 DEF Decide
  <2>2. e \in Event /\ call[p].pid \in issued
    BY <1>0, <2>1, CallFields, EvaluateType, EventsAreEvents DEF OnceInv, LogsAreOfIssued
  <2>3. e.pid = call[p].pid /\ \A any, decision : Decides(e, any, decision)
                                  <=> any = call[p].pid /\ d = decision
    BY DEF Decides, DecisionEvent
  <2>4. /\ then \in {"idle", "confirm", "execute"}
        /\ then = "execute" => d = "approve"
        /\ then = "confirm" => d = "require_confirmation"
    BY DEF AfterDecision
  <2>5. /\ \A L \in Logs : ~Approved(L, call[p].pid)
        /\ \A q \in Procs \ {p} : pc[q] = "decide" => call[q].pid # call[p].pid
    BY <2>1 DEF OnceInv, DecidedOnce
  <2>6. \A i \in DOMAIN runs : runs[i].by # p \/ runs[i].pid # call[p].pid
    BY <2>1 DEF OnceInv, RunsAreRemembered
  <2> HIDE DEF d, e, then
  <2> QED
    BY <2>1, <2>2, <2>3, <2>4, <2>5, <2>6, RecordKeepsOnce
<1>5. ASSUME NEW p \in Procs, NEW pid \in Pids, NEW locals, locals.pid = pid, pc[p] # "down",
             Record(p, DecisionEvent(pid, "approve", "operator"), "execute", locals),
             UNCHANGED <<runs, issued>>, pid \in issued, Asked(mem[p], pid),
             \A i \in DOMAIN runs : runs[i].by # p \/ runs[i].pid # pid
      PROVE  Goal
  <2> DEFINE e == DecisionEvent(pid, "approve", "operator")
  <2>1. e \in Event /\ e.pid = pid
    BY EventsAreEvents DEF Decisions, DecisionEvent
  <2>2. \A any, decision : Decides(e, any, decision) <=> any = pid /\ decision = "approve"
    BY DEF Decides, DecisionEvent
  <2>3. \A q \in Procs : pc[q] = "decide" => call[q].pid # pid
    BY <1>0, <1>5, LogsAreLogs DEF OnceInv, DecidedOnce
  <2>4. Record(p, e, "execute", locals)
    BY <1>5
  <2> HIDE DEF e
  <2>5. /\ \A any : Decides(e, any, "require_confirmation") => \A L \in Logs : ~Approved(L, any)
        /\ \A q \in Procs \ {p} : pc[q] = "decide" => ~Decides(e, call[q].pid, "approve")
                                        /\ ~Decides(e, call[q].pid, "require_confirmation")
        /\ Decides(e, locals.pid, "approve")
    BY <1>5, <2>2, <2>3
  <2> QED
    BY <1>5, <2>1, <2>4, <2>5, RecordKeepsOnce
<1>6. ASSUME NEW p \in Procs, Confirm(p) PROVE Goal
  <2>1. call[p].pid \in Pids /\ pc[p] = "confirm"
    BY <1>0, <1>6, CallFields DEF Confirm
  <2>2. call[p].pid \in issued /\ Asked(mem[p], call[p].pid)
        /\ \A i \in DOMAIN runs : runs[i].by # p \/ runs[i].pid # call[p].pid
    BY <2>1 DEF OnceInv, LogsAreOfIssued, DecidedOnce, RunsAreRemembered
  <2> QED
    BY <1>5, <1>6, <2>1, <2>2 DEF Confirm
<1>7. ASSUME NEW p \in Procs, Approve(p) PROVE Goal
  <2>1. PICK pid \in Pids :
          /\ Awaiting(mem[p], pid)
          /\ Record(p, DecisionEvent(pid, "approve", "operator"), "execute",
                    [NoCall EXCEPT !.pid = pid, !.req = RequestOf(mem[p], pid), !.confirm = TRUE])
    BY <1>7 DEF Approve
  <2> DEFINE locals == [NoCall EXCEPT !.pid = pid, !.req = RequestOf(mem[p], pid),
                                      !.confirm = TRUE]
  <2>2. locals.pid = pid
    BY DEF NoCall
  <2>3. mem[p] \in Seq(Event) /\ mem[p] \in Logs /\ AskedFirst(mem[p])
    BY <1>0, LogsAreLogs DEF TypeOK, OnceInv, LogsAskFirst
  <2>4. Asked(mem[p], pid) /\ ~Approved(mem[p], pid)
    BY <2>1, <2>3, AwaitingIsUnapproved
  <2>5. pid \in issued
    BY <2>3, <2>4 DEF OnceInv, LogsAreOfIssued, Asked, Decides
  <2>6. pc[p] = "idle" /\ UNCHANGED <<runs, issued>>
    BY <1>7 DEF Approve
  <2>7. \A i \in DOMAIN runs : runs[i].by # p \/ runs[i].pid # pid
    BY <2>4, <2>6 DEF OnceInv, RunsAreRemembered
  <2>8. Record(p, DecisionEvent(pid, "approve", "operator"), "execute", locals)
    BY <2>1
  <2> HIDE DEF locals
  <2> QED
    BY <1>5, <2>2, <2>4, <2>5, <2>6, <2>7, <2>8
<1>8. ASSUME NEW p \in Procs, NEW e \in Event, NEW then \in {"idle", "log_receipt"}, NEW locals,
             Record(p, e, then, locals), UNCHANGED <<runs, issued>>, pc[p] # "down",
             e.pid \in issued, then # "idle" => locals.pid \in issued,
             \A pid : ~Decides(e, pid, "approve") /\ ~Decides(e, pid, "require_confirmation")
      PROVE  Goal
  BY <1>8, RecordKeepsOnce
<1>9. ASSUME NEW p \in Procs, Reject(p) PROVE Goal
  <2>1. PICK pid \in Pids :
          /\ Holds(mem[p], "proposal", pid)
          /\ Record(p, DecisionEvent(pid, "deny", "operator"), "idle", NoCall)
    BY <1>9 DEF Reject
  <2> DEFINE e == DecisionEvent(pid, "deny", "operator")
  <2>2. pid \in issued
    BY <1>0, <2>1, LogsAreLogs DEF OnceInv, LogsAreOfIssued, Holds, Occurrences, IsOf
  <2>3. /\ e \in Event /\ e.pid = pid
        /\ \A any : ~Decides(e, any, "approve") /\ ~Decides(e, any, "require_confirmation")
    BY EventsAreEvents DEF Decisions, DecisionEvent, Decides
  <2> QED
    BY <1>8, <1>9, <2>1, <2>2, <2>3 DEF Reject
<1>10. ASSUME NEW p \in Procs, LogExecution(p) PROVE Goal
  <2> DEFINE e == ExecutionEvent(call[p].pid, call[p].req.action)
  <2>1. /\ e \in Event /\ e.pid = call[p].pid /\ call[p].pid \in issued
        /\ \A any, decision : ~Decides(e, any, decision)
    BY <1>0, <1>10, CallFields, EventsAreEvents
       DEF LogExecution, ExecutionEvent, Decides, OnceInv, LogsAreOfIssued
  <2> QED
    BY <1>8, <1>10, <2>1 DEF LogExecution
<1>11. ASSUME NEW p \in Procs, LogReceipt(p) PROVE Goal
  <2> DEFINE e == ReceiptEvent(call[p].pid, call[p].success, call[p].undo)
  <2>1. /\ e \in Event /\ e.pid = call[p].pid /\ call[p].pid \in issued
        /\ \A any, decision : ~Decides(e, any, decision)
    BY <1>0, <1>11, CallFields, EventsAreEvents
       DEF LogReceipt, ReceiptEvent, Decides, OnceInv, LogsAreOfIssued
  <2> QED
    BY <1>8, <1>11, <2>1 DEF LogReceipt
<1>12. ASSUME NEW p \in Procs, Execute(p) PROVE Goal
  <2>1. FileAfter(call[p].req) \in FileState
    BY <1>0, <1>12, CallFields DEF Execute, FileAfter, FileState, TypeOK
  <2>2. /\ runs' = Append(runs, RunEntry(p, call[p].req, FileAfter(call[p].req)))
        /\ UNCHANGED <<disk, mem, issued>> /\ pc[p] = "execute" /\ pc'[p] = "log_execution"
    BY <1>0, <1>12 DEF Execute, TypeOK
  <2>3. call'[p].pid = call[p].pid
    <3>1. call[p] \in Call
      BY <1>0, <1>12, CallFields DEF Execute
    <3> QED
      BY <1>0, <1>12, <3>1 DEF Execute, TypeOK, Call
  <2>4. \A q \in Procs \ {p} : pc'[q] = pc[q] /\ call'[q] = call[q]
    BY <1>0, <1>12 DEF Execute, TypeOK
  <2> QED
    BY <2>1, <2>2, <2>3, <2>4, RunKeepsOnce
<1>13. ASSUME NEW p \in Procs, ToolRaises(p) PROVE Goal
  <2>1. files[call[p].req.path] \in FileState
    BY <1>0, <1>13, CallFields DEF ToolRaises, TypeOK
  <2>2. /\ runs' = Append(runs, RunEntry(p, call[p].req, files[call[p].req.path]))
        /\ UNCHANGED <<disk, mem, issued>> /\ pc[p] = "execute" /\ pc'[p] = "idle"
    BY <1>0, <1>13 DEF ToolRaises, TypeOK
  <2>3. \A q \in Procs \ {p} : pc'[q] = pc[q] /\ call'[q] = call[q]
    BY <1>0, <1>13 DEF ToolRaises, TypeOK
  <2> QED
    BY <2>1, <2>2, <2>3, RunKeepsOnce
<1> HIDE DEF Goal
<1>14. ASSUME UNCHANGED vars \/ \E p \in Procs : Rollback(p)
       PROVE  Goal
  <2>1. UNCHANGED <<disk, mem, pc, call, issued, runs>>
    BY <1>14 DEF vars, Rollback
  <2> QED
    BY <1>2, <2>1
<1>15. Goal
  BY <1>1, <1>3, <1>4, <1>6, <1>7, <1>9, <1>10, <1>11, <1>12, <1>13, <1>14 DEF Next
<1> QED
  BY <1>15 DEF Goal

LEMMA OnceAlways == Spec => []OnceInv
<1>1. Init => OnceInv
  <2>1. Init => TypeOK
    BY RuntimeConstants DEF Init, TypeOK, Stages
  <2>2. Init => ReadyIsCleared /\ RunsAreCleared
    BY DEF Init, ReadyIsCleared, RunsAreCleared
  <2>3. Init => LogsAreOfIssued /\ LogsAskFirst /\ DecidedOnce /\ RunsAreRemembered
    BY DEF Init, LogsAreOfIssued, LogsAskFirst, DecidedOnce, RunsAreRemembered, Logs, AskedFirst
  <2> QED
    BY <2>1, <2>2, <2>3 DEF OnceInv, AuthInv
<1> QED
  BY <1>1, OnceStep, PTL DEF Spec

(* A process never runs the same proposal twice, for any number of         *)
(* processes with stale lists, of crashes, and of lost commits.            *)
THEOREM RunsOnce == Spec => []RunsOncePerProcess
<1>1. OnceInv => RunsOncePerProcess
  <2> SUFFICES ASSUME OnceInv, NEW p \in Procs, NEW pid \in Pids
               PROVE  RunsBy(p, pid) <= 1
    BY DEF RunsOncePerProcess
  <2> DEFINE S == {i \in DOMAIN runs : runs[i].pid = pid /\ runs[i].by = p}
  <2>1. RunsBy(p, pid) = Cardinality(S)
    BY DEF RunsBy, CountEvents
  <2>2. \A i, j \in S : i = j
    BY DEF OnceInv, RunsAreRemembered
  <2>3. S = {} \/ \E i : S = {i}
    BY <2>2
  <2> HIDE DEF S
  <2>4. Cardinality(S) \in {0, 1}
    BY <2>3, FS_EmptySet, FS_Singleton
  <2> QED
    BY <2>1, <2>4
<1> QED
  BY <1>1, OnceAlways, PTL
-----------------------------------------------------------------------------
(***************************************************************************)
(* AuditTrail.  Its inequalities are not inductive: they need room for the *)
(* calls that ran and did not record it yet.  A proposal has as many       *)
(* approvals as runs and calls about to run it, as many runs as EXECUTION  *)
(* events and calls about to record one, and so on; a step moves one call  *)
(* from one account to the next, or closes it with nothing recorded.       *)
(***************************************************************************)
CountOf(L, T) == Cardinality({i \in DOMAIN L : L[i] \in T})

ReceiptsOf(pid) == {e \in Event : IsOf(e, "receipt", pid)}
ExecutionsOf(pid) == {e \in Event : IsOf(e, "execution", pid)}
ApprovalsOf(pid) == {e \in Event : Decides(e, pid, "approve")}
RunsOf(pid) == {r \in Run : r.pid = pid}

At(stage, pid) == {p \in Procs : pc[p] = stage /\ call[p].pid = pid}

Balanced(pid) ==
    /\ CountOf(disk, ReceiptsOf(pid)) + Cardinality(At("log_receipt", pid))
          <= CountOf(disk, ExecutionsOf(pid))
    /\ CountOf(disk, ExecutionsOf(pid)) + Cardinality(At("log_execution", pid))
          <= CountOf(runs, RunsOf(pid))
    /\ CountOf(runs, RunsOf(pid)) + Cardinality(At("execute", pid))
          <= CountOf(disk, ApprovalsOf(pid))

AccountsBalance == \A pid \in Pids : Balanced(pid)

Indicator(b) == IF b THEN 1 ELSE 0

LEMMA CountType ==
    ASSUME NEW S, NEW L \in Seq(S), NEW T
    PROVE  IsFiniteSet({i \in DOMAIN L : L[i] \in T}) /\ CountOf(L, T) \in Nat
<1>1. {i \in DOMAIN L : L[i] \in T} \in SUBSET (1..Len(L)) /\ Len(L) \in Nat
  BY LenProperties
<1>2. IsFiniteSet(1..Len(L))
  BY <1>1, FS_Interval
<1> QED
  BY <1>1, <1>2, FS_Subset, FS_CardinalityType DEF CountOf

LEMMA CountAppend ==
    ASSUME NEW S, NEW L \in Seq(S), NEW e \in S, NEW T
    PROVE  CountOf(Append(L, e), T) = CountOf(L, T) + Indicator(e \in T)
<1> DEFINE n == Len(L)
           A == {i \in DOMAIN L : L[i] \in T}
           B == {i \in DOMAIN Append(L, e) : Append(L, e)[i] \in T}
<1>1. /\ DOMAIN L = 1..n /\ n \in Nat
      /\ DOMAIN Append(L, e) = 1..(n + 1)
      /\ \A i \in 1..n : Append(L, e)[i] = L[i]
      /\ Append(L, e)[n + 1] = e
  BY AppendProperties, LenProperties
<1>2. B = (IF e \in T THEN A \cup {n + 1} ELSE A) /\ n + 1 \notin A
  BY <1>1
<1>3. IsFiniteSet(A) /\ Cardinality(A) \in Nat
  BY CountType DEF CountOf
<1> HIDE DEF A, B, n
<1>4. Cardinality(A \cup {n + 1}) = Cardinality(A) + 1
  BY <1>2, <1>3, FS_AddElement
<1>5. Cardinality(B) = Cardinality(A) + Indicator(e \in T)
  BY <1>2, <1>3, <1>4 DEF Indicator
<1> QED
  BY <1>5 DEF CountOf, A, B

LEMMA CountNone == ASSUME NEW T PROVE CountOf(<<>>, T) = 0
<1>1. {i \in DOMAIN <<>> : <<>>[i] \in T} = {}
  OBVIOUS
<1> QED
  BY <1>1, FS_EmptySet DEF CountOf

(* A call that moves leaves one account and may enter another.             *)
LEMMA AtStep ==
    ASSUME NEW p \in Procs, NEW stage, NEW pid,
           \A q \in Procs \ {p} : pc'[q] = pc[q] /\ call'[q] = call[q]
    PROVE  /\ Cardinality(At(stage, pid)) \in Nat
           /\ Cardinality(At(stage, pid)') =
                Cardinality(At(stage, pid)) - Indicator(p \in At(stage, pid))
                                            + Indicator(p \in At(stage, pid)')
<1> DEFINE A == At(stage, pid)
           B == At(stage, pid)'
<1>1. A \subseteq Procs /\ IsFiniteSet(A) /\ IsFiniteSet(A \ {p})
  BY RuntimeConstants, FS_Subset DEF At
<1>2. B = IF p \in B THEN (A \ {p}) \cup {p} ELSE A \ {p}
  BY DEF At
<1> HIDE DEF A, B
<1>3. Cardinality(A) \in Nat /\ Cardinality(A \ {p}) = Cardinality(A) - Indicator(p \in A)
  BY <1>1, FS_RemoveElement, FS_CardinalityType DEF Indicator
<1>4. Cardinality((A \ {p}) \cup {p}) = Cardinality(A \ {p}) + 1
  BY <1>1, FS_AddElement
<1>5. Cardinality(B) = Cardinality(A) - Indicator(p \in A) + Indicator(p \in B)
  <2>1. Indicator(p \in A) \in {0, 1}
    BY DEF Indicator
  <2>2. CASE p \in B
    BY <1>2, <1>3, <1>4, <2>1, <2>2 DEF Indicator
  <2>3. CASE p \notin B
    BY <1>2, <1>3, <2>1, <2>3 DEF Indicator
  <2> QED
    BY <2>2, <2>3
<1> QED
  BY <1>3, <1>5 DEF A, B

(* An append keeps the accounts if what it is the event of balances the    *)
(* account the call leaves with that it enters; if its commit fails, the   *)
(* call leaves for none.                                                   *)
LEMMA RecordKeepsBalance ==
    ASSUME TypeOK, AccountsBalance, NEW p \in Procs, NEW e \in Event, NEW then, NEW locals,
           Record(p, e, then, locals), UNCHANGED runs,
           \A pid \in Pids :
              /\ Indicator(IsOf(e, "receipt", pid))
                    + Indicator(then = "log_receipt" /\ locals.pid = pid)
                 <= Indicator(IsOf(e, "execution", pid))
                    + Indicator(pc[p] = "log_receipt" /\ call[p].pid = pid)
              /\ Indicator(IsOf(e, "execution", pid))
                    + Indicator(then = "log_execution" /\ locals.pid = pid)
                 <= Indicator(pc[p] = "log_execution" /\ call[p].pid = pid)
              /\ Indicator(then = "execute" /\ locals.pid = pid)
                 <= Indicator(Decides(e, pid, "approve"))
                    + Indicator(pc[p] = "execute" /\ call[p].pid = pid)
    PROVE  AccountsBalance'
<1> SUFFICES ASSUME NEW pid \in Pids PROVE Balanced(pid)'
  BY DEF AccountsBalance
<1>1. disk \in Seq(Event) /\ runs \in Seq(Run)
  BY DEF TypeOK
<1>2. \A q \in Procs \ {p} : pc'[q] = pc[q] /\ call'[q] = call[q]
  BY DEF Record, TypeOK
<1> DEFINE LR == At("log_receipt", pid)
           LX == At("log_execution", pid)
           EX == At("execute", pid)
<1>3. /\ Cardinality(LR) \in Nat /\ Cardinality(LX) \in Nat /\ Cardinality(EX) \in Nat
      /\ Cardinality(LR') = Cardinality(LR) - Indicator(p \in LR) + Indicator(p \in LR')
      /\ Cardinality(LX') = Cardinality(LX) - Indicator(p \in LX) + Indicator(p \in LX')
      /\ Cardinality(EX') = Cardinality(EX) - Indicator(p \in EX) + Indicator(p \in EX')
  BY <1>2, AtStep
<1>4. /\ (p \in LR <=> pc[p] = "log_receipt" /\ call[p].pid = pid)
      /\ (p \in LX <=> pc[p] = "log_execution" /\ call[p].pid = pid)
      /\ (p \in EX <=> pc[p] = "execute" /\ call[p].pid = pid)
  BY DEF At
<1>5. /\ (p \in LR' <=> pc'[p] = "log_receipt" /\ call'[p].pid = pid)
      /\ (p \in LX' <=> pc'[p] = "log_execution" /\ call'[p].pid = pid)
      /\ (p \in EX' <=> pc'[p] = "execute" /\ call'[p].pid = pid)
  BY DEF At
<1>6. /\ CountOf(disk, ReceiptsOf(pid)) \in Nat /\ CountOf(disk, ExecutionsOf(pid)) \in Nat
      /\ CountOf(disk, ApprovalsOf(pid)) \in Nat /\ CountOf(runs, RunsOf(pid)) \in Nat
      /\ CountOf(Append(disk, e), ReceiptsOf(pid))
            = CountOf(disk, ReceiptsOf(pid)) + Indicator(IsOf(e, "receipt", pid))
      /\ CountOf(Append(disk, e), ExecutionsOf(pid))
            = CountOf(disk, ExecutionsOf(pid)) + Indicator(IsOf(e, "execution", pid))
      /\ CountOf(Append(disk, e), ApprovalsOf(pid))
            = CountOf(disk, ApprovalsOf(pid)) + Indicator(Decides(e, pid, "approve"))
  <2>1. /\ CountOf(disk, ReceiptsOf(pid)) \in Nat /\ CountOf(disk, ExecutionsOf(pid)) \in Nat
        /\ CountOf(disk, ApprovalsOf(pid)) \in Nat /\ CountOf(runs, RunsOf(pid)) \in Nat
    BY <1>1, CountType
  <2>2. /\ Indicator(e \in ReceiptsOf(pid)) = Indicator(IsOf(e, "receipt", pid))
        /\ Indicator(e \in ExecutionsOf(pid)) = Indicator(IsOf(e, "execution", pid))
        /\ Indicator(e \in ApprovalsOf(pid)) = Indicator(Decides(e, pid, "approve"))
    BY DEF ReceiptsOf, ExecutionsOf, ApprovalsOf, Indicator
  <2>3. \A T : CountOf(Append(disk, e), T) = CountOf(disk, T) + Indicator(e \in T)
    BY <1>1, CountAppend
  <2> QED
    BY <2>1, <2>2, <2>3
<1> HIDE DEF LR, LX, EX
<1>7. /\ Cardinality(LR) + CountOf(disk, ReceiptsOf(pid)) <= CountOf(disk, ExecutionsOf(pid))
      /\ Cardinality(LX) + CountOf(disk, ExecutionsOf(pid)) <= CountOf(runs, RunsOf(pid))
      /\ Cardinality(EX) + CountOf(runs, RunsOf(pid)) <= CountOf(disk, ApprovalsOf(pid))
  BY <1>3, <1>6 DEF AccountsBalance, Balanced, LR, LX, EX
<1>8. Balanced(pid)' <=>
         /\ CountOf(disk', ReceiptsOf(pid)) + Cardinality(LR') <= CountOf(disk', ExecutionsOf(pid))
         /\ CountOf(disk', ExecutionsOf(pid)) + Cardinality(LX') <= CountOf(runs', RunsOf(pid))
         /\ CountOf(runs', RunsOf(pid)) + Cardinality(EX') <= CountOf(disk', ApprovalsOf(pid))
  BY DEF Balanced, LR, LX, EX, CountOf
<1>9. CASE disk' = Append(disk, e) /\ pc'[p] = then /\ (then # "idle" => call'[p] = locals)
  <2>1. /\ Indicator(p \in LR') = Indicator(then = "log_receipt" /\ locals.pid = pid)
        /\ Indicator(p \in LX') = Indicator(then = "log_execution" /\ locals.pid = pid)
        /\ Indicator(p \in EX') = Indicator(then = "execute" /\ locals.pid = pid)
        /\ Indicator(p \in LR) = Indicator(pc[p] = "log_receipt" /\ call[p].pid = pid)
        /\ Indicator(p \in LX) = Indicator(pc[p] = "log_execution" /\ call[p].pid = pid)
        /\ Indicator(p \in EX) = Indicator(pc[p] = "execute" /\ call[p].pid = pid)
    BY <1>4, <1>5, <1>9 DEF Indicator
  <2>2. \A b : Indicator(b) \in {0, 1}
    BY DEF Indicator
  <2>3. CountOf(disk', ReceiptsOf(pid)) + Cardinality(LR') <= CountOf(disk', ExecutionsOf(pid))
    <3>1. Indicator(IsOf(e, "receipt", pid)) + Indicator(p \in LR')
             <= Indicator(IsOf(e, "execution", pid)) + Indicator(p \in LR)
      BY <2>1
    <3>2. /\ Indicator(IsOf(e, "receipt", pid)) \in {0, 1} /\ Indicator(p \in LR') \in {0, 1}
          /\ Indicator(IsOf(e, "execution", pid)) \in {0, 1} /\ Indicator(p \in LR) \in {0, 1}
      BY <2>2
    <3> QED
      BY <1>3, <1>6, <1>7, <1>9, <3>1, <3>2
  <2>4. CountOf(disk', ExecutionsOf(pid)) + Cardinality(LX') <= CountOf(runs', RunsOf(pid))
    BY <1>3, <1>6, <1>7, <1>9, <2>1, <2>2
  <2>5. CountOf(runs', RunsOf(pid)) + Cardinality(EX') <= CountOf(disk', ApprovalsOf(pid))
    BY <1>3, <1>6, <1>7, <1>9, <2>1, <2>2
  <2> QED
    BY <1>8, <2>3, <2>4, <2>5
<1>10. CASE disk' = disk /\ pc'[p] = "idle"
  <2>1. Indicator(p \in LR') = 0 /\ Indicator(p \in LX') = 0 /\ Indicator(p \in EX') = 0
    BY <1>5, <1>10 DEF Indicator
  <2>2. \A b : Indicator(b) \in {0, 1}
    BY DEF Indicator
  <2> QED
    BY <1>3, <1>6, <1>7, <1>8, <1>10, <2>1, <2>2
<1> QED
  BY <1>9, <1>10 DEF Record, TypeOK
(* A run takes its call from those about to run.                           *)
LEMMA RunKeepsBalance ==
    ASSUME TypeOK, AccountsBalance, NEW p \in Procs, pc[p] = "execute", UNCHANGED disk,
           NEW post \in FileState, runs' = Append(runs, RunEntry(p, call[p].req, post)),
           pc'[p] \in {"idle", "log_execution"},
           pc'[p] # "idle" => call'[p].pid = call[p].pid,
           \A q \in Procs \ {p} : pc'[q] = pc[q] /\ call'[q] = call[q]
    PROVE  AccountsBalance'
<1> SUFFICES ASSUME NEW pid \in Pids PROVE Balanced(pid)'
  BY DEF AccountsBalance
<1> DEFINE r == RunEntry(p, call[p].req, post)
           LR == At("log_receipt", pid)
           LX == At("log_execution", pid)
           EX == At("execute", pid)
<1>1. disk \in Seq(Event) /\ runs \in Seq(Run) /\ r \in Run /\ r.pid = call[p].pid
  BY CallFields DEF RunEntry, Run, TypeOK
<1>2. /\ Cardinality(LR) \in Nat /\ Cardinality(LX) \in Nat /\ Cardinality(EX) \in Nat
      /\ Cardinality(LR') = Cardinality(LR) - Indicator(p \in LR) + Indicator(p \in LR')
      /\ Cardinality(LX') = Cardinality(LX) - Indicator(p \in LX) + Indicator(p \in LX')
      /\ Cardinality(EX') = Cardinality(EX) - Indicator(p \in EX) + Indicator(p \in EX')
  BY AtStep
<1>3. /\ CountOf(disk, ReceiptsOf(pid)) \in Nat /\ CountOf(disk, ExecutionsOf(pid)) \in Nat
      /\ CountOf(disk, ApprovalsOf(pid)) \in Nat /\ CountOf(runs, RunsOf(pid)) \in Nat
  BY <1>1, CountType
<1>4. CountOf(runs', RunsOf(pid)) = CountOf(runs, RunsOf(pid)) + Indicator(r \in RunsOf(pid))
  BY <1>1, CountAppend
<1>5. r \in RunsOf(pid) <=> call[p].pid = pid
  BY <1>1 DEF RunsOf
<1>6. /\ p \notin LR /\ p \notin LX /\ p \notin LR' /\ p \notin EX'
      /\ p \in EX <=> call[p].pid = pid
      /\ p \in LX' => call[p].pid = pid
  BY DEF At
<1>7. /\ CountOf(disk, ReceiptsOf(pid)) + Cardinality(LR) <= CountOf(disk, ExecutionsOf(pid))
      /\ CountOf(disk, ExecutionsOf(pid)) + Cardinality(LX) <= CountOf(runs, RunsOf(pid))
      /\ CountOf(runs, RunsOf(pid)) + Cardinality(EX) <= CountOf(disk, ApprovalsOf(pid))
  BY DEF AccountsBalance, Balanced
<1>8. Balanced(pid)' <=>
         /\ CountOf(disk, ReceiptsOf(pid)) + Cardinality(LR') <= CountOf(disk, ExecutionsOf(pid))
         /\ CountOf(disk, ExecutionsOf(pid)) + Cardinality(LX') <= CountOf(runs', RunsOf(pid))
         /\ CountOf(runs', RunsOf(pid)) + Cardinality(EX') <= CountOf(disk, ApprovalsOf(pid))
  BY DEF Balanced, CountOf
<1> HIDE DEF LR, LX, EX, r
<1> QED
  BY <1>2, <1>3, <1>4, <1>5, <1>6, <1>7, <1>8 DEF Indicator

(* A call that ends without a trace leaves its account.                    *)
LEMMA LeavingKeepsBalance ==
    ASSUME AccountsBalance, UNCHANGED <<disk, runs>>, NEW p \in Procs,
           pc'[p] \in {"down", "idle"} \/ (pc'[p] = pc[p] /\ call'[p] = call[p]), TypeOK,
           \A q \in Procs \ {p} : pc'[q] = pc[q] /\ call'[q] = call[q]
    PROVE  AccountsBalance'
<1> SUFFICES ASSUME NEW pid \in Pids PROVE Balanced(pid)'
  BY DEF AccountsBalance
<1>1. ASSUME NEW stage \in {"log_receipt", "log_execution", "execute"}
      PROVE  /\ Cardinality(At(stage, pid)) \in Nat /\ Cardinality(At(stage, pid)') \in Nat
             /\ Cardinality(At(stage, pid)') <= Cardinality(At(stage, pid))
  <2>1. At(stage, pid)' \subseteq At(stage, pid) /\ At(stage, pid) \subseteq Procs
    BY DEF At
  <2>2. IsFiniteSet(At(stage, pid)) /\ IsFiniteSet(At(stage, pid)')
    BY <2>1, RuntimeConstants, FS_Subset
  <2> QED
    BY <2>1, <2>2, FS_Subset, FS_CardinalityType
<1>2. disk \in Seq(Event) /\ runs \in Seq(Run)
  BY DEF TypeOK
<1>3. /\ CountOf(disk, ReceiptsOf(pid)) \in Nat /\ CountOf(disk, ExecutionsOf(pid)) \in Nat
      /\ CountOf(disk, ApprovalsOf(pid)) \in Nat /\ CountOf(runs, RunsOf(pid)) \in Nat
  BY <1>2, CountType
<1>4. /\ CountOf(disk', ReceiptsOf(pid)') = CountOf(disk, ReceiptsOf(pid))
      /\ CountOf(disk', ExecutionsOf(pid)') = CountOf(disk, ExecutionsOf(pid))
      /\ CountOf(disk', ApprovalsOf(pid)') = CountOf(disk, ApprovalsOf(pid))
      /\ CountOf(runs', RunsOf(pid)') = CountOf(runs, RunsOf(pid))
  BY DEF CountOf
<1>5. Balanced(pid)
  BY DEF AccountsBalance
<1> QED
  BY <1>1, <1>3, <1>4, <1>5 DEF Balanced

LEMMA BalanceStep == TypeOK /\ AccountsBalance /\ [Next]_vars => AccountsBalance'
<1> SUFFICES ASSUME TypeOK, AccountsBalance, [Next]_vars PROVE AccountsBalance'
  OBVIOUS
<1>1. ASSUME NEW p \in Procs, Open(p) \/ Close(p) \/ Crash(p) \/ OtherAppendRaises(p) \/ Rollback(p)
      PROVE  AccountsBalance'
  <2>1. UNCHANGED <<disk, runs>>
    BY <1>1 DEF Open, Close, Crash, OtherAppendRaises, Leave, Rollback
  <2>2. /\ pc'[p] \in {"down", "idle"} \/ (pc'[p] = pc[p] /\ call'[p] = call[p])
        /\ \A q \in Procs \ {p} : pc'[q] = pc[q] /\ call'[q] = call[q]
    BY <1>1 DEF Open, Close, Crash, OtherAppendRaises, Leave, Rollback, TypeOK
  <2> QED
    BY <2>1, <2>2, LeavingKeepsBalance
<1>2. ASSUME NEW p \in Procs, NEW e \in Event, NEW then, NEW locals,
             Record(p, e, then, locals), UNCHANGED runs,
             then \in {"execute", "decide", "idle", "confirm"},
             then = "execute" => \A pid \in Pids : locals.pid = pid => Decides(e, pid, "approve"),
             \A pid \in Pids : ~IsOf(e, "receipt", pid) /\ ~IsOf(e, "execution", pid)
      PROVE  AccountsBalance'
  BY <1>2, RecordKeepsBalance DEF Indicator
<1>3. ASSUME NEW p \in Procs, Handle(p) PROVE AccountsBalance'
  <2>1. PICK pid \in Pids, req \in Requests, confirm \in BOOLEAN :
          Record(p, ProposalEvent(pid, req), "decide",
                 [NoCall EXCEPT !.pid = pid, !.req = req, !.confirm = confirm])
    BY <1>3 DEF Handle
  <2>2. ProposalEvent(pid, req) \in Event /\ ProposalEvent(pid, req).kind = "proposal"
    BY EventsAreEvents DEF ProposalEvent
  <2> QED
    BY <1>2, <1>3, <2>1, <2>2 DEF Handle, IsOf
<1>4. ASSUME NEW p \in Procs, NEW pid \in Pids, NEW d \in Decisions, NEW by \in {"policy", "operator"},
             NEW then \in {"execute", "idle", "confirm"}, NEW locals,
             then = "execute" => d = "approve" /\ locals.pid = pid, UNCHANGED runs,
             Record(p, DecisionEvent(pid, d, by), then, locals)
      PROVE  AccountsBalance'
  <2> DEFINE e == DecisionEvent(pid, d, by)
  <2>1. e \in Event /\ e.kind = "policy_decision" /\ e.pid = pid /\ e.decision = d
    BY EventsAreEvents DEF DecisionEvent
  <2>2. Record(p, e, then, locals)
    BY <1>4
  <2> HIDE DEF e
  <2>3. then = "execute" => \A any \in Pids : locals.pid = any => Decides(e, any, "approve")
    BY <1>4, <2>1 DEF Decides
  <2>4. \A any \in Pids : ~IsOf(e, "receipt", any) /\ ~IsOf(e, "execution", any)
    BY <2>1 DEF IsOf
  <2> QED
    BY <1>2, <1>4, <2>1, <2>2, <2>3, <2>4
<1>5. ASSUME NEW p \in Procs, Decide(p) PROVE AccountsBalance'
  <2> DEFINE d == Evaluate(mem[p], call[p].req)
             then == AfterDecision(d, call[p].confirm)
  <2>1. call[p].pid \in Pids /\ d \in Decisions
    BY <1>5, CallFields, EvaluateType DEF Decide
  <2>2. then \in {"execute", "idle", "confirm"} /\ (then = "execute" => d = "approve")
    BY DEF AfterDecision
  <2>3. Record(p, DecisionEvent(call[p].pid, d, "policy"), then, call[p]) /\ UNCHANGED runs
    BY <1>5 DEF Decide
  <2> HIDE DEF d, then
  <2> QED
    BY <1>4, <2>1, <2>2, <2>3
<1>6. ASSUME NEW p \in Procs, Confirm(p) PROVE AccountsBalance'
  BY <1>4, <1>6, CallFields DEF Confirm, Decisions
<1>7. ASSUME NEW p \in Procs, Approve(p) PROVE AccountsBalance'
  <2>1. PICK pid \in Pids :
          Record(p, DecisionEvent(pid, "approve", "operator"), "execute",
                 [NoCall EXCEPT !.pid = pid, !.req = RequestOf(mem[p], pid), !.confirm = TRUE])
    BY <1>7 DEF Approve
  <2>2. [NoCall EXCEPT !.pid = pid, !.req = RequestOf(mem[p], pid), !.confirm = TRUE].pid = pid
    BY DEF NoCall
  <2> QED
    BY <1>4, <1>7, <2>1, <2>2 DEF Approve, Decisions
<1>8. ASSUME NEW p \in Procs, Reject(p) PROVE AccountsBalance'
  BY <1>4, <1>8 DEF Reject, Decisions
<1>9. ASSUME NEW p \in Procs, Execute(p) PROVE AccountsBalance'
  <2>1. FileAfter(call[p].req) \in FileState
    BY <1>9, CallFields DEF Execute, FileAfter, FileState, TypeOK
  <2>2. /\ runs' = Append(runs, RunEntry(p, call[p].req, FileAfter(call[p].req)))
        /\ UNCHANGED disk /\ pc[p] = "execute" /\ pc'[p] = "log_execution"
    BY <1>9 DEF Execute, TypeOK
  <2>3. call'[p].pid = call[p].pid
    <3>1. call[p] \in Call
      BY <1>9, CallFields DEF Execute
    <3> QED
      BY <1>9, <3>1 DEF Execute, TypeOK, Call
  <2>4. \A q \in Procs \ {p} : pc'[q] = pc[q] /\ call'[q] = call[q]
    BY <1>9 DEF Execute, TypeOK
  <2> QED
    BY <2>1, <2>2, <2>3, <2>4, RunKeepsBalance
<1>10. ASSUME NEW p \in Procs, ToolRaises(p) PROVE AccountsBalance'
  <2>1. files[call[p].req.path] \in FileState
    BY <1>10, CallFields DEF ToolRaises, TypeOK
  <2>2. /\ runs' = Append(runs, RunEntry(p, call[p].req, files[call[p].req.path]))
        /\ UNCHANGED disk /\ pc[p] = "execute" /\ pc'[p] = "idle"
    BY <1>10 DEF ToolRaises, TypeOK
  <2>3. \A q \in Procs \ {p} : pc'[q] = pc[q] /\ call'[q] = call[q]
    BY <1>10 DEF ToolRaises, TypeOK
  <2> QED
    BY <2>1, <2>2, <2>3, RunKeepsBalance
<1>11. ASSUME NEW p \in Procs, LogExecution(p) PROVE AccountsBalance'
  <2> DEFINE e == ExecutionEvent(call[p].pid, call[p].req.action)
  <2>1. e \in Event /\ e.kind = "execution" /\ e.pid = call[p].pid
    BY <1>11, CallFields, EventsAreEvents DEF LogExecution, ExecutionEvent
  <2>2. pc[p] = "log_execution" /\ Record(p, e, "log_receipt", call[p]) /\ UNCHANGED runs
    BY <1>11 DEF LogExecution
  <2> HIDE DEF e
  <2> QED
    BY <2>1, <2>2, RecordKeepsBalance DEF Indicator, IsOf
<1>12. ASSUME NEW p \in Procs, LogReceipt(p) PROVE AccountsBalance'
  <2> DEFINE e == ReceiptEvent(call[p].pid, call[p].success, call[p].undo)
  <2>1. e \in Event /\ e.kind = "receipt" /\ e.pid = call[p].pid
    BY <1>12, CallFields, EventsAreEvents DEF LogReceipt, ReceiptEvent
  <2>2. pc[p] = "log_receipt" /\ Record(p, e, "idle", NoCall) /\ UNCHANGED runs
    BY <1>12 DEF LogReceipt
  <2> HIDE DEF e
  <2> QED
    BY <2>1, <2>2, RecordKeepsBalance DEF Indicator, IsOf
<1>13. ASSUME UNCHANGED vars PROVE AccountsBalance'
  <2>1. UNCHANGED <<disk, runs, pc, call>>
    BY <1>13 DEF vars
  <2> QED
    BY <2>1 DEF AccountsBalance, Balanced, CountOf, At
<1> QED
  BY <1>1, <1>3, <1>5, <1>6, <1>7, <1>8, <1>9, <1>10, <1>11, <1>12, <1>13 DEF Next
-----------------------------------------------------------------------------
(***************************************************************************)
(* ViewsFollowLog.  Matching finds a list in another greedily; what it     *)
(* finds is found again in a longer one, and an event appended to both is  *)
(* found as well.                                                          *)
(***************************************************************************)

(* Induction up to N, for a set of numbers.                                *)
LEMMA UpTo ==
    ASSUME NEW N \in Nat, NEW S, 0 \in S, \A n \in 0..(N - 1) : n \in S => n + 1 \in S
    PROVE  0..N \subseteq S
<1> DEFINE T == {n \in Nat : n <= N /\ n \notin S}
<1>1. ASSUME T # {} PROVE FALSE
  <2>1. T \subseteq Nat
    OBVIOUS
  <2>2. PICK m \in T : \A t \in T : ~(<<t, m>> \in OpToRel(<, Nat))
    <3> HIDE DEF T
    <3> QED
      BY <1>1, <2>1, NatLessThanWellFounded, WFMin
  <2>3. \A t \in T : ~(t < m)
    BY <2>1, <2>2 DEF OpToRel
  <2>4. m # 0 /\ m \in Nat /\ m <= N /\ m \notin S
    OBVIOUS
  <2>5. m - 1 \in 0..(N - 1) /\ m - 1 \in Nat /\ m - 1 < m /\ m - 1 <= N
    BY <2>4
  <2>6. m - 1 \in S
    BY <2>3, <2>5
  <2> QED
    BY <2>4, <2>5, <2>6
<1> QED
  BY <1>1

MatchStep(view, L, k, n) == IF k < Len(view) /\ view[k + 1] = L[n] THEN k + 1 ELSE k

(* Matching is the function its recursion describes.                       *)
LEMMA MatchingIs ==
    ASSUME NEW view \in Seq(Event), NEW L \in Seq(Event)
    PROVE  /\ Matching(view, L)[0] = 0
           /\ \A n \in 0..(Len(L) - 1) :
                 Matching(view, L)[n + 1] = MatchStep(view, L, Matching(view, L)[n], n + 1)
<1> DEFINE N == Len(L)
           body(g, n) == IF n = 0 THEN 0 ELSE MatchStep(view, L, g[n - 1], n)
           S == {k \in Nat : \E g : g = [n \in 0..k |-> body(g, n)]}
<1>1. N \in Nat
  BY LenProperties
<1>2. 0 \in S
  <2> DEFINE h == [n \in 0..0 |-> 0]
  <2>1. h = [n \in 0..0 |-> body(h, n)]
    OBVIOUS
  <2> QED
    BY <2>1
<1>3. ASSUME NEW k \in 0..(N - 1), k \in S PROVE k + 1 \in S
  <2>1. PICK g : g = [n \in 0..k |-> body(g, n)]
    BY <1>3
  <2> DEFINE h == [n \in 0..(k + 1) |->
                      IF n = k + 1 THEN MatchStep(view, L, g[k], k + 1) ELSE g[n]]
  <2>2. ASSUME NEW n \in 0..(k + 1) PROVE h[n] = body(h, n)
    <3>1. CASE n = k + 1
      <4>1. n # 0 /\ n - 1 = k /\ k \in 0..(k + 1) /\ k # k + 1
        BY <1>1, <1>3, <3>1
      <4>2. h[n - 1] = g[k]
        BY <4>1
      <4> QED
        BY <3>1, <4>1, <4>2
    <3>2. CASE n # k + 1
      <4>1. n \in 0..k /\ h[n] = g[n]
        BY <1>1, <1>3, <3>2
      <4>2. g[n] = body(g, n)
        BY <2>1, <4>1
      <4>3. n # 0 => n - 1 \in 0..(k + 1) /\ n - 1 # k + 1 /\ h[n - 1] = g[n - 1]
        BY <1>1, <1>3, <4>1
      <4> QED
        BY <4>1, <4>2, <4>3
    <3> QED
      BY <3>1, <3>2
  <2>3. h = [n \in 0..(k + 1) |-> body(h, n)]
    <3>1. h = [n \in 0..(k + 1) |-> h[n]]
      OBVIOUS
    <3> HIDE DEF h, body
    <3> QED
      BY <2>2, <3>1
  <2>4. k + 1 \in Nat
    BY <1>1, <1>3
  <2> HIDE DEF h, body
  <2> QED
    BY <2>3, <2>4
<1>4. N \in S
  <2> HIDE DEF S, N
  <2>1. 0..N \subseteq S
    BY <1>1, <1>2, <1>3, UpTo
  <2> QED
    BY <1>1, <2>1
<1>5. PICK g : g = [n \in 0..N |-> body(g, n)]
  BY <1>4
<1>6. Matching(view, L) = CHOOSE mm : mm = [n \in 0..N |-> body(mm, n)]
  BY DEF Matching, MatchStep
<1> DEFINE m == Matching(view, L)
<1>7. m = [n \in 0..N |-> body(m, n)]
  <2> HIDE DEF body
  <2> QED
    BY <1>5, <1>6
<1> HIDE DEF m
<1>8. m[0] = 0
  BY <1>1, <1>7
<1>9. ASSUME NEW n \in 0..(N - 1) PROVE m[n + 1] = MatchStep(view, L, m[n], n + 1)
  <2>1. n + 1 \in 0..N /\ n + 1 # 0 /\ (n + 1) - 1 = n
    BY <1>1
  <2>2. m[n + 1] = body(m, n + 1)
    BY <1>7, <2>1
  <2> QED
    BY <2>1, <2>2
<1> QED
  BY <1>8, <1>9 DEF m
(* At most the whole view is found, and all of it in a list itself.        *)
LEMMA MatchingBounds ==
    ASSUME NEW view \in Seq(Event), NEW L \in Seq(Event)
    PROVE  /\ \A n \in 0..Len(L) : Matching(view, L)[n] \in 0..Len(view)
           /\ Matched(view, view) = Len(view)
           /\ view = <<>> => Matched(view, L) = 0
<1>1. Len(L) \in Nat /\ Len(view) \in Nat
  BY LenProperties
<1>2. \A n \in 0..Len(L) : Matching(view, L)[n] \in 0..Len(view)
  <2> DEFINE m == Matching(view, L)
             S == {n \in 0..Len(L) : m[n] \in 0..Len(view)}
  <2> HIDE DEF m
  <2>1. 0 \in S
    BY <1>1, MatchingIs DEF m
  <2>2. ASSUME NEW n \in 0..(Len(L) - 1), n \in S PROVE n + 1 \in S
    <3>1. m[n + 1] = MatchStep(view, L, m[n], n + 1)
      BY MatchingIs DEF m
    <3> QED
      BY <1>1, <2>2, <3>1 DEF MatchStep
  <2> HIDE DEF S
  <2>3. 0..Len(L) \subseteq S
    BY <1>1, <2>1, <2>2, UpTo
  <2> QED
    BY <2>3 DEF S, m
<1>3. Matched(view, view) = Len(view)
  <2> DEFINE m == Matching(view, view)
             S == {n \in 0..Len(view) : m[n] = n}
  <2> HIDE DEF m
  <2>1. 0 \in S
    BY <1>1, MatchingIs DEF m
  <2>2. ASSUME NEW n \in 0..(Len(view) - 1), n \in S PROVE n + 1 \in S
    <3>1. m[n + 1] = MatchStep(view, view, m[n], n + 1)
      BY MatchingIs DEF m
    <3> QED
      BY <1>1, <2>2, <3>1 DEF MatchStep
  <2> HIDE DEF S
  <2>3. 0..Len(view) \subseteq S
    BY <1>1, <2>1, <2>2, UpTo
  <2> QED
    BY <1>1, <2>3 DEF S, m, Matched
<1>4. view = <<>> => Matched(view, L) = 0
  BY <1>1, <1>2 DEF Matched
<1> QED
  BY <1>2, <1>3, <1>4

(* What was found of a view is found in every longer list, and an event    *)
(* appended to both is found too.                                          *)
LEMMA MatchingAppend ==
    ASSUME NEW view \in Seq(Event), NEW L \in Seq(Event), NEW e \in Event,
           Matched(view, L) = Len(view)
    PROVE  /\ Matched(view, Append(L, e)) = Len(view)
           /\ Matched(Append(view, e), Append(L, e)) = Len(Append(view, e))
<1> DEFINE N == Len(L)
           V == Len(view)
           M == Append(L, e)
           W == Append(view, e)
           m == Matching(view, L)
<1>1. /\ N \in Nat /\ V \in Nat
      /\ M \in Seq(Event) /\ W \in Seq(Event) /\ Len(M) = N + 1 /\ Len(W) = V + 1
      /\ \A n \in 1..N : M[n] = L[n]
      /\ M[N + 1] = e
      /\ \A k \in 1..V : W[k] = view[k]
      /\ W[V + 1] = e
  BY AppendProperties, LenProperties
<1>2. \A n \in 0..N : m[n] \in 0..V
  BY MatchingBounds
<1>3. m[0] = 0 /\ \A n \in 0..(N - 1) : m[n + 1] = MatchStep(view, L, m[n], n + 1)
  BY MatchingIs
<1>4. m[N] = V
  BY DEF Matched
<1> HIDE DEF m
<1>5. Matched(view, M) = V
  <2> DEFINE f == Matching(view, M)
             S == {n \in 0..N : f[n] = m[n]}
  <2> HIDE DEF f, M, N, V
  <2>1. f[0] = 0 /\ \A n \in 0..N : f[n + 1] = MatchStep(view, M, f[n], n + 1)
    <3>1. /\ f[0] = 0
          /\ \A n \in 0..(Len(M) - 1) : f[n + 1] = MatchStep(view, M, f[n], n + 1)
      BY <1>1, MatchingIs DEF f
    <3>2. Len(M) - 1 = N
      BY <1>1
    <3> QED
      BY <3>1, <3>2
  <2>2. 0 \in S
    BY <1>1, <1>3, <2>1
  <2>3. ASSUME NEW n \in 0..(N - 1), n \in S PROVE n + 1 \in S
    <3>1. n \in 0..N /\ n + 1 \in 1..N /\ n + 1 \in 0..N
      BY <1>1
    <3> QED
      BY <1>1, <1>3, <2>1, <2>3, <3>1 DEF MatchStep
  <2>4. N \in S
    <3> HIDE DEF S
    <3>1. 0..N \subseteq S
      BY <1>1, <2>2, <2>3, UpTo
    <3>2. N \in 0..N
      BY <1>1
    <3> QED
      BY <3>1, <3>2
  <2>5. f[N + 1] = V
    BY <1>1, <1>4, <2>1, <2>4 DEF MatchStep, V
  <2> QED
    BY <1>1, <2>5 DEF Matched, f
<1>6. Matched(W, M) = V + 1
  <2> DEFINE f == Matching(W, M)
             S == {n \in 0..N : f[n] = m[n] \/ (m[n] = V /\ f[n] = V + 1)}
  <2>2. V = Len(view)
    OBVIOUS
  <2> HIDE DEF f, M, N, V, W
  <2>1. f[0] = 0 /\ \A n \in 0..N : f[n + 1] = MatchStep(W, M, f[n], n + 1)
    <3>1. /\ f[0] = 0
          /\ \A n \in 0..(Len(M) - 1) : f[n + 1] = MatchStep(W, M, f[n], n + 1)
      BY <1>1, MatchingIs DEF f
    <3>2. Len(M) - 1 = N
      BY <1>1
    <3> QED
      BY <3>1, <3>2
  <2>3. 0 \in S
    BY <1>1, <1>3, <2>1
  <2>4. ASSUME NEW n \in 0..(N - 1), n \in S PROVE n + 1 \in S
    <3>1. n \in 0..N /\ n + 1 \in 1..N /\ n + 1 \in 0..N /\ m[n] \in 0..V
      BY <1>1, <1>2
    <3>2. f[n + 1] = MatchStep(W, M, f[n], n + 1) /\ m[n + 1] = MatchStep(view, L, m[n], n + 1)
          /\ M[n + 1] = L[n + 1]
      BY <1>1, <1>3, <2>1, <3>1
    <3>3. CASE m[n] = V /\ f[n] = V + 1
      BY <1>1, <2>2, <3>1, <3>2, <3>3 DEF MatchStep
    <3>4. CASE f[n] = m[n] /\ m[n] < V
      <4>1. m[n] + 1 \in 1..V /\ W[m[n] + 1] = view[m[n] + 1]
        BY <1>1, <3>1, <3>4
      <4> QED
        BY <1>1, <2>2, <3>1, <3>2, <3>4, <4>1 DEF MatchStep
    <3>5. CASE f[n] = m[n] /\ m[n] = V
      BY <1>1, <2>2, <3>1, <3>2, <3>5 DEF MatchStep
    <3> QED
      BY <1>1, <2>4, <3>1, <3>3, <3>4, <3>5
  <2>5. N \in S
    <3> HIDE DEF S
    <3>1. 0..N \subseteq S
      BY <1>1, <2>3, <2>4, UpTo
    <3>2. N \in 0..N
      BY <1>1
    <3> QED
      BY <3>1, <3>2
  <2>6. f[N + 1] = V + 1
    <3>1. f[N + 1] = MatchStep(W, M, f[N], N + 1) /\ f[N] \in {V, V + 1}
      BY <1>1, <1>4, <2>1, <2>5
    <3>2. M[N + 1] = W[V + 1] /\ Len(W) = V + 1 /\ V < V + 1 /\ ~(V + 1 < V + 1)
      BY <1>1
    <3> QED
      BY <3>1, <3>2 DEF MatchStep
  <2> QED
    BY <1>1, <2>6 DEF Matched, f
<1> QED
  BY <1>1, <1>5, <1>6

LEMMA ViewStep == TypeOK /\ ViewsFollowLog /\ [Next]_vars => ViewsFollowLog'
<1> SUFFICES ASSUME TypeOK, ViewsFollowLog, [Next]_vars, faults' = 0, NEW q \in Procs
             PROVE  Matched(mem'[q], disk') = Len(mem'[q])
  BY DEF ViewsFollowLog
<1>1. disk \in Seq(Event) /\ mem[q] \in Seq(Event) /\ faults \in Nat
  BY DEF TypeOK
<1>2. ASSUME NEW p \in Procs, NEW e \in Event, NEW then, NEW locals, Record(p, e, then, locals)
      PROVE  Matched(mem'[q], disk') = Len(mem'[q])
  <2>1. faults = 0 /\ disk' = Append(disk, e)
    BY <1>1, <1>2 DEF Record
  <2>2. mem'[q] = IF q = p THEN Append(mem[q], e) ELSE mem[q]
    BY <1>2 DEF Record, TypeOK
  <2>3. Matched(mem[q], disk) = Len(mem[q])
    BY <2>1 DEF ViewsFollowLog
  <2> QED
    BY <1>1, <2>1, <2>2, <2>3, MatchingAppend
<1>3. ASSUME NEW p \in Procs, Handle(p) \/ Decide(p) \/ Confirm(p) \/ Approve(p) \/ Reject(p)
                              \/ LogExecution(p) \/ LogReceipt(p)
      PROVE  Matched(mem'[q], disk') = Len(mem'[q])
  <2>1. CASE Handle(p)
    BY <1>2, <2>1, EventsAreEvents DEF Handle
  <2>2. CASE Decide(p)
    BY <1>2, <2>2, CallFields, EvaluateType, EventsAreEvents DEF Decide
  <2>3. CASE Confirm(p)
    BY <1>2, <2>3, CallFields, EventsAreEvents DEF Confirm, Decisions
  <2>4. CASE Approve(p)
    BY <1>2, <2>4, EventsAreEvents DEF Approve, Decisions
  <2>5. CASE Reject(p)
    BY <1>2, <2>5, EventsAreEvents DEF Reject, Decisions
  <2>6. CASE LogExecution(p)
    BY <1>2, <2>6, CallFields, EventsAreEvents DEF LogExecution
  <2>7. CASE LogReceipt(p)
    BY <1>2, <2>7, CallFields, EventsAreEvents DEF LogReceipt
  <2> QED
    BY <1>3, <2>1, <2>2, <2>3, <2>4, <2>5, <2>6, <2>7
<1>4. ASSUME UNCHANGED disk, mem'[q] = mem[q], faults = 0
      PROVE  Matched(mem'[q], disk') = Len(mem'[q])
  BY <1>4 DEF ViewsFollowLog
<1>5. ASSUME UNCHANGED disk, mem'[q] \in {disk, <<>>}
      PROVE  Matched(mem'[q], disk') = Len(mem'[q])
  <2>1. <<>> \in Seq(Event) /\ Len(<<>>) = 0
    OBVIOUS
  <2> QED
    BY <1>1, <1>5, <2>1, MatchingBounds
<1>6. ASSUME NEW p \in Procs, Open(p) \/ Close(p) \/ Crash(p) \/ OtherAppendRaises(p)
                              \/ Execute(p) \/ ToolRaises(p) \/ Rollback(p)
      PROVE  Matched(mem'[q], disk') = Len(mem'[q])
  <2>1. UNCHANGED disk
    BY <1>6 DEF Open, Close, Crash, Leave, OtherAppendRaises, Execute, ToolRaises, Rollback
  <2>2. faults = 0
    BY <1>1, <1>6 DEF Open, Close, Crash, OtherAppendRaises, Execute, ToolRaises, Rollback
  <2>3. mem'[q] \in {mem[q], disk, <<>>}
    BY <1>6 DEF Open, Close, Crash, Leave, OtherAppendRaises, Execute, ToolRaises, Rollback, TypeOK
  <2> QED
    BY <1>4, <1>5, <2>1, <2>2, <2>3
<1>7. CASE UNCHANGED vars
  BY <1>4, <1>7 DEF vars
<1> QED
  BY <1>3, <1>6, <1>7 DEF Next

(* The log and the views of it hold nothing that did not happen: for any   *)
(* processes and any faults, a proposal has no more receipts than          *)
(* executions, no more of these than runs, and no more runs than approvals *)
(* in the durable log; and, unless a commit was lost, what a process       *)
(* remembers is what the log says, in its order.                           *)
THEOREM LogHonest == Spec => []LogIsHonest
<1>1. Init => TypeOK /\ AccountsBalance /\ ViewsFollowLog
  <2> SUFFICES ASSUME Init PROVE TypeOK /\ AccountsBalance /\ ViewsFollowLog
    OBVIOUS
  <2>1. TypeOK
    BY RuntimeConstants DEF Init, TypeOK, Stages
  <2>2. AccountsBalance
    <3>1. \A T : CountOf(disk, T) = 0 /\ CountOf(runs, T) = 0
      BY CountNone DEF Init
    <3>2. \A pid : /\ Cardinality(At("log_receipt", pid)) = 0
                   /\ Cardinality(At("log_execution", pid)) = 0
                   /\ Cardinality(At("execute", pid)) = 0
      <4>1. \A pid : /\ At("log_receipt", pid) = {} /\ At("log_execution", pid) = {}
                     /\ At("execute", pid) = {}
        BY DEF Init, At
      <4> QED
        BY <4>1, FS_EmptySet
    <3> QED
      BY <3>1, <3>2 DEF AccountsBalance, Balanced
  <2>3. ViewsFollowLog
    BY <2>1, MatchingBounds DEF Init, ViewsFollowLog, TypeOK
  <2> QED
    BY <2>1, <2>2, <2>3
<1>2. TypeOK /\ AccountsBalance /\ ViewsFollowLog => LogIsHonest
  <2> SUFFICES ASSUME TypeOK, AccountsBalance PROVE AuditTrail
    BY DEF LogIsHonest
  <2>1. disk \in Seq(Event) /\ runs \in Seq(Run)
    BY DEF TypeOK
  <2>2. (\A i \in DOMAIN disk : disk[i] \in Event) /\ (\A i \in DOMAIN runs : runs[i] \in Run)
    BY <2>1
  <2>3. ASSUME NEW pid \in Pids
        PROVE  /\ CountEvents(disk, LAMBDA e : IsOf(e, "receipt", pid))
                     = CountOf(disk, ReceiptsOf(pid))
               /\ CountEvents(disk, LAMBDA e : IsOf(e, "execution", pid))
                     = CountOf(disk, ExecutionsOf(pid))
               /\ CountEvents(runs, LAMBDA r : r.pid = pid) = CountOf(runs, RunsOf(pid))
               /\ CountEvents(disk, LAMBDA e : IsOf(e, "policy_decision", pid)
                                               /\ e.decision = "approve")
                     = CountOf(disk, ApprovalsOf(pid))
    <3>1. /\ {i \in DOMAIN disk : IsOf(disk[i], "receipt", pid)}
                = {i \in DOMAIN disk : disk[i] \in ReceiptsOf(pid)}
          /\ {i \in DOMAIN disk : IsOf(disk[i], "execution", pid)}
                = {i \in DOMAIN disk : disk[i] \in ExecutionsOf(pid)}
          /\ {i \in DOMAIN runs : runs[i].pid = pid}
                = {i \in DOMAIN runs : runs[i] \in RunsOf(pid)}
          /\ {i \in DOMAIN disk : IsOf(disk[i], "policy_decision", pid)
                                  /\ disk[i].decision = "approve"}
                = {i \in DOMAIN disk : disk[i] \in ApprovalsOf(pid)}
      BY <2>2 DEF ReceiptsOf, ExecutionsOf, RunsOf, ApprovalsOf, IsOf, Decides
    <3> QED
      BY <3>1 DEF CountEvents, CountOf
  <2>4. ASSUME NEW pid \in Pids
        PROVE  /\ CountOf(disk, ReceiptsOf(pid)) <= CountOf(disk, ExecutionsOf(pid))
               /\ CountOf(disk, ExecutionsOf(pid)) <= CountOf(runs, RunsOf(pid))
               /\ CountOf(runs, RunsOf(pid)) <= CountOf(disk, ApprovalsOf(pid))
    <3>1. /\ CountOf(disk, ReceiptsOf(pid)) \in Nat /\ CountOf(disk, ExecutionsOf(pid)) \in Nat
          /\ CountOf(disk, ApprovalsOf(pid)) \in Nat /\ CountOf(runs, RunsOf(pid)) \in Nat
      BY <2>1, CountType
    <3>2. ASSUME NEW stage PROVE Cardinality(At(stage, pid)) \in Nat
      <4>1. At(stage, pid) \subseteq Procs
        BY DEF At
      <4> QED
        BY <4>1, RuntimeConstants, FS_Subset, FS_CardinalityType
    <3> QED
      BY <3>1, <3>2 DEF AccountsBalance, Balanced
  <2> QED
    BY <2>3, <2>4 DEF AuditTrail
<1> QED
  BY <1>1, <1>2, TypeOKStep, BalanceStep, ViewStep, PTL DEF Spec
-----------------------------------------------------------------------------
(***************************************************************************)
(* BudgetsHold.  What a process runs was decided on its own list, some     *)
(* steps before; that the decision was about the request it runs needs     *)
(* that every event that tells of a proposal tells the same request.  Told *)
(* is what any list or the file tells.                                     *)
(***************************************************************************)
Told == UNION {{L[i] : i \in DOMAIN L} : L \in Logs}

Proposes(e, pid) == e.kind = "proposal" /\ e.pid = pid

IsShell(req) == req.action = "shell_command"

OneRequest ==
    \A e, f \in Told : e.kind = "proposal" /\ Proposes(f, e.pid) => e.req = f.req

CallsKeepRequest ==
    \A p \in Procs : pc[p] \notin {"down", "idle"} =>
        \A e \in Told : Proposes(e, call[p].pid) => e.req = call[p].req

\* Only the confirmation of a deletion is ever asked for.
OnlyDeletesAwait ==
    /\ \A e, f \in Told :
          e.kind = "proposal" /\ Decides(f, e.pid, "require_confirmation")
              => e.req.action = "delete_file"
    /\ \A p \in Procs : pc[p] = "confirm" => call[p].req.action = "delete_file"

\* The policy found room for the command the process is about to run.
ShellHasRoom ==
    \A p \in Procs :
        pc[p] = "execute" /\ IsShell(call[p].req) => ShellExecutions(mem[p]) < MaxShell

RequestInv == OneRequest /\ CallsKeepRequest /\ OnlyDeletesAwait /\ ShellHasRoom

(* An append tells one event more.                                         *)
LEMMA ToldAppend ==
    ASSUME NEW L \in Seq(Event), NEW e \in Event
    PROVE  {Append(L, e)[i] : i \in DOMAIN Append(L, e)} = {L[i] : i \in DOMAIN L} \cup {e}
<1> DEFINE M == Append(L, e)
           n == Len(L)
<1>1. /\ DOMAIN L = 1..n /\ n \in Nat /\ DOMAIN M = 1..(n + 1)
      /\ \A i \in 1..n : M[i] = L[i]
      /\ M[n + 1] = e
  BY AppendProperties, LenProperties
<1> HIDE DEF M, n
<1>2. \A i \in DOMAIN M : M[i] \in {L[j] : j \in DOMAIN L} \cup {e}
  BY <1>1
<1>3. \A i \in DOMAIN L : L[i] \in {M[j] : j \in DOMAIN M}
  <2> TAKE i \in DOMAIN L
  <2>1. i \in DOMAIN M /\ M[i] = L[i]
    BY <1>1
  <2> QED
    BY <2>1
<1>4. e \in {M[j] : j \in DOMAIN M}
  <2>1. n + 1 \in DOMAIN M /\ M[n + 1] = e
    BY <1>1
  <2> QED
    BY <2>1
<1> QED
  BY <1>2, <1>3, <1>4 DEF M

LEMMA ToldIsLogs ==
    ASSUME NEW L \in Logs, NEW i \in DOMAIN L
    PROVE  L[i] \in Told
BY DEF Told

(* Where the number of commands in a log comes from.                       *)
ShellEvents == {e \in Event : e.kind = "execution" /\ e.action = "shell_command"}

LEMMA ShellCount ==
    ASSUME NEW L \in Seq(Event)
    PROVE  /\ ShellExecutions(L) = CountOf(L, ShellEvents)
           /\ ShellExecutions(L) \in Nat
           /\ \A e \in Event : ShellExecutions(Append(L, e)) =
                 ShellExecutions(L) + Indicator(e \in ShellEvents)
<1>1. ASSUME NEW M \in Seq(Event) PROVE ShellExecutions(M) = CountOf(M, ShellEvents)
  <2>1. \A i \in DOMAIN M : M[i] \in Event
    BY LenProperties, ElementOfSeq
  <2>2. {i \in DOMAIN M : M[i].kind = "execution" /\ M[i].action = "shell_command"}
          = {i \in DOMAIN M : M[i] \in ShellEvents}
    BY <2>1 DEF ShellEvents
  <2> QED
    BY <2>2 DEF ShellExecutions, CountEvents, CountOf
<1>2. CountOf(L, ShellEvents) \in Nat
  BY CountType
<1>3. ASSUME NEW e \in Event
      PROVE  ShellExecutions(Append(L, e)) = ShellExecutions(L) + Indicator(e \in ShellEvents)
  <2>1. Append(L, e) \in Seq(Event)
    BY AppendProperties
  <2>2. CountOf(Append(L, e), ShellEvents) = CountOf(L, ShellEvents) + Indicator(e \in ShellEvents)
    BY CountAppend
  <2>3. ShellExecutions(Append(L, e)) = CountOf(Append(L, e), ShellEvents)
    BY <1>1, <2>1
  <2>4. ShellExecutions(L) = CountOf(L, ShellEvents)
    BY <1>1
  <2> QED
    BY <2>2, <2>3, <2>4
<1> QED
  BY <1>1, <1>2, <1>3

(* What is asked of an append: a proposal is new and the call keeps its    *)
(* request, confirmation is asked for deletions, and a command about to    *)
(* run had room.                                                           *)
LEMMA RecordKeepsRequests ==
    ASSUME OnceInv, RequestInv, NEW p \in Procs, NEW e \in Event, NEW then, NEW locals,
           Record(p, e, then, locals),
           e.kind = "proposal" =>
              /\ e.pid \notin issued
              /\ then = "decide" /\ locals.pid = e.pid /\ locals.req = e.req,
           then \notin {"idle", "decide"} =>
              \A f \in Told : Proposes(f, locals.pid) => f.req = locals.req,
           \A f \in Told : f.kind = "proposal" /\ Decides(e, f.pid, "require_confirmation")
              => f.req.action = "delete_file",
           then = "decide" => e.kind = "proposal",
           then = "confirm" => locals.req.action = "delete_file",
           then = "execute" /\ IsShell(locals.req) =>
              ShellExecutions(mem[p]) < MaxShell /\ e.kind # "execution"
    PROVE  RequestInv'
<1>1. TypeOK /\ Logs \subseteq Seq(Event)
  BY LogsAreLogs DEF OnceInv, AuthInv
<1>2. /\ mem'[p] = Append(mem[p], e) /\ \A q \in Procs \ {p} : mem'[q] = mem[q]
      /\ disk' = disk \/ disk' = Append(disk, e)
      /\ \A q \in Procs \ {p} : pc'[q] = pc[q] /\ call'[q] = call[q]
      /\ pc'[p] = "idle" \/ (pc'[p] = then /\ call'[p] = locals)
      /\ disk \in Seq(Event) /\ \A q \in Procs : mem[q] \in Seq(Event)
  BY <1>1 DEF Record, TypeOK
<1>3. \A M \in Logs' : M \in Logs \/ \E L \in Logs : M = Append(L, e)
  BY <1>2 DEF Logs
<1>4. \A f \in Told' : f \in Told \/ f = e
  <2> SUFFICES ASSUME NEW M \in Logs', NEW i \in DOMAIN M
               PROVE  M[i] \in Told \/ M[i] = e
    BY DEF Told
  <2>1. CASE M \in Logs
    BY <2>1, ToldIsLogs
  <2>2. ASSUME NEW L \in Logs, M = Append(L, e) PROVE M[i] \in Told \/ M[i] = e
    <3>1. M[i] \in {L[j] : j \in DOMAIN L} \cup {e}
      BY <1>1, <2>2, ToldAppend
    <3> QED
      BY <3>1, ToldIsLogs
  <2> QED
    BY <1>3, <2>1, <2>2
<1>5. \A f \in Told : f.pid \in issued
  BY DEF Told, OnceInv, LogsAreOfIssued
<1>6. \A q \in Procs : pc[q] \notin {"down", "idle"} => call[q].pid \in issued
  BY DEF OnceInv, LogsAreOfIssued
<1>7. OneRequest'
  BY <1>4, <1>5 DEF OneRequest, RequestInv, Proposes
<1>8. CallsKeepRequest'
  <2> SUFFICES ASSUME NEW q \in Procs, pc'[q] \notin {"down", "idle"},
                      NEW f \in Told', Proposes(f, call'[q].pid)
               PROVE  f.req = call'[q].req
    BY DEF CallsKeepRequest
  <2>1. CASE q # p
    <3>1. call'[q] = call[q] /\ pc'[q] = pc[q] /\ call[q].pid \in issued
      BY <1>2, <1>6, <2>1
    <3>2. f \in Told
      BY <1>4, <3>1 DEF Proposes
    <3> QED
      BY <3>1, <3>2 DEF RequestInv, CallsKeepRequest
  <2>2. CASE q = p
    <3>1. call'[p] = locals /\ pc'[p] = then
      BY <1>2, <2>2
    <3>2. CASE then = "decide"
      BY <1>4, <1>5, <2>2, <3>1, <3>2 DEF Proposes
    <3>3. CASE then # "decide"
      <4>1. f # e
        BY <3>3 DEF Proposes
      <4> QED
        BY <1>4, <2>2, <3>1, <3>3, <4>1
    <3> QED
      BY <3>2, <3>3
  <2> QED
    BY <2>1, <2>2
<1>9. OnlyDeletesAwait'
  <2>1. ASSUME NEW f \in Told', NEW g \in Told', f.kind = "proposal",
               Decides(g, f.pid, "require_confirmation")
        PROVE  f.req.action = "delete_file"
    <3>1. CASE f = e
      <4>1. g # e
        BY <2>1, <3>1 DEF Decides
      <4> QED
        BY <1>4, <1>5, <2>1, <3>1, <4>1 DEF Decides
    <3>2. CASE f \in Told /\ g = e
      BY <2>1, <3>2
    <3>3. CASE f \in Told /\ g \in Told
      BY <2>1, <3>3 DEF RequestInv, OnlyDeletesAwait
    <3> QED
      BY <1>4, <3>1, <3>2, <3>3
  <2>2. \A q \in Procs : pc'[q] = "confirm" => call'[q].req.action = "delete_file"
    BY <1>2 DEF RequestInv, OnlyDeletesAwait
  <2> QED
    BY <2>1, <2>2 DEF OnlyDeletesAwait
<1>10. ShellHasRoom'
  <2> SUFFICES ASSUME NEW q \in Procs, pc'[q] = "execute", IsShell(call'[q].req)
               PROVE  ShellExecutions(mem'[q]) < MaxShell
    BY DEF ShellHasRoom
  <2>1. CASE q # p
    BY <1>2, <2>1 DEF RequestInv, ShellHasRoom
  <2>2. CASE q = p
    <3>1. ShellExecutions(mem[p]) < MaxShell /\ e.kind # "execution"
      BY <1>2, <2>2
    <3>2. ShellExecutions(mem'[p]) = ShellExecutions(mem[p]) + Indicator(e \in ShellEvents)
      BY <1>2, ShellCount
    <3>3. Indicator(e \in ShellEvents) = 0 /\ ShellExecutions(mem[p]) \in Nat
      BY <1>2, <3>1, ShellCount DEF ShellEvents, Indicator
    <3> QED
      BY <2>2, <3>1, <3>2, <3>3
  <2> QED
    BY <2>1, <2>2
<1> QED
  BY <1>7, <1>8, <1>9, <1>10 DEF RequestInv

(* A step that writes no log and brings no call forward but past its run.  *)
LEMMA SilentKeepsRequests ==
    ASSUME RequestInv, NEW p \in Procs, disk' = disk,
           mem'[p] \in {mem[p], disk, <<>>},
           pc'[p] \notin {"down", "idle"} =>
              /\ pc'[p] \notin {"confirm", "execute"}
              /\ pc[p] \notin {"down", "idle"}
              /\ call'[p].pid = call[p].pid /\ call'[p].req = call[p].req,
           \A q \in Procs \ {p} : pc'[q] = pc[q] /\ call'[q] = call[q] /\ mem'[q] = mem[q]
    PROVE  RequestInv'
<1>1. \A M \in Logs' : M \in Logs \/ M = <<>>
  BY DEF Logs
<1>2. \A f \in Told' : f \in Told
  BY <1>1 DEF Told
<1>3. OneRequest'
  BY <1>2 DEF RequestInv, OneRequest
<1>4. CallsKeepRequest'
  BY <1>2 DEF RequestInv, CallsKeepRequest
<1>5. OnlyDeletesAwait'
  BY <1>2 DEF RequestInv, OnlyDeletesAwait
<1>6. ShellHasRoom'
  BY DEF RequestInv, ShellHasRoom
<1> QED
  BY <1>3, <1>4, <1>5, <1>6 DEF RequestInv

(* What awaits an approval in some list is a deletion, and its request is  *)
(* the one every list tells.                                               *)
LEMMA AwaitingIsDeletion ==
    ASSUME OnceInv, RequestInv, NEW L \in Logs, NEW pid \in Pids, Awaiting(L, pid)
    PROVE  /\ RequestOf(L, pid).action = "delete_file"
           /\ \A f \in Told : Proposes(f, pid) => f.req = RequestOf(L, pid)
           /\ pid \in issued /\ Asked(L, pid) /\ ~Approved(L, pid)
<1>1. L \in Seq(Event) /\ AskedFirst(L)
  BY LogsAreLogs DEF OnceInv, AuthInv, LogsAskFirst
<1>2. Asked(L, pid) /\ ~Approved(L, pid)
  BY <1>1, AwaitingIsUnapproved
<1>3. PICK j \in DOMAIN L : Decides(L[j], pid, "require_confirmation")
  BY <1>2 DEF Asked
<1>4. PICK i \in DOMAIN L : IsOf(L[i], "proposal", pid) /\ FindLatest(L, "proposal", pid) = L[i]
  BY <1>1, FindLatestIs DEF Awaiting
<1>5. L[i] \in Told /\ L[j] \in Told /\ RequestOf(L, pid) = L[i].req
  BY <1>4, ToldIsLogs DEF RequestOf
<1>6. L[i].kind = "proposal" /\ L[i].pid = pid
  BY <1>4 DEF IsOf
<1> QED
  BY <1>2, <1>3, <1>5, <1>6
     DEF RequestInv, OnlyDeletesAwait, OneRequest, Proposes, OnceInv, LogsAreOfIssued

LEMMA ShellDecision ==
    ASSUME NEW L, NEW req
    PROVE  /\ Evaluate(L, req) = "require_confirmation" => req.action = "delete_file"
           /\ Evaluate(L, req) = "approve" /\ IsShell(req) => ShellExecutions(L) < MaxShell
<1>1. Risk(req.action) = "high" => req.action = "delete_file"
  BY DEF Risk
<1> QED
  BY <1>1 DEF Evaluate, WithinBudget, RequiresConfirmation, IsShell

LEMMA RequestStep == OnceInv /\ RequestInv /\ [Next]_vars => RequestInv'
<1> SUFFICES ASSUME OnceInv, RequestInv, [Next]_vars PROVE RequestInv'
  OBVIOUS
<1>0. TypeOK
  BY DEF OnceInv, AuthInv
<1>1. ASSUME NEW p \in Procs,
             Open(p) \/ Close(p) \/ Crash(p) \/ OtherAppendRaises(p) \/ ToolRaises(p)
      PROVE  RequestInv'
  <2>1. /\ disk' = disk /\ mem'[p] \in {mem[p], disk, <<>>} /\ pc'[p] \in {"down", "idle"}
        /\ \A q \in Procs \ {p} : pc'[q] = pc[q] /\ call'[q] = call[q] /\ mem'[q] = mem[q]
    BY <1>0, <1>1 DEF Open, Close, Crash, OtherAppendRaises, ToolRaises, Leave, TypeOK
  <2> QED
    BY <2>1, SilentKeepsRequests
<1>2. ASSUME NEW p \in Procs, Execute(p) PROVE RequestInv'
  <2>1. /\ disk' = disk /\ mem' = mem /\ pc'[p] = "log_execution" /\ pc[p] = "execute"
        /\ \A q \in Procs \ {p} : pc'[q] = pc[q] /\ call'[q] = call[q]
    BY <1>0, <1>2 DEF Execute, TypeOK
  <2>2. call'[p].pid = call[p].pid /\ call'[p].req = call[p].req
    <3>1. call[p] \in Call
      BY <1>0, <1>2, CallFields DEF Execute
    <3> QED
      BY <1>0, <1>2, <3>1 DEF Execute, TypeOK, Call
  <2> QED
    BY <2>1, <2>2, SilentKeepsRequests
<1>3. ASSUME NEW p \in Procs, Handle(p) PROVE RequestInv'
  <2>1. PICK pid \in Pids \ issued, req \in Requests, confirm \in BOOLEAN :
          Record(p, ProposalEvent(pid, req), "decide",
                 [NoCall EXCEPT !.pid = pid, !.req = req, !.confirm = confirm])
    BY <1>3 DEF Handle
  <2> DEFINE e == ProposalEvent(pid, req)
             locals == [NoCall EXCEPT !.pid = pid, !.req = req, !.confirm = confirm]
  <2>2. /\ locals.pid = pid /\ locals.req = req
        /\ e \in Event /\ e.kind = "proposal" /\ e.pid = pid /\ e.req = req
    BY EventsAreEvents DEF NoCall, ProposalEvent
  <2>3. Record(p, e, "decide", locals)
    BY <2>1
  <2> HIDE DEF e, locals
  <2>4. \A any : ~Decides(e, any, "require_confirmation")
    BY <2>2 DEF Decides
  <2> QED
    BY <2>1, <2>2, <2>3, <2>4, RecordKeepsRequests
<1>4. ASSUME NEW p \in Procs, Decide(p) PROVE RequestInv'
  <2> DEFINE d == Evaluate(mem[p], call[p].req)
             e == DecisionEvent(call[p].pid, d, "policy")
             then == AfterDecision(d, call[p].confirm)
  <2>1. pc[p] = "decide" /\ Record(p, e, then, call[p])
    BY <1>4 DEF Decide
  <2>2. e \in Event /\ e.kind = "policy_decision"
    BY <1>0, <2>1, CallFields, EvaluateType, EventsAreEvents DEF DecisionEvent
  <2>3. \A any, decision : Decides(e, any, decision) <=> any = call[p].pid /\ d = decision
    BY DEF Decides, DecisionEvent
  <2>4. /\ then \in {"idle", "confirm", "execute"}
        /\ then = "execute" => d = "approve"
        /\ then = "confirm" => d = "require_confirmation"
    BY DEF AfterDecision
  <2>5. \A f \in Told : Proposes(f, call[p].pid) => f.req = call[p].req
    BY <2>1 DEF RequestInv, CallsKeepRequest
  <2>6. /\ d = "require_confirmation" => call[p].req.action = "delete_file"
        /\ d = "approve" /\ IsShell(call[p].req) => ShellExecutions(mem[p]) < MaxShell
    BY ShellDecision
  <2> HIDE DEF d, e, then
  <2>7. \A f \in Told : f.kind = "proposal" /\ Decides(e, f.pid, "require_confirmation")
              => f.req.action = "delete_file"
    BY <2>3, <2>5, <2>6 DEF Proposes
  <2> QED
    BY <2>1, <2>2, <2>4, <2>5, <2>6, <2>7, RecordKeepsRequests
<1>5. ASSUME NEW p \in Procs, NEW pid \in Pids, NEW locals,
             locals.pid = pid, locals.req.action = "delete_file",
             \A f \in Told : Proposes(f, pid) => f.req = locals.req,
             Record(p, DecisionEvent(pid, "approve", "operator"), "execute", locals)
      PROVE  RequestInv'
  <2> DEFINE e == DecisionEvent(pid, "approve", "operator")
  <2>1. e \in Event /\ e.kind = "policy_decision" /\ \A any : ~Decides(e, any, "require_confirmation")
    BY EventsAreEvents DEF Decisions, DecisionEvent, Decides
  <2>2. Record(p, e, "execute", locals) /\ ~IsShell(locals.req)
    BY <1>5 DEF IsShell
  <2> HIDE DEF e
  <2> QED
    BY <1>5, <2>1, <2>2, RecordKeepsRequests
<1>6. ASSUME NEW p \in Procs, Confirm(p) PROVE RequestInv'
  <2>1. /\ call[p].pid \in Pids /\ call[p].req.action = "delete_file"
        /\ \A f \in Told : Proposes(f, call[p].pid) => f.req = call[p].req
    BY <1>0, <1>6, CallFields DEF Confirm, RequestInv, OnlyDeletesAwait, CallsKeepRequest
  <2> QED
    BY <1>5, <1>6, <2>1 DEF Confirm
<1>7. ASSUME NEW p \in Procs, Approve(p) PROVE RequestInv'
  <2>1. PICK pid \in Pids :
          /\ Awaiting(mem[p], pid)
          /\ Record(p, DecisionEvent(pid, "approve", "operator"), "execute",
                    [NoCall EXCEPT !.pid = pid, !.req = RequestOf(mem[p], pid), !.confirm = TRUE])
    BY <1>7 DEF Approve
  <2> DEFINE locals == [NoCall EXCEPT !.pid = pid, !.req = RequestOf(mem[p], pid),
                                      !.confirm = TRUE]
  <2>2. locals.pid = pid /\ locals.req = RequestOf(mem[p], pid)
    BY DEF NoCall
  <2>3. /\ RequestOf(mem[p], pid).action = "delete_file"
        /\ \A f \in Told : Proposes(f, pid) => f.req = RequestOf(mem[p], pid)
    BY <1>0, <2>1, LogsAreLogs, AwaitingIsDeletion
  <2>4. Record(p, DecisionEvent(pid, "approve", "operator"), "execute", locals)
    BY <2>1
  <2> HIDE DEF locals
  <2> QED
    BY <1>5, <2>2, <2>3, <2>4
<1>8. ASSUME NEW p \in Procs, NEW e \in Event, NEW then \in {"idle", "log_receipt"},
             Record(p, e, then, IF then = "idle" THEN NoCall ELSE call[p]),
             e.kind # "proposal", then # "idle" => pc[p] \notin {"down", "idle"},
             \A any : ~Decides(e, any, "require_confirmation")
      PROVE  RequestInv'
  <2> DEFINE locals == IF then = "idle" THEN NoCall ELSE call[p]
  <2>1. then # "idle" => \A f \in Told : Proposes(f, locals.pid) => f.req = locals.req
    BY <1>8 DEF RequestInv, CallsKeepRequest
  <2>2. Record(p, e, then, locals)
    BY <1>8
  <2> HIDE DEF locals
  <2> QED
    BY <1>8, <2>1, <2>2, RecordKeepsRequests
<1>9. ASSUME NEW p \in Procs, Reject(p) PROVE RequestInv'
  <2>1. PICK pid \in Pids : Record(p, DecisionEvent(pid, "deny", "operator"), "idle", NoCall)
    BY <1>9 DEF Reject
  <2> DEFINE e == DecisionEvent(pid, "deny", "operator")
  <2>2. e \in Event /\ e.kind # "proposal" /\ \A any : ~Decides(e, any, "require_confirmation")
    BY EventsAreEvents DEF Decisions, DecisionEvent, Decides
  <2> QED
    BY <1>8, <2>1, <2>2
<1>10. ASSUME NEW p \in Procs, LogExecution(p) PROVE RequestInv'
  <2> DEFINE e == ExecutionEvent(call[p].pid, call[p].req.action)
  <2>1. e \in Event /\ e.kind # "proposal" /\ \A any : ~Decides(e, any, "require_confirmation")
    BY <1>0, <1>10, CallFields, EventsAreEvents DEF LogExecution, ExecutionEvent, Decides
  <2>2. pc[p] = "log_execution" /\ Record(p, e, "log_receipt", call[p])
    BY <1>10 DEF LogExecution
  <2> HIDE DEF e
  <2> QED
    BY <1>8, <2>1, <2>2
<1>11. ASSUME NEW p \in Procs, LogReceipt(p) PROVE RequestInv'
  <2> DEFINE e == ReceiptEvent(call[p].pid, call[p].success, call[p].undo)
  <2>1. e \in Event /\ e.kind # "proposal" /\ \A any : ~Decides(e, any, "require_confirmation")
    BY <1>0, <1>11, CallFields, EventsAreEvents DEF LogReceipt, ReceiptEvent, Decides
  <2>2. Record(p, e, "idle", NoCall)
    BY <1>11 DEF LogReceipt
  <2> HIDE DEF e
  <2> QED
    BY <1>8, <2>1, <2>2
<1>12. ASSUME UNCHANGED <<disk, mem, pc, call>> PROVE RequestInv'
  <2>1. Told' = Told
    BY <1>12 DEF Told, Logs
  <2> QED
    BY <1>12, <2>1
       DEF RequestInv, OneRequest, CallsKeepRequest, OnlyDeletesAwait, ShellHasRoom
<1>13. ASSUME UNCHANGED vars \/ \E p \in Procs : Rollback(p) PROVE RequestInv'
  <2>1. UNCHANGED <<disk, mem, pc, call>>
    BY <1>13 DEF vars, Rollback
  <2> QED
    BY <1>12, <2>1
<1> QED
  BY <1>1, <1>2, <1>3, <1>4, <1>6, <1>7, <1>9, <1>10, <1>11, <1>13 DEF Next

LEMMA RequestAlways == Spec => []RequestInv
<1>1. Init => RequestInv
  <2> SUFFICES ASSUME Init PROVE RequestInv
    OBVIOUS
  <2>1. Told = {}
    BY DEF Told, Logs, Init
  <2> QED
    BY <2>1 DEF Init, RequestInv, OneRequest, CallsKeepRequest, OnlyDeletesAwait, ShellHasRoom
<1> QED
  BY <1>1, RequestStep, OnceAlways, PTL DEF Spec
-----------------------------------------------------------------------------
(***************************************************************************)
(* ShellBudgetHolds.  Nothing bounds the commands of a process by what is  *)
(* in its list but that each is recorded there: so a fault may lose one,   *)
(* which is then put down to the fault.  Of the others a process never has *)
(* more than the file and its own list tell of, but for the one it has run *)
(* and not recorded yet.                                                   *)
(***************************************************************************)
ShellRuns == {i \in DOMAIN runs : runs[i].action = "shell_command"}

\* The commands of p that are not among those lost.
Mine(p, lost) == {i \in ShellRuns \ lost : runs[i].by = p}

Unlogged(p) == pc[p] = "log_execution" /\ IsShell(call[p].req)

Backed(p, lost) ==
    /\ Cardinality(Mine(p, lost)) <= MaxShell
    /\ Cardinality(Mine(p, lost)) <= ShellExecutions(disk) + Indicator(Unlogged(p))
    /\ pc[p] # "down" =>
          Cardinality(Mine(p, lost)) <= ShellExecutions(mem[p]) + Indicator(Unlogged(p))

ShellAccounts ==
    \E lost \in SUBSET ShellRuns :
        Cardinality(lost) <= faults /\ \A p \in Procs : Backed(p, lost)

LEMMA ShellRunsAreFinite ==
    ASSUME TypeOK
    PROVE  /\ IsFiniteSet(ShellRuns)
           /\ \A p, lost : IsFiniteSet(Mine(p, lost)) /\ Cardinality(Mine(p, lost)) \in Nat
           /\ \A lost \in SUBSET ShellRuns : IsFiniteSet(lost) /\ Cardinality(lost) \in Nat
<1>1. ShellRuns \in SUBSET (1..Len(runs)) /\ Len(runs) \in Nat
  BY LenProperties DEF ShellRuns, TypeOK
<1>2. IsFiniteSet(1..Len(runs))
  BY <1>1, FS_Interval
<1>3. IsFiniteSet(ShellRuns)
  BY <1>1, <1>2, FS_Subset
<1>4. \A S \in SUBSET ShellRuns : IsFiniteSet(S) /\ Cardinality(S) \in Nat
  BY <1>3, FS_Subset, FS_CardinalityType
<1>5. \A p, lost : Mine(p, lost) \in SUBSET ShellRuns
  BY DEF Mine
<1> QED
  BY <1>3, <1>4, <1>5

(* A step that runs nothing, if no process loses a record: what is on disk *)
(* and in a list, with the command not recorded yet, does not become less. *)
LEMMA RecordsKeepShell ==
    ASSUME TypeOK, TypeOK', ShellAccounts, runs' = runs, faults <= faults',
           \A q \in Procs :
              /\ ShellExecutions(disk) + Indicator(Unlogged(q))
                   <= ShellExecutions(disk') + Indicator(Unlogged(q)')
              /\ pc'[q] # "down" =>
                   \/ ShellExecutions(disk) + Indicator(Unlogged(q))
                        <= ShellExecutions(mem'[q]) + Indicator(Unlogged(q)')
                   \/ /\ pc[q] # "down"
                      /\ ShellExecutions(mem[q]) + Indicator(Unlogged(q))
                           <= ShellExecutions(mem'[q]) + Indicator(Unlogged(q)')
    PROVE  ShellAccounts'
<1>1. PICK lost \in SUBSET ShellRuns :
          Cardinality(lost) <= faults /\ \A q \in Procs : Backed(q, lost)
  BY DEF ShellAccounts
<1>2. ShellRuns' = ShellRuns /\ \A q : Mine(q, lost)' = Mine(q, lost)
  BY DEF ShellRuns, Mine
<1>3. faults \in Nat /\ faults' \in Nat /\ Cardinality(lost) \in Nat
  BY ShellRunsAreFinite DEF TypeOK
<1>4. ASSUME NEW q \in Procs PROVE Backed(q, lost)'
  <2> DEFINE n == Cardinality(Mine(q, lost))
             u == Indicator(Unlogged(q))
             v == Indicator(Unlogged(q)')
  <2>1. /\ n \in Nat /\ u \in {0, 1} /\ v \in {0, 1}
        /\ ShellExecutions(disk) \in Nat /\ ShellExecutions(disk') \in Nat
        /\ ShellExecutions(mem[q]) \in Nat /\ ShellExecutions(mem'[q]) \in Nat
    <3>1. disk \in Seq(Event) /\ disk' \in Seq(Event)
          /\ mem[q] \in Seq(Event) /\ mem'[q] \in Seq(Event)
      BY DEF TypeOK
    <3> QED
      BY <3>1, ShellCount, ShellRunsAreFinite DEF Indicator
  <2>2. /\ n <= MaxShell
        /\ n <= ShellExecutions(disk) + u
        /\ pc[q] # "down" => n <= ShellExecutions(mem[q]) + u
    BY <1>1 DEF Backed
  <2> HIDE DEF n, u, v
  <2>3. n <= ShellExecutions(disk') + v
    BY <2>1, <2>2 DEF u, v
  <2>4. pc'[q] # "down" => n <= ShellExecutions(mem'[q]) + v
    BY <2>1, <2>2 DEF u, v
  <2> QED
    BY <1>2, <2>2, <2>3, <2>4 DEF Backed, n, v
<1> QED
  BY <1>1, <1>2, <1>3, <1>4 DEF ShellAccounts

(* A process that loses the record of its command: the command is put down *)
(* to the fault.                                                           *)
LEMMA LosingKeepsShell ==
    ASSUME TypeOK, TypeOK', ShellAccounts, NEW p \in Procs, runs' = runs, disk' = disk,
           faults' = faults + 1,
           \A q \in Procs \ {p} : pc'[q] = pc[q] /\ call'[q] = call[q] /\ mem'[q] = mem[q],
           pc'[p] \in {"down", "idle"},
           pc'[p] # "down" => pc[p] # "down" /\ ShellExecutions(mem[p]) <= ShellExecutions(mem'[p])
    PROVE  ShellAccounts'
<1>1. PICK lost \in SUBSET ShellRuns :
          Cardinality(lost) <= faults /\ \A q \in Procs : Backed(q, lost)
  BY DEF ShellAccounts
<1>2. PICK more \in SUBSET ShellRuns :
          /\ Cardinality(more) <= faults'
          /\ \A q \in Procs \ {p} : Mine(q, more) = Mine(q, lost)
          /\ Mine(p, more) \subseteq Mine(p, lost)
          /\ Mine(p, more) = {} \/ Cardinality(Mine(p, more)) = Cardinality(Mine(p, lost)) - 1
  <2>1. CASE Mine(p, lost) = {}
    <3>1. Cardinality(lost) \in Nat /\ faults \in Nat
      BY ShellRunsAreFinite DEF TypeOK
    <3>2. Cardinality(lost) <= faults'
      BY <1>1, <3>1
    <3> QED
      BY <2>1, <3>2
  <2>2. CASE Mine(p, lost) # {}
    <3>1. PICK i \in Mine(p, lost) : TRUE
      BY <2>2
    <3> DEFINE more == lost \cup {i}
    <3>2. i \in ShellRuns /\ i \notin lost /\ runs[i].by = p
      BY DEF Mine
    <3>3. Cardinality(more) = Cardinality(lost) + 1 /\ Cardinality(lost) \in Nat
      BY <3>2, ShellRunsAreFinite, FS_AddElement
    <3>4. Mine(p, more) = Mine(p, lost) \ {i} /\ \A q \in Procs \ {p} : Mine(q, more) = Mine(q, lost)
      BY <3>2 DEF Mine
    <3>5. Cardinality(Mine(p, lost) \ {i}) = Cardinality(Mine(p, lost)) - 1
      BY ShellRunsAreFinite, FS_RemoveElement
    <3>6. Cardinality(more) <= faults'
      BY <1>1, <3>3 DEF TypeOK
    <3>7. more \in SUBSET ShellRuns
      BY <3>2
    <3> HIDE DEF more
    <3> QED
      BY <3>4, <3>5, <3>6, <3>7
  <2> QED
    BY <2>1, <2>2
<1>3. ShellRuns' = ShellRuns /\ \A q : Mine(q, more)' = Mine(q, more)
  BY DEF ShellRuns, Mine
<1>4. ASSUME NEW q \in Procs, q # p PROVE Backed(q, more)'
  <2>1. Mine(q, more)' = Mine(q, lost)
    BY <1>2, <1>3, <1>4
  <2>2. Unlogged(q)' = Unlogged(q)
    BY <1>4 DEF Unlogged
  <2> QED
    BY <1>1, <1>4, <2>1, <2>2 DEF Backed
<1>5. Backed(p, more)'
  <2> DEFINE n == Cardinality(Mine(p, lost))
             m == Cardinality(Mine(p, more))
  <2>1. n \in Nat /\ m \in Nat /\ (m = 0 \/ m = n - 1)
    BY <1>2, ShellRunsAreFinite, FS_EmptySet
  <2>2. /\ ShellExecutions(disk) \in Nat /\ ShellExecutions(mem[p]) \in Nat
        /\ ShellExecutions(mem'[p]) \in Nat
    <3>1. disk \in Seq(Event) /\ mem[p] \in Seq(Event) /\ mem'[p] \in Seq(Event)
      BY DEF TypeOK
    <3> QED
      BY <3>1, ShellCount
  <2>3. ~Unlogged(p)' /\ Indicator(Unlogged(p)') = 0 /\ Indicator(Unlogged(p)) \in {0, 1}
    BY DEF Unlogged, Indicator
  <2>4. /\ n <= MaxShell
        /\ n <= ShellExecutions(disk) + Indicator(Unlogged(p))
        /\ pc[p] # "down" => n <= ShellExecutions(mem[p]) + Indicator(Unlogged(p))
    BY <1>1 DEF Backed
  <2> HIDE DEF n, m
  <2>5. m <= MaxShell /\ m <= ShellExecutions(disk')
        /\ (pc'[p] # "down" => m <= ShellExecutions(mem'[p]))
    BY <2>1, <2>2, <2>3, <2>4, KernelConstants
  <2>6. Cardinality(Mine(p, more)') = m
    BY <1>3 DEF m
  <2> QED
    BY <2>2, <2>3, <2>5, <2>6 DEF Backed
<1> QED
  BY <1>2, <1>3, <1>4, <1>5 DEF ShellAccounts

(* What a new run adds to the commands of a process.                       *)
LEMMA MineAfterRun ==
    ASSUME TypeOK, NEW p \in Procs, NEW r \in Run, r.by = p, runs' = Append(runs, r),
           NEW n, n = Len(runs) + 1, NEW lost \in SUBSET ShellRuns
    PROVE  /\ n \notin ShellRuns
           /\ ShellRuns' = IF r.action = "shell_command" THEN ShellRuns \cup {n} ELSE ShellRuns
           /\ \A q \in Procs \ {p} : Mine(q, lost)' = Mine(q, lost)
           /\ Mine(p, lost)' =
                 IF r.action = "shell_command" THEN Mine(p, lost) \cup {n} ELSE Mine(p, lost)
<1>1. /\ DOMAIN runs = 1..Len(runs) /\ Len(runs) \in Nat
      /\ DOMAIN runs' = 1..n
      /\ \A i \in 1..Len(runs) : runs'[i] = runs[i]
      /\ runs'[n] = r
  BY AppendProperties, LenProperties DEF TypeOK
<1>2. /\ n \notin DOMAIN runs /\ DOMAIN runs' = DOMAIN runs \cup {n}
      /\ \A i \in DOMAIN runs : runs'[i] = runs[i]
      /\ runs'[n] = r
  BY <1>1
<1>3. n \notin ShellRuns
      /\ ShellRuns' = IF r.action = "shell_command" THEN ShellRuns \cup {n} ELSE ShellRuns
  BY <1>2 DEF ShellRuns
<1>4. \A i \in ShellRuns : runs'[i] = runs[i]
  BY <1>2 DEF ShellRuns
<1>5. CASE r.action = "shell_command"
  BY <1>2, <1>3, <1>4, <1>5 DEF Mine
<1>6. CASE r.action # "shell_command"
  BY <1>2, <1>3, <1>4, <1>6 DEF Mine
<1> QED
  BY <1>5, <1>6

(* ... and what is left of them when the run is counted among those lost.  *)
LEMMA MineWithoutRun ==
    ASSUME TypeOK, NEW r \in Run, runs' = Append(runs, r),
           NEW n, n = Len(runs) + 1, NEW lost \in SUBSET ShellRuns, NEW more, more = lost \cup {n}
    PROVE  \A q \in Procs : Mine(q, more)' = Mine(q, lost)
<1>1. /\ n \notin DOMAIN runs /\ DOMAIN runs' = DOMAIN runs \cup {n}
      /\ \A i \in DOMAIN runs : runs'[i] = runs[i]
  <2>1. /\ DOMAIN runs = 1..Len(runs) /\ Len(runs) \in Nat
        /\ DOMAIN runs' = 1..n
        /\ \A i \in 1..Len(runs) : runs'[i] = runs[i]
    BY AppendProperties, LenProperties DEF TypeOK
  <2> QED
    BY <2>1
<1>2. n \notin ShellRuns /\ n \notin lost
  BY <1>1 DEF ShellRuns
<1>3. \A i \in ShellRuns : runs'[i] = runs[i]
  BY <1>1 DEF ShellRuns
<1> QED
  BY <1>1, <1>2, <1>3 DEF Mine, ShellRuns

(* A command that ran is not recorded yet, and there was room for it.      *)
LEMMA ExecuteKeepsShell ==
    ASSUME TypeOK, RequestInv, ShellAccounts, NEW p \in Procs, Execute(p)
    PROVE  ShellAccounts'
<1> DEFINE r == RunEntry(p, call[p].req, FileAfter(call[p].req))
<1>1. /\ pc[p] = "execute" /\ pc' = [pc EXCEPT ![p] = "log_execution"]
      /\ runs' = Append(runs, r) /\ UNCHANGED <<disk, mem, faults>>
  BY DEF Execute
<1>2. FileAfter(call[p].req) \in FileState
  BY <1>1, CallFields DEF FileAfter, FileState, TypeOK
<1>3. r \in Run /\ r.by = p /\ r.action = call[p].req.action
  BY <1>1, <1>2, CallFields DEF RunEntry, Run, TypeOK
<1>4. /\ \A q \in Procs \ {p} : pc'[q] = pc[q] /\ call'[q] = call[q]
      /\ pc'[p] = "log_execution" /\ call'[p].req = call[p].req
  <2>1. call[p] \in Call
    BY <1>1, CallFields
  <2> QED
    BY <1>1, <2>1 DEF Execute, TypeOK, Call
<1> HIDE DEF r
<1>5. PICK n : n = Len(runs) + 1
  OBVIOUS
<1>6. PICK lost \in SUBSET ShellRuns :
          Cardinality(lost) <= faults /\ \A q \in Procs : Backed(q, lost)
  BY DEF ShellAccounts
<1>7. /\ n \notin ShellRuns
      /\ ShellRuns' = IF r.action = "shell_command" THEN ShellRuns \cup {n} ELSE ShellRuns
      /\ \A q \in Procs \ {p} : Mine(q, lost)' = Mine(q, lost)
      /\ Mine(p, lost)' =
            IF r.action = "shell_command" THEN Mine(p, lost) \cup {n} ELSE Mine(p, lost)
  BY <1>1, <1>3, <1>5, MineAfterRun
<1>8. ASSUME NEW q \in Procs, q # p PROVE Backed(q, lost)'
  <2>1. Unlogged(q)' = Unlogged(q) /\ Mine(q, lost)' = Mine(q, lost)
    BY <1>4, <1>7, <1>8 DEF Unlogged
  <2> QED
    BY <1>1, <1>4, <1>6, <1>8, <2>1 DEF Backed
<1>9. Backed(p, lost)'
  <2> DEFINE m == Cardinality(Mine(p, lost))
  <2>1. /\ m \in Nat /\ ShellExecutions(disk) \in Nat /\ ShellExecutions(mem[p]) \in Nat
        /\ MaxShell \in Nat
    <3>1. disk \in Seq(Event) /\ mem[p] \in Seq(Event)
      BY DEF TypeOK
    <3> QED
      BY <3>1, ShellCount, ShellRunsAreFinite, KernelConstants
  <2>2. ~Unlogged(p) /\ Indicator(Unlogged(p)) = 0
    BY <1>1 DEF Unlogged, Indicator
  <2>3. m <= MaxShell /\ m <= ShellExecutions(disk) /\ m <= ShellExecutions(mem[p])
    BY <1>1, <1>6, <2>1, <2>2 DEF Backed
  <2>4. CASE IsShell(call[p].req)
    <3>1. ShellExecutions(mem[p]) < MaxShell
      BY <1>1, <2>4 DEF RequestInv, ShellHasRoom
    <3>2. Indicator(Unlogged(p)') = 1
      BY <1>4, <2>4 DEF Unlogged, Indicator, IsShell
    <3>3. Mine(p, lost)' = Mine(p, lost) \cup {n} /\ n \notin Mine(p, lost)
      BY <1>3, <1>7, <2>4 DEF Mine, IsShell
    <3>4. Cardinality(Mine(p, lost)') = m + 1
      BY <3>3, ShellRunsAreFinite, FS_AddElement
    <3> HIDE DEF m
    <3>5. Cardinality(Mine(p, lost)') <= MaxShell
          /\ Cardinality(Mine(p, lost)') <= ShellExecutions(disk') + 1
          /\ Cardinality(Mine(p, lost)') <= ShellExecutions(mem'[p]) + 1
      BY <1>1, <2>1, <2>3, <3>1, <3>4
    <3> QED
      BY <3>2, <3>5 DEF Backed
  <2>5. CASE ~IsShell(call[p].req)
    <3>1. Indicator(Unlogged(p)') = 0
      BY <1>4, <2>5 DEF Unlogged, Indicator, IsShell
    <3>2. Mine(p, lost)' = Mine(p, lost)
      BY <1>3, <1>7, <2>5 DEF IsShell
    <3> QED
      BY <1>1, <2>1, <2>3, <3>1, <3>2 DEF Backed
  <2> QED
    BY <2>4, <2>5
<1>10. lost \in SUBSET ShellRuns' /\ Cardinality(lost) <= faults'
  BY <1>1, <1>6, <1>7
<1> QED
  BY <1>8, <1>9, <1>10 DEF ShellAccounts

(* A command that raises is put down to the fault it is.                   *)
LEMMA RaisingKeepsShell ==
    ASSUME TypeOK, ShellAccounts, NEW p \in Procs, ToolRaises(p)
    PROVE  ShellAccounts'
<1> DEFINE r == RunEntry(p, call[p].req, files[call[p].req.path])
<1>1. /\ pc[p] = "execute" /\ pc' = [pc EXCEPT ![p] = "idle"] /\ faults' = faults + 1
      /\ runs' = Append(runs, r) /\ UNCHANGED <<disk, mem>>
      /\ call' = [call EXCEPT ![p] = NoCall]
  BY DEF ToolRaises
<1>2. r \in Run /\ r.by = p
  BY <1>1, CallFields DEF RunEntry, Run, TypeOK
<1>3. /\ \A q \in Procs \ {p} : pc'[q] = pc[q] /\ call'[q] = call[q]
      /\ pc'[p] = "idle"
  BY <1>1 DEF TypeOK
<1> HIDE DEF r
<1>4. PICK n : n = Len(runs) + 1
  OBVIOUS
<1>5. PICK lost \in SUBSET ShellRuns :
          Cardinality(lost) <= faults /\ \A q \in Procs : Backed(q, lost)
  BY DEF ShellAccounts
<1>6. Cardinality(lost) \in Nat /\ IsFiniteSet(lost) /\ faults \in Nat
  BY ShellRunsAreFinite DEF TypeOK
<1>7. /\ n \notin ShellRuns
      /\ ShellRuns' = IF r.action = "shell_command" THEN ShellRuns \cup {n} ELSE ShellRuns
      /\ \A q \in Procs \ {p} : Mine(q, lost)' = Mine(q, lost)
      /\ Mine(p, lost)' =
            IF r.action = "shell_command" THEN Mine(p, lost) \cup {n} ELSE Mine(p, lost)
  BY <1>1, <1>2, <1>4, MineAfterRun
<1>8. PICK more : /\ more \in SUBSET ShellRuns' /\ Cardinality(more) <= faults'
                  /\ \A q \in Procs : Mine(q, more)' = Mine(q, lost)
  <2>1. CASE r.action = "shell_command"
    <3>0. PICK more : more = lost \cup {n}
      OBVIOUS
    <3>1. n \notin lost /\ Cardinality(more) = Cardinality(lost) + 1
      BY <1>6, <1>7, <3>0, FS_AddElement
    <3>2. more \in SUBSET ShellRuns'
      BY <1>7, <2>1, <3>0
    <3>3. \A q \in Procs : Mine(q, more)' = Mine(q, lost)
      <4>1. runs' = Append(runs, r) /\ r \in Run
        BY <1>1, <1>2
      <4> QED
        BY <1>4, <3>0, <4>1, MineWithoutRun
    <3>4. Cardinality(more) <= faults'
      BY <1>1, <1>5, <1>6, <3>1
    <3> QED
      BY <3>2, <3>3, <3>4
  <2>2. CASE r.action # "shell_command"
    <3>1. ShellRuns' = ShellRuns /\ \A q \in Procs : Mine(q, lost)' = Mine(q, lost)
      BY <1>7, <2>2
    <3>2. Cardinality(lost) <= faults'
      BY <1>1, <1>5, <1>6
    <3> QED
      BY <3>1, <3>2
  <2> QED
    BY <2>1, <2>2
<1>9. ASSUME NEW q \in Procs PROVE Backed(q, more)'
  <2>1. Mine(q, more)' = Mine(q, lost) /\ Backed(q, lost)
    BY <1>5, <1>8
  <2>2. CASE q # p
    <3>1. Unlogged(q)' = Unlogged(q)
      BY <1>3, <2>2 DEF Unlogged
    <3> QED
      BY <1>1, <1>3, <2>1, <2>2, <3>1 DEF Backed
  <2>3. CASE q = p
    <3>1. Indicator(Unlogged(p)') = 0 /\ Indicator(Unlogged(p)) = 0
      BY <1>1, <1>3 DEF Unlogged, Indicator
    <3> QED
      BY <1>1, <1>3, <2>1, <2>3, <3>1 DEF Backed
  <2> QED
    BY <2>2, <2>3
<1> QED
  BY <1>8, <1>9 DEF ShellAccounts

(* Recording anything but the execution of a command that then does not    *)
(* commit.                                                                 *)
LEMMA RecordKeepsShell ==
    ASSUME TypeOK, TypeOK', ShellAccounts, NEW p \in Procs, NEW e \in Event, NEW then, NEW locals,
           Record(p, e, then, locals), runs' = runs, pc[p] # "down",
           then # "log_execution", Unlogged(p) => e \in ShellEvents
    PROVE  ShellAccounts'
<1>1. /\ mem'[p] = Append(mem[p], e) /\ \A q \in Procs \ {p} : mem'[q] = mem[q]
      /\ \A q \in Procs \ {p} : pc'[q] = pc[q] /\ call'[q] = call[q]
      /\ disk \in Seq(Event) /\ \A q \in Procs : mem[q] \in Seq(Event)
      /\ faults \in Nat
  BY DEF Record, TypeOK
<1>2. /\ ShellExecutions(Append(disk, e)) = ShellExecutions(disk) + Indicator(e \in ShellEvents)
      /\ ShellExecutions(Append(mem[p], e)) = ShellExecutions(mem[p]) + Indicator(e \in ShellEvents)
      /\ ShellExecutions(disk) \in Nat /\ \A q \in Procs : ShellExecutions(mem[q]) \in Nat
  BY <1>1, ShellCount
<1>3. \A q \in Procs \ {p} : Unlogged(q)' = Unlogged(q)
  BY <1>1 DEF Unlogged
<1>4. Indicator(Unlogged(p)) <= Indicator(e \in ShellEvents)
  BY DEF Indicator
<1>5. \A b : Indicator(b) \in {0, 1}
  BY DEF Indicator
<1>6. CASE disk' = Append(disk, e) /\ pc' = [pc EXCEPT ![p] = then] /\ faults' = faults
  <2>1. pc'[p] = then /\ Indicator(Unlogged(p)') = 0
    BY <1>6 DEF Unlogged, TypeOK, Indicator
  <2>2. ASSUME NEW q \in Procs
        PROVE  /\ ShellExecutions(disk) + Indicator(Unlogged(q))
                   <= ShellExecutions(disk') + Indicator(Unlogged(q)')
               /\ pc'[q] # "down" =>
                   /\ pc[q] # "down"
                   /\ ShellExecutions(mem[q]) + Indicator(Unlogged(q))
                        <= ShellExecutions(mem'[q]) + Indicator(Unlogged(q)')
    <3>1. CASE q = p
      <4>0. Indicator(Unlogged(p)) \in {0, 1} /\ Indicator(e \in ShellEvents) \in {0, 1}
        BY <1>5
      <4>1. ShellExecutions(disk) + Indicator(Unlogged(p))
                   <= ShellExecutions(disk') + Indicator(Unlogged(p)')
        BY <1>2, <1>4, <1>6, <2>1, <4>0
      <4>2. ShellExecutions(mem[p]) + Indicator(Unlogged(p))
                        <= ShellExecutions(mem'[p]) + Indicator(Unlogged(p)')
        BY <1>1, <1>2, <1>4, <2>1, <4>0
      <4> QED
        BY <3>1, <4>1, <4>2
    <3>2. CASE q # p
      <4>0. Indicator(Unlogged(q)) \in {0, 1} /\ Indicator(e \in ShellEvents) \in {0, 1}
            /\ Indicator(Unlogged(q)') = Indicator(Unlogged(q))
        BY <1>3, <1>5, <3>2
      <4>1. ShellExecutions(disk) + Indicator(Unlogged(q))
                   <= ShellExecutions(disk') + Indicator(Unlogged(q)')
        BY <1>2, <1>6, <4>0
      <4> QED
        BY <1>1, <1>2, <3>2, <4>0, <4>1
    <3> QED
      BY <3>1, <3>2
  <2>3. faults <= faults'
    BY <1>1, <1>6
  <2> QED
    BY <2>2, <2>3, RecordsKeepShell
<1>7. CASE disk' = disk /\ pc' = [pc EXCEPT ![p] = "idle"] /\ faults' = faults + 1
  <2>1. ShellExecutions(mem[p]) <= ShellExecutions(mem'[p])
    BY <1>1, <1>2, <1>5
  <2>2. pc'[p] = "idle"
    BY <1>7 DEF TypeOK
  <2> QED
    BY <1>1, <1>7, <2>1, <2>2, LosingKeepsShell
<1> QED
  BY <1>6, <1>7 DEF Record

LEMMA ShellStep == OnceInv /\ RequestInv /\ ShellAccounts /\ [Next]_vars => ShellAccounts'
<1> SUFFICES ASSUME OnceInv, RequestInv, ShellAccounts, [Next]_vars PROVE ShellAccounts'
  OBVIOUS
<1>0. TypeOK /\ TypeOK'
  BY OnceStep DEF OnceInv, AuthInv
<1>00. /\ faults \in Nat /\ disk \in Seq(Event) /\ \A q \in Procs : mem[q] \in Seq(Event)
       /\ ShellExecutions(disk) \in Nat /\ \A q \in Procs : ShellExecutions(mem[q]) \in Nat
  BY <1>0, ShellCount DEF TypeOK
<1>1. ASSUME NEW p \in Procs, runs' = runs, disk' = disk, faults <= faults', ~Unlogged(p), ~Unlogged(p)',
             pc'[p] # "down" => mem'[p] = disk \/ (pc[p] # "down" /\ mem'[p] = mem[p]),
             \A q \in Procs \ {p} : pc'[q] = pc[q] /\ call'[q] = call[q] /\ mem'[q] = mem[q]
      PROVE  ShellAccounts'
  <2>1. \A q \in Procs : Indicator(Unlogged(q)') = Indicator(Unlogged(q))
                         /\ Indicator(Unlogged(q)) \in {0, 1}
    BY <1>1 DEF Unlogged, Indicator
  <2>2. \A q \in Procs :
          /\ ShellExecutions(disk) + Indicator(Unlogged(q))
                <= ShellExecutions(disk') + Indicator(Unlogged(q)')
          /\ pc'[q] # "down" =>
                \/ ShellExecutions(disk) + Indicator(Unlogged(q))
                     <= ShellExecutions(mem'[q]) + Indicator(Unlogged(q)')
                \/ /\ pc[q] # "down"
                   /\ ShellExecutions(mem[q]) + Indicator(Unlogged(q))
                        <= ShellExecutions(mem'[q]) + Indicator(Unlogged(q)')
    BY <1>00, <1>1, <2>1
  <2> QED
    BY <1>0, <1>1, <2>2, RecordsKeepShell
<1>2. ASSUME NEW p \in Procs, Open(p) \/ Close(p) \/ OtherAppendRaises(p) PROVE ShellAccounts'
  <2>1. /\ runs' = runs /\ disk' = disk /\ faults <= faults'
        /\ \A q \in Procs \ {p} : pc'[q] = pc[q] /\ call'[q] = call[q] /\ mem'[q] = mem[q]
    BY <1>0, <1>00, <1>2 DEF Open, Close, OtherAppendRaises, Leave, TypeOK
  <2>2. /\ pc[p] # "log_execution" /\ pc'[p] \in {"down", "idle"}
        /\ pc'[p] # "down" => mem'[p] = disk \/ (pc[p] # "down" /\ mem'[p] = mem[p])
    BY <1>0, <1>2 DEF Open, Close, OtherAppendRaises, Leave, TypeOK
  <2>3. ~Unlogged(p) /\ ~Unlogged(p)'
    BY <2>2 DEF Unlogged
  <2> QED
    BY <1>1, <2>1, <2>2, <2>3
<1>3. ASSUME NEW p \in Procs, Crash(p) PROVE ShellAccounts'
  <2>1. /\ runs' = runs /\ disk' = disk /\ faults' = faults + 1 /\ pc'[p] = "down"
        /\ \A q \in Procs \ {p} : pc'[q] = pc[q] /\ call'[q] = call[q] /\ mem'[q] = mem[q]
    BY <1>0, <1>3 DEF Crash, Leave, TypeOK
  <2> QED
    BY <1>0, <2>1, LosingKeepsShell
<1>4. ASSUME NEW p \in Procs, Handle(p) PROVE ShellAccounts'
  <2>1. PICK pid \in Pids, req \in Requests, confirm \in BOOLEAN :
          Record(p, ProposalEvent(pid, req), "decide",
                 [NoCall EXCEPT !.pid = pid, !.req = req, !.confirm = confirm])
    BY <1>4 DEF Handle
  <2>2. ~Unlogged(p) /\ pc[p] # "down" /\ runs' = runs
    BY <1>4 DEF Handle, Unlogged
  <2> QED
    BY <1>0, <2>1, <2>2, EventsAreEvents, RecordKeepsShell
<1>5. ASSUME NEW p \in Procs, Decide(p) PROVE ShellAccounts'
  <2> DEFINE d == Evaluate(mem[p], call[p].req)
             e == DecisionEvent(call[p].pid, d, "policy")
             then == AfterDecision(d, call[p].confirm)
  <2>1. pc[p] = "decide" /\ Record(p, e, then, call[p]) /\ runs' = runs
    BY <1>5 DEF Decide
  <2>2. e \in Event /\ then # "log_execution" /\ ~Unlogged(p)
    BY <1>0, <2>1, CallFields, EvaluateType, EventsAreEvents DEF AfterDecision, Unlogged
  <2> HIDE DEF e, then
  <2> QED
    BY <1>0, <2>1, <2>2, RecordKeepsShell
<1>6. ASSUME NEW p \in Procs, NEW pid \in Pids, NEW d \in {"approve", "deny"},
             NEW then \in {"execute", "idle"}, NEW locals, pc[p] \in {"idle", "confirm"},
             Record(p, DecisionEvent(pid, d, "operator"), then, locals), runs' = runs
      PROVE  ShellAccounts'
  <2>1. DecisionEvent(pid, d, "operator") \in Event /\ ~Unlogged(p)
    BY <1>6, EventsAreEvents DEF Decisions, Unlogged
  <2> QED
    BY <1>0, <1>6, <2>1, RecordKeepsShell
<1>7. ASSUME NEW p \in Procs, Confirm(p) \/ Approve(p) \/ Reject(p) PROVE ShellAccounts'
  <2>1. CASE Confirm(p)
    BY <1>0, <1>6, <2>1, CallFields DEF Confirm
  <2>2. CASE Approve(p)
    BY <1>6, <2>2 DEF Approve
  <2>3. CASE Reject(p)
    BY <1>6, <2>3 DEF Reject
  <2> QED
    BY <1>7, <2>1, <2>2, <2>3
<1>8. ASSUME NEW p \in Procs, LogExecution(p) PROVE ShellAccounts'
  <2> DEFINE e == ExecutionEvent(call[p].pid, call[p].req.action)
  <2>1. /\ e \in Event /\ e.kind = "execution" /\ e.action = call[p].req.action
    BY <1>0, <1>8, CallFields, EventsAreEvents DEF LogExecution, ExecutionEvent
  <2>2. /\ Record(p, e, "log_receipt", call[p]) /\ runs' = runs
        /\ pc[p] = "log_execution"
    BY <1>8 DEF LogExecution
  <2>3. Unlogged(p) => e \in ShellEvents
    BY <2>1 DEF Unlogged, IsShell, ShellEvents
  <2> HIDE DEF e
  <2> QED
    BY <1>0, <2>1, <2>2, <2>3, RecordKeepsShell
<1>9. ASSUME NEW p \in Procs, LogReceipt(p) PROVE ShellAccounts'
  <2> DEFINE e == ReceiptEvent(call[p].pid, call[p].success, call[p].undo)
  <2>1. e \in Event
    BY <1>0, <1>9, CallFields, EventsAreEvents DEF LogReceipt
  <2>2. /\ Record(p, e, "idle", NoCall) /\ runs' = runs /\ ~Unlogged(p) /\ pc[p] # "down"
    BY <1>9 DEF LogReceipt, Unlogged
  <2> HIDE DEF e
  <2> QED
    BY <1>0, <2>1, <2>2, RecordKeepsShell
<1>10. ASSUME UNCHANGED <<disk, mem, pc, call, runs, faults>> PROVE ShellAccounts'
  BY <1>10 DEF ShellAccounts, ShellRuns, Backed, Mine, Unlogged
<1>11. ASSUME UNCHANGED vars \/ \E p \in Procs : Rollback(p) PROVE ShellAccounts'
  <2>1. UNCHANGED <<disk, mem, pc, call, runs, faults>>
    BY <1>11 DEF vars, Rollback
  <2> QED
    BY <1>10, <2>1
<1> QED
  BY <1>0, <1>2, <1>3, <1>4, <1>5, <1>7, <1>8, <1>9, <1>11, ExecuteKeepsShell, RaisingKeepsShell
     DEF Next

(* The commands that are not lost, process by process.                     *)
LEMMA ShellTotal ==
    ASSUME TypeOK, NEW lost \in SUBSET ShellRuns, \A p \in Procs : Backed(p, lost)
    PROVE  Cardinality(ShellRuns \ lost) <= MaxShell * Cardinality(Procs)
<1> DEFINE Of(Q) == {i \in ShellRuns \ lost : runs[i].by \in Q}
           S == {n \in Nat : \A Q \in SUBSET Procs :
                    Cardinality(Q) = n => Cardinality(Of(Q)) <= MaxShell * n}
           N == Cardinality(Procs)
<1>1. N \in Nat /\ MaxShell \in Nat
  BY RuntimeConstants, KernelConstants, FS_CardinalityType
<1>2. \A Q \in SUBSET Procs : IsFiniteSet(Q) /\ Cardinality(Q) \in Nat
  BY RuntimeConstants, FS_Subset, FS_CardinalityType
<1>3. \A Q : IsFiniteSet(Of(Q)) /\ Cardinality(Of(Q)) \in Nat
  <2>1. \A Q : Of(Q) \in SUBSET ShellRuns
    OBVIOUS
  <2> QED
    BY <2>1, ShellRunsAreFinite
<1>4. 0 \in S
  <2> SUFFICES ASSUME NEW Q \in SUBSET Procs, Cardinality(Q) = 0
               PROVE  Cardinality(Of(Q)) <= MaxShell * 0
    OBVIOUS
  <2>1. Q = {}
    BY <1>2, FS_EmptySet
  <2>2. Cardinality(Of(Q)) = 0
    BY <2>1, FS_EmptySet
  <2> QED
    BY <1>1, <2>2
<1>5. ASSUME NEW n \in Nat, n \in S PROVE n + 1 \in S
  <2> SUFFICES ASSUME NEW Q \in SUBSET Procs, Cardinality(Q) = n + 1
               PROVE  Cardinality(Of(Q)) <= MaxShell * (n + 1)
    OBVIOUS
  <2>1. PICK p \in Q : TRUE
    <3>1. Cardinality({}) = 0 /\ n + 1 # 0
      BY FS_EmptySet
    <3> QED
      BY <3>1
  <2>2. Cardinality(Q \ {p}) = n
    BY <1>2, <2>1, FS_RemoveElement
  <2>3. Cardinality(Of(Q \ {p})) <= MaxShell * n
    BY <1>5, <2>2
  <2>4. Of(Q) = Of(Q \ {p}) \cup Mine(p, lost)
    BY <2>1 DEF Mine
  <2>5. Cardinality(Mine(p, lost)) <= MaxShell
    BY <2>1 DEF Backed
  <2>6. Of(Q \ {p}) \cap Mine(p, lost) = {}
    BY DEF Mine
  <2>7. Cardinality(Of(Q \ {p}) \cap Mine(p, lost)) = 0
    BY <2>6, FS_EmptySet
  <2>8. /\ Cardinality(Of(Q)) =
             Cardinality(Of(Q \ {p})) + Cardinality(Mine(p, lost))
               - Cardinality(Of(Q \ {p}) \cap Mine(p, lost))
        /\ Cardinality(Mine(p, lost)) \in Nat
    <3> HIDE DEF Of
    <3> QED
      BY <1>3, <2>4, ShellRunsAreFinite, FS_Union
  <2> DEFINE a == Cardinality(Of(Q))
             b == Cardinality(Of(Q \ {p}))
             c == Cardinality(Mine(p, lost))
  <2>9. /\ a \in Nat /\ b \in Nat /\ c \in Nat /\ MaxShell * n \in Nat
        /\ a = b + c /\ b <= MaxShell * n /\ c <= MaxShell
    <3> HIDE DEF Of
    <3>1. a \in Nat /\ b \in Nat /\ c \in Nat /\ MaxShell * n \in Nat
      BY <1>1, <1>3, <2>8
    <3>2. a = b + c
      BY <2>7, <2>8, <3>1
    <3> QED
      BY <2>3, <2>5, <3>1, <3>2
  <2>10. MaxShell * (n + 1) = MaxShell * n + MaxShell
    BY <1>1
  <2> HIDE DEF a, b, c
  <2>11. a <= MaxShell * (n + 1)
    BY <1>1, <2>9, <2>10
  <2> QED
    BY <2>11 DEF a
<1> HIDE DEF S, N
<1>6. 0..N \subseteq S
  BY <1>1, <1>4, <1>5, UpTo
<1>7. N \in S
  BY <1>1, <1>6
<1>8. Cardinality(Of(Procs)) <= MaxShell * N
  BY <1>7 DEF S, N
<1>9. Of(Procs) = ShellRuns \ lost
  <2>1. \A i \in ShellRuns : runs[i].by \in Procs
    BY RunFields DEF ShellRuns
  <2> QED
    BY <2>1
<1> QED
  BY <1>8, <1>9 DEF N

(* The commands run in the life of an event file are no more than what     *)
(* each process may see of the budget, and one per fault.                  *)
THEOREM ShellWithinBudget == Spec => []ShellBudgetHolds
<1>1. Init => ShellAccounts
  <2> SUFFICES ASSUME Init PROVE ShellAccounts
    OBVIOUS
  <2>1. ShellRuns = {} /\ \A p : Mine(p, {}) = {}
    BY DEF ShellRuns, Mine, Init
  <2>2. Cardinality({}) = 0
    BY FS_EmptySet
  <2>3. \A p \in Procs : pc[p] = "down" /\ ~Unlogged(p)
    BY DEF Init, Unlogged
  <2>4. ShellExecutions(disk) \in Nat
    <3>1. disk \in Seq(Event)
      BY DEF Init
    <3> QED
      BY <3>1, ShellCount
  <2>5. \A p \in Procs : Backed(p, {})
    <3>1. \A p \in Procs : Indicator(Unlogged(p)) = 0
      BY <2>3 DEF Indicator
    <3> TAKE p \in Procs
    <3>2. Cardinality(Mine(p, {})) = 0 /\ Indicator(Unlogged(p)) = 0 /\ pc[p] = "down"
      BY <2>1, <2>2, <2>3, <3>1
    <3>3. MaxShell \in Nat
      BY KernelConstants
    <3> DEFINE n == Cardinality(Mine(p, {}))
               u == Indicator(Unlogged(p))
    <3>4. n = 0 /\ u = 0
      BY <3>2
    <3> HIDE DEF n, u
    <3>5. n <= MaxShell /\ n <= ShellExecutions(disk) + u
      BY <2>4, <3>3, <3>4
    <3> QED
      BY <3>2, <3>5 DEF Backed, n, u
  <2>6. Cardinality({}) <= faults
    BY <2>2 DEF Init
  <2> QED
    BY <2>5, <2>6 DEF ShellAccounts
<1>2. OnceInv /\ ShellAccounts => ShellBudgetHolds
  <2> SUFFICES ASSUME OnceInv, ShellAccounts PROVE ShellBudgetHolds
    OBVIOUS
  <2>1. TypeOK
    BY DEF OnceInv, AuthInv
  <2>2. PICK lost \in SUBSET ShellRuns :
            Cardinality(lost) <= faults /\ \A p \in Procs : Backed(p, lost)
    BY DEF ShellAccounts
  <2>3. Cardinality(ShellRuns \ lost) <= MaxShell * Cardinality(Procs)
    BY <2>1, <2>2, ShellTotal
  <2>4. Cardinality(ShellRuns) = Cardinality(ShellRuns \ lost) + Cardinality(lost)
    <3>1. IsFiniteSet(ShellRuns) /\ IsFiniteSet(lost)
      BY <2>1, ShellRunsAreFinite
    <3>2. ShellRuns \cap lost = lost
      OBVIOUS
    <3>3. Cardinality(ShellRuns \ lost) = Cardinality(ShellRuns) - Cardinality(ShellRuns \cap lost)
      BY <3>1, FS_Difference
    <3>4. Cardinality(ShellRuns) \in Nat /\ Cardinality(lost) \in Nat
      BY <3>1, FS_CardinalityType
    <3>5. Cardinality(ShellRuns \cap lost) = Cardinality(lost)
      BY <3>2
    <3> QED
      BY <3>3, <3>4, <3>5
  <2>5. /\ Cardinality(ShellRuns \ lost) \in Nat /\ Cardinality(lost) \in Nat /\ faults \in Nat
        /\ MaxShell * Cardinality(Procs) \in Nat
    <3>1. ShellRuns \ lost \in SUBSET ShellRuns
      OBVIOUS
    <3>2. Cardinality(Procs) \in Nat /\ MaxShell \in Nat
      BY RuntimeConstants, KernelConstants, FS_CardinalityType
    <3> QED
      BY <2>1, <3>1, <3>2, ShellRunsAreFinite DEF TypeOK
  <2>6. Cardinality(ShellRuns) <= MaxShell * Cardinality(Procs) + faults
    BY <2>2, <2>3, <2>4, <2>5
  <2> QED
    BY <2>6 DEF ShellBudgetHolds, CountEvents, ShellRuns
<1> QED
  BY <1>1, <1>2, ShellStep, RequestAlways, OnceAlways, PTL DEF Spec
-----------------------------------------------------------------------------
(***************************************************************************)
(* LateHighRiskNeverRuns, for a file that one process writes.  A proposal  *)
(* is Early when the log that ends with it had room for another approval   *)
(* of high risk.  The policy asks for confirmation of early proposals      *)
(* only, because the list it counts in has at least the approvals of the   *)
(* file; and what it did not ask about is never approved.                  *)
(***************************************************************************)
EventsOf(L) == {L[i] : i \in DOMAIN L}

Early(pid) ==
    LET at == ProposedAt(disk, pid)
    IN at > 0 => HighRiskApprovals(SubSeq(disk, 1, at)) < MaxHighRisk

EarlyPids == {pid \in Pids : Early(pid)}

\* Whatever is counted in the file is counted in the list of who is up.
ViewHasAll ==
    \A p \in Procs : pc[p] # "down" =>
        /\ \A T \in SUBSET Event : CountOf(disk, T) <= CountOf(mem[p], T)
        /\ EventsOf(disk) \subseteq EventsOf(mem[p])

EarlyInv ==
    /\ ViewHasAll
    /\ \A i \in DOMAIN runs : IsHighRisk(runs[i].action) => runs[i].pid \in EarlyPids
    /\ \A p \in Procs :
          pc[p] \in {"confirm", "execute"} /\ IsHighRisk(call[p].req.action)
              => call[p].pid \in EarlyPids
    /\ \A f \in Told :
          f.kind = "policy_decision" /\ f.decision = "require_confirmation" => f.pid \in EarlyPids

(* The least element of a set of naturals is the one Min names.            *)
LEMMA MinOfNaturals ==
    ASSUME NEW S \in SUBSET Nat, S # {}
    PROVE  Min(S) \in S /\ \A s \in S : Min(S) <= s
<1>1. PICK m \in S : \A s \in S : ~(<<s, m>> \in OpToRel(<, Nat))
  BY NatLessThanWellFounded, WFMin
<1>2. \A s \in S : ~(s < m)
  BY <1>1 DEF OpToRel
<1>3. \A s \in S : m <= s
  BY <1>2
<1> QED
  BY <1>3 DEF Min

ProposalsIn(L, pid) == {i \in DOMAIN L : IsOf(L[i], "proposal", pid)}

(* The first proposal of a log.                                            *)
LEMMA ProposedAtIs ==
    ASSUME NEW L \in Seq(Event), NEW pid
    PROVE  /\ ProposalsIn(L, pid) = {} => ProposedAt(L, pid) = 0
           /\ ProposalsIn(L, pid) # {} =>
                 /\ ProposedAt(L, pid) \in ProposalsIn(L, pid)
                 /\ \A i \in ProposalsIn(L, pid) : ProposedAt(L, pid) <= i
           /\ ProposedAt(L, pid) \in 0..Len(L)
<1>1. DOMAIN L = 1..Len(L) /\ Len(L) \in Nat
  BY LenProperties
<1>2. ProposedAt(L, pid) = IF ProposalsIn(L, pid) # {} THEN Min(ProposalsIn(L, pid)) ELSE 0
  BY <1>1 DEF ProposedAt, SelectInSeq, ProposalsIn
<1>3. ProposalsIn(L, pid) \in SUBSET (1..Len(L)) /\ ProposalsIn(L, pid) \in SUBSET Nat
  BY <1>1 DEF ProposalsIn
<1> QED
  BY <1>1, <1>2, <1>3, MinOfNaturals

(* What a log shows up to a point counts no more than the whole log.       *)
LEMMA PrefixCounts ==
    ASSUME NEW L \in Seq(Event), NEW n \in 0..Len(L)
    PROVE  /\ SubSeq(L, 1, n) \in Seq(Event)
           /\ \A T : CountOf(SubSeq(L, 1, n), T) <= CountOf(L, T)
           /\ EventsOf(SubSeq(L, 1, n)) \subseteq EventsOf(L)
<1>1. /\ DOMAIN L = 1..Len(L) /\ Len(L) \in Nat /\ \A i \in 1..Len(L) : L[i] \in Event
  BY LenProperties, ElementOfSeq
<1> DEFINE P == SubSeq(L, 1, n)
<1>2. /\ P \in Seq(Event) /\ Len(P) = n /\ \A i \in 1..n : P[i] = L[i]
  BY <1>1, SubSeqProperties
<1> HIDE DEF P
<1>3. DOMAIN P = 1..n
  BY <1>2, LenProperties
<1>4. ASSUME NEW T PROVE CountOf(P, T) <= CountOf(L, T)
  <2>1. {i \in DOMAIN P : P[i] \in T} \subseteq {i \in DOMAIN L : L[i] \in T}
    BY <1>1, <1>2, <1>3
  <2>2. IsFiniteSet({i \in DOMAIN L : L[i] \in T})
    BY CountType
  <2> QED
    BY <2>1, <2>2, FS_Subset DEF CountOf
<1>5. EventsOf(P) \subseteq EventsOf(L)
  BY <1>1, <1>2, <1>3 DEF EventsOf
<1> QED
  BY <1>2, <1>4, <1>5 DEF P

(* The approvals the budget counts, when every list tells the same         *)
(* requests.                                                               *)
HighPids(L) ==
    {pid \in Pids : \E f \in EventsOf(L) : Proposes(f, pid) /\ IsHighRisk(f.req.action)}

ApprovalsFor(S) == {e \in Event : e.kind = "policy_decision" /\ e.decision = "approve" /\ e.pid \in S}

LEMMA HighRiskCount ==
    ASSUME OneRequest, NEW L \in Seq(Event), EventsOf(L) \subseteq Told
    PROVE  HighRiskApprovals(L) = CountOf(L, ApprovalsFor(HighPids(L)))
<1>1. \A i \in DOMAIN L : L[i] \in Event /\ L[i] \in EventsOf(L)
  BY LenProperties, ElementOfSeq DEF EventsOf
<1>2. ASSUME NEW pid \in Pids
      PROVE  (Holds(L, "proposal", pid) /\ IsHighRisk(RequestOf(L, pid).action)) <=> pid \in HighPids(L)
  <2>1. ASSUME Holds(L, "proposal", pid)
        PROVE  \E f \in EventsOf(L) : Proposes(f, pid) /\ f.req = RequestOf(L, pid)
    <3>1. PICK i \in DOMAIN L : IsOf(L[i], "proposal", pid) /\ FindLatest(L, "proposal", pid) = L[i]
      BY <2>1, FindLatestIs
    <3> QED
      BY <1>1, <3>1 DEF Proposes, IsOf, RequestOf
  <2>2. ASSUME pid \in HighPids(L) PROVE Holds(L, "proposal", pid)
    BY <2>2 DEF HighPids, EventsOf, Proposes, Holds, Occurrences, IsOf
  <2>3. \A f, g \in EventsOf(L) : Proposes(f, pid) /\ Proposes(g, pid) => f.req = g.req
    BY DEF OneRequest, Proposes
  <2>4. ASSUME Holds(L, "proposal", pid)
        PROVE  IsHighRisk(RequestOf(L, pid).action) <=> pid \in HighPids(L)
    BY <2>1, <2>3, <2>4 DEF HighPids
  <2> QED
    BY <2>2, <2>4
<1>3. ASSUME NEW i \in DOMAIN L
      PROVE  (/\ L[i].kind = "policy_decision" /\ L[i].decision = "approve"
              /\ Holds(L, "proposal", L[i].pid) /\ IsHighRisk(RequestOf(L, L[i].pid).action))
                 <=> L[i] \in ApprovalsFor(HighPids(L))
  <2>1. L[i].pid \in Pids
    BY <1>1 DEF Event
  <2> QED
    BY <1>1, <1>2, <2>1 DEF ApprovalsFor
<1>4. {i \in DOMAIN L :
          /\ L[i].kind = "policy_decision" /\ L[i].decision = "approve"
          /\ Holds(L, "proposal", L[i].pid) /\ IsHighRisk(RequestOf(L, L[i].pid).action)}
        = {i \in DOMAIN L : L[i] \in ApprovalsFor(HighPids(L))}
  BY <1>3
<1> QED
  BY <1>4 DEF HighRiskApprovals, CountEvents, CountOf

(* A log whose events another one has, as often, has no more of them.      *)
LEMMA HighRiskMonotone ==
    ASSUME OneRequest, NEW L \in Seq(Event), NEW M \in Seq(Event),
           EventsOf(L) \subseteq EventsOf(M), EventsOf(M) \subseteq Told,
           \A T \in SUBSET Event : CountOf(L, T) <= CountOf(M, T)
    PROVE  /\ HighRiskApprovals(L) \in Nat /\ HighRiskApprovals(M) \in Nat
           /\ HighRiskApprovals(L) <= HighRiskApprovals(M)
<1>1. HighPids(L) \subseteq HighPids(M)
  BY DEF HighPids
<1>2. ApprovalsFor(HighPids(L)) \subseteq ApprovalsFor(HighPids(M))
      /\ ApprovalsFor(HighPids(L)) \in SUBSET Event
  BY <1>1 DEF ApprovalsFor
<1>3. CountOf(M, ApprovalsFor(HighPids(L))) <= CountOf(M, ApprovalsFor(HighPids(M)))
  <2> DEFINE A == {i \in DOMAIN M : M[i] \in ApprovalsFor(HighPids(L))}
             B == {i \in DOMAIN M : M[i] \in ApprovalsFor(HighPids(M))}
  <2>1. A \subseteq B /\ IsFiniteSet(B)
    BY <1>2, CountType
  <2> QED
    BY <2>1, FS_Subset DEF CountOf
<1>4. CountOf(L, ApprovalsFor(HighPids(L))) <= CountOf(M, ApprovalsFor(HighPids(L)))
  BY <1>2
<1>5. /\ HighRiskApprovals(L) = CountOf(L, ApprovalsFor(HighPids(L)))
      /\ HighRiskApprovals(M) = CountOf(M, ApprovalsFor(HighPids(M)))
  BY HighRiskCount
<1>6. /\ CountOf(L, ApprovalsFor(HighPids(L))) \in Nat
      /\ CountOf(M, ApprovalsFor(HighPids(L))) \in Nat
      /\ CountOf(M, ApprovalsFor(HighPids(M))) \in Nat
  BY CountType
<1> DEFINE a == CountOf(L, ApprovalsFor(HighPids(L)))
           b == CountOf(M, ApprovalsFor(HighPids(L)))
           c == CountOf(M, ApprovalsFor(HighPids(M)))
<1>7. a \in Nat /\ b \in Nat /\ c \in Nat /\ a <= b /\ b <= c
  BY <1>3, <1>4, <1>6
<1> HIDE DEF a, b, c
<1>8. a <= c
  BY <1>7
<1> QED
  BY <1>5, <1>7, <1>8 DEF a, c

(* What is written after a proposal does not change whether it is early.   *)
LEMMA EarlyPersists ==
    ASSUME TypeOK, NEW pid \in EarlyPids, NEW e \in Event, ~IsOf(e, "proposal", pid),
           disk' = disk \/ disk' = Append(disk, e)
    PROVE  pid \in EarlyPids'
<1>1. CASE disk' = disk
  BY <1>1 DEF EarlyPids, Early
<1>2. CASE disk' = Append(disk, e)
  <2> DEFINE M == Append(disk, e)
             S == ProposalsIn(disk, pid)
             at == ProposedAt(disk, pid)
  <2>1. /\ disk \in Seq(Event) /\ DOMAIN disk = 1..Len(disk) /\ Len(disk) \in Nat
        /\ M \in Seq(Event) /\ Len(M) = Len(disk) + 1 /\ DOMAIN M = 1..(Len(disk) + 1)
        /\ \A i \in 1..Len(disk) : M[i] = disk[i]
        /\ M[Len(disk) + 1] = e
    BY AppendProperties, LenProperties DEF TypeOK
  <2> HIDE DEF M
  <2>2. ProposalsIn(M, pid) = S
    BY <2>1 DEF ProposalsIn
  <2>3. /\ S # {} => at \in S /\ \A i \in S : at <= i
        /\ S = {} => at = 0
        /\ at \in 0..Len(disk) /\ at \in Nat
        /\ S # {} => ProposedAt(M, pid) \in S /\ \A i \in S : ProposedAt(M, pid) <= i
        /\ S = {} => ProposedAt(M, pid) = 0
        /\ ProposedAt(M, pid) \in Nat
    BY <2>1, <2>2, ProposedAtIs
  <2> HIDE DEF S, at
  <2>4. ProposedAt(M, pid) = at
    BY <2>3
  <2>5. SubSeq(M, 1, at) = SubSeq(disk, 1, at)
    <3>1. \A i \in 1..at : disk[i] \in Event /\ M[i] = disk[i]
      <4>1. \A i \in 1..at : i \in 1..Len(disk)
        BY <2>1, <2>3
      <4> QED
        BY <2>1, <4>1, ElementOfSeq
    <3>2. /\ SubSeq(M, 1, at) \in Seq(Event) /\ SubSeq(disk, 1, at) \in Seq(Event)
          /\ Len(SubSeq(M, 1, at)) = at /\ Len(SubSeq(disk, 1, at)) = at
          /\ \A i \in 1..at : SubSeq(M, 1, at)[i] = SubSeq(disk, 1, at)[i]
      BY <2>3, <3>1, SubSeqProperties
    <3> QED
      BY <3>2, SeqEqual
  <2>6. disk' = M
    BY <1>2 DEF M
  <2> QED
    BY <2>4, <2>5, <2>6 DEF EarlyPids, Early, at
<1> QED
  BY <1>1, <1>2

(* The policy only asks to confirm what is early.                          *)
LEMMA AskedIsEarly ==
    ASSUME TypeOK, OneRequest, ViewHasAll, NEW p \in Procs, pc[p] = "decide",
           Evaluate(mem[p], call[p].req) = "require_confirmation",
           NEW pid \in Pids
    PROVE  pid \in EarlyPids
<1> DEFINE n == ProposedAt(disk, pid)
           P == SubSeq(disk, 1, n)
<1>1. disk \in Seq(Event) /\ mem[p] \in Seq(Event) /\ MaxHighRisk \in Nat
  BY KernelConstants DEF TypeOK
<1>2. n \in 0..Len(disk)
  BY <1>1, ProposedAtIs
<1> HIDE DEF n
<1>3. /\ P \in Seq(Event)
      /\ \A T : CountOf(P, T) <= CountOf(disk, T)
      /\ EventsOf(P) \subseteq EventsOf(disk)
  BY <1>1, <1>2, PrefixCounts
<1> HIDE DEF P
<1>4. /\ \A T \in SUBSET Event : CountOf(disk, T) <= CountOf(mem[p], T)
      /\ EventsOf(disk) \subseteq EventsOf(mem[p])
  BY DEF ViewHasAll
<1>5. \A T \in SUBSET Event : CountOf(P, T) <= CountOf(mem[p], T)
  <2> TAKE T \in SUBSET Event
  <2>1. CountOf(P, T) \in Nat /\ CountOf(disk, T) \in Nat /\ CountOf(mem[p], T) \in Nat
    BY <1>1, <1>3, CountType
  <2>2. CountOf(P, T) <= CountOf(disk, T) /\ CountOf(disk, T) <= CountOf(mem[p], T)
    BY <1>3, <1>4
  <2> QED
    BY <2>1, <2>2
<1>6. EventsOf(mem[p]) \subseteq Told
  BY LogsAreLogs DEF EventsOf, Told
<1>7. EventsOf(P) \subseteq EventsOf(mem[p])
  BY <1>3, <1>4
<1>8. /\ HighRiskApprovals(P) \in Nat /\ HighRiskApprovals(mem[p]) \in Nat
      /\ HighRiskApprovals(P) <= HighRiskApprovals(mem[p])
  BY <1>1, <1>3, <1>5, <1>6, <1>7, HighRiskMonotone
<1>9. HighRiskApprovals(mem[p]) < MaxHighRisk
  <2>1. call[p].req.action = "delete_file" /\ WithinBudget(mem[p], call[p].req)
    <3>1. Evaluate(mem[p], call[p].req) = "require_confirmation" => WithinBudget(mem[p], call[p].req)
      BY DEF Evaluate
    <3> QED
      BY <3>1, ShellDecision
  <2> QED
    BY <2>1 DEF WithinBudget, IsHighRisk, Risk
<1>10. HighRiskApprovals(P) < MaxHighRisk
  BY <1>1, <1>8, <1>9
<1> QED
  BY <1>10 DEF EarlyPids, Early, P, n

(* What is asked of an append: that a proposal is new; that confirmation   *)
(* is asked, and a call of high risk goes on to confirm or execute, for    *)
(* early proposals only.                                                   *)
LEMMA RecordKeepsEarly ==
    ASSUME OnceInv, EarlyInv, NEW p, Procs = {p}, NEW e \in Event, NEW then, NEW locals,
           Record(p, e, then, locals), runs' = runs, pc[p] # "down", then # "down",
           e.kind = "proposal" => e.pid \notin issued,
           e.kind = "policy_decision" /\ e.decision = "require_confirmation"
              => e.pid \in EarlyPids \cap issued,
           then \in {"confirm", "execute"} =>
              /\ e.kind # "proposal"
              /\ IsHighRisk(locals.req.action) => locals.pid \in EarlyPids
    PROVE  EarlyInv'
<1>1. TypeOK
  BY DEF OnceInv, AuthInv
<1>2. /\ mem'[p] = Append(mem[p], e)
      /\ disk' = disk \/ disk' = Append(disk, e)
      /\ pc'[p] = "idle" \/ (pc'[p] = then /\ call'[p] = locals)
      /\ disk \in Seq(Event) /\ mem[p] \in Seq(Event)
  BY <1>1 DEF Record, TypeOK
<1>3. \A pid \in issued : ~IsOf(e, "proposal", pid)
  BY DEF IsOf
<1>4. \A pid \in EarlyPids \cap issued : pid \in EarlyPids'
  <2> TAKE pid \in EarlyPids \cap issued
  <2>1. ~IsOf(e, "proposal", pid)
    BY <1>3
  <2> QED
    BY <1>1, <1>2, <2>1, EarlyPersists
<1>5. ViewHasAll'
  <2>1. /\ \A T \in SUBSET Event : CountOf(disk, T) <= CountOf(mem[p], T)
        /\ EventsOf(disk) \subseteq EventsOf(mem[p])
    BY DEF EarlyInv, ViewHasAll
  <2>2. ASSUME NEW T \in SUBSET Event PROVE CountOf(disk', T) <= CountOf(mem'[p], T)
    <3> DEFINE a == CountOf(disk, T)
               b == CountOf(mem[p], T)
               i == Indicator(e \in T)
    <3>1. a \in Nat /\ b \in Nat /\ i \in {0, 1} /\ a <= b
      BY <1>2, <2>1, CountType DEF Indicator
    <3>2. /\ CountOf(Append(disk, e), T) = a + i
          /\ CountOf(Append(mem[p], e), T) = b + i
      BY <1>2, CountAppend
    <3> HIDE DEF a, b, i
    <3>3. CountOf(disk', T) \in {a, a + i} /\ CountOf(mem'[p], T) = b + i
      BY <1>2, <3>2 DEF a
    <3> QED
      BY <3>1, <3>3
  <2>3. EventsOf(disk') \subseteq EventsOf(mem'[p])
    <3>1. /\ EventsOf(Append(disk, e)) = EventsOf(disk) \cup {e}
          /\ EventsOf(Append(mem[p], e)) = EventsOf(mem[p]) \cup {e}
      BY <1>2, ToldAppend DEF EventsOf
    <3> QED
      BY <1>2, <2>1, <3>1
  <2> QED
    BY <2>2, <2>3 DEF ViewHasAll
<1>6. \A i \in DOMAIN runs' : IsHighRisk(runs'[i].action) => runs'[i].pid \in EarlyPids'
  BY <1>4 DEF OnceInv, LogsAreOfIssued, EarlyInv
<1>7. \A q \in Procs :
          pc'[q] \in {"confirm", "execute"} /\ IsHighRisk(call'[q].req.action)
              => call'[q].pid \in EarlyPids'
  <2> SUFFICES ASSUME pc'[p] \in {"confirm", "execute"}, IsHighRisk(call'[p].req.action)
               PROVE  call'[p].pid \in EarlyPids'
    OBVIOUS
  <2>1. pc'[p] = then /\ call'[p] = locals /\ locals.pid \in EarlyPids /\ e.kind # "proposal"
    BY <1>2
  <2>2. \A pid : ~IsOf(e, "proposal", pid)
    BY <2>1 DEF IsOf
  <2>3. \A pid \in EarlyPids : pid \in EarlyPids'
    BY <1>1, <1>2, <2>2, EarlyPersists
  <2> QED
    BY <2>1, <2>3
<1>8. \A f \in Told' :
          f.kind = "policy_decision" /\ f.decision = "require_confirmation" => f.pid \in EarlyPids'
  <2> SUFFICES ASSUME NEW f \in Told',
                      f.kind = "policy_decision", f.decision = "require_confirmation"
               PROVE  f.pid \in EarlyPids'
    OBVIOUS
  <2>1. f \in Told \/ f = e
    <3>1. \A M \in Logs' : M \in Logs \/ \E L \in Logs : M = Append(L, e)
      BY <1>2 DEF Logs
    <3>2. PICK M \in Logs' : \E i \in DOMAIN M : f = M[i]
      BY DEF Told
    <3>3. CASE M \in Logs
      BY <3>2, <3>3, ToldIsLogs
    <3>4. ASSUME NEW L \in Logs, M = Append(L, e) PROVE f \in Told \/ f = e
      <4>1. f \in {L[j] : j \in DOMAIN L} \cup {e}
        BY <1>1, <3>2, <3>4, LogsAreLogs, ToldAppend
      <4> QED
        BY <4>1, ToldIsLogs
    <3> QED
      BY <3>1, <3>2, <3>3, <3>4
  <2>2. f.pid \in EarlyPids \cap issued
    <3>1. CASE f = e
      BY <3>1
    <3>2. CASE f \in Told
      BY <3>2 DEF Told, OnceInv, LogsAreOfIssued, EarlyInv
    <3> QED
      BY <2>1, <3>1, <3>2
  <2> QED
    BY <1>4, <2>2
<1> QED
  BY <1>5, <1>6, <1>7, <1>8 DEF EarlyInv

(* A step that writes no event: the process opens, leaves, gives up or     *)
(* runs what it had leave to run.                                          *)
LEMMA SilentKeepsEarly ==
    ASSUME OnceInv, EarlyInv, NEW p, Procs = {p}, disk' = disk,
           pc'[p] # "down" => mem'[p] = disk \/ (pc[p] # "down" /\ mem'[p] = mem[p]),
           pc'[p] \notin {"confirm", "execute"}, mem'[p] \in {disk, mem[p], <<>>},
           \/ runs' = runs
           \/ \E r \in Run : /\ runs' = Append(runs, r)
                             /\ IsHighRisk(r.action) => r.pid \in EarlyPids
    PROVE  EarlyInv'
<1>1. TypeOK /\ disk \in Seq(Event) /\ mem[p] \in Seq(Event)
  BY DEF OnceInv, AuthInv, TypeOK
<1>2. EarlyPids' = EarlyPids
  BY DEF EarlyPids, Early
<1>3. ViewHasAll'
  <2>1. \A T \in SUBSET Event : CountOf(disk, T) <= CountOf(disk, T)
    <3> TAKE T \in SUBSET Event
    <3>1. CountOf(disk, T) \in Nat
      BY <1>1, CountType
    <3> QED
      BY <3>1
  <2> QED
    BY <2>1 DEF EarlyInv, ViewHasAll
<1>4. \A i \in DOMAIN runs' : IsHighRisk(runs'[i].action) => runs'[i].pid \in EarlyPids
  <2>1. CASE runs' = runs
    BY <2>1 DEF EarlyInv
  <2>2. ASSUME NEW r \in Run, runs' = Append(runs, r), IsHighRisk(r.action) => r.pid \in EarlyPids
        PROVE  \A i \in DOMAIN runs' : IsHighRisk(runs'[i].action) => runs'[i].pid \in EarlyPids
    <3>1. /\ DOMAIN runs = 1..Len(runs) /\ Len(runs) \in Nat
          /\ DOMAIN runs' = 1..(Len(runs) + 1)
          /\ \A i \in 1..Len(runs) : runs'[i] = runs[i]
          /\ runs'[Len(runs) + 1] = r
      BY <1>1, <2>2, AppendProperties, LenProperties DEF TypeOK
    <3>2. \A i \in DOMAIN runs' : runs'[i] = r \/ (i \in DOMAIN runs /\ runs'[i] = runs[i])
      BY <3>1
    <3> QED
      BY <2>2, <3>2 DEF EarlyInv
  <2> QED
    BY <2>1, <2>2
<1>5. \A M \in Logs' : M \in Logs \/ M = <<>>
  BY DEF Logs
<1>6. \A f \in Told' : f \in Told
  BY <1>5 DEF Told
<1> QED
  BY <1>2, <1>3, <1>4, <1>6 DEF EarlyInv

LEMMA EarlyStep ==
    ASSUME NEW p, Procs = {p}
    PROVE  OnceInv /\ RequestInv /\ EarlyInv /\ [Next]_vars => EarlyInv'
<1> SUFFICES ASSUME OnceInv, RequestInv, EarlyInv, [Next]_vars PROVE EarlyInv'
  OBVIOUS
<1>0. TypeOK /\ p \in Procs
  BY DEF OnceInv, AuthInv
<1>1. ASSUME Open(p) \/ Close(p) \/ Crash(p) \/ OtherAppendRaises(p) PROVE EarlyInv'
  <2>1. /\ disk' = disk /\ runs' = runs /\ pc'[p] \in {"down", "idle"}
        /\ mem'[p] \in {disk, mem[p], <<>>}
        /\ pc'[p] # "down" => mem'[p] = disk \/ (pc[p] # "down" /\ mem'[p] = mem[p])
    BY <1>0, <1>1 DEF Open, Close, Crash, OtherAppendRaises, Leave, TypeOK
  <2> QED
    BY <2>1, SilentKeepsEarly
<1>2. ASSUME Execute(p) \/ ToolRaises(p) PROVE EarlyInv'
  <2>1. /\ pc[p] = "execute" /\ disk' = disk /\ mem' = mem
        /\ pc'[p] \in {"log_execution", "idle"}
    BY <1>0, <1>2 DEF Execute, ToolRaises, TypeOK
  <2>2. \E post : runs' = Append(runs, RunEntry(p, call[p].req, post)) /\ post \in FileState
    BY <1>0, <1>2, <2>1, CallFields DEF Execute, ToolRaises, FileAfter, FileState, TypeOK
  <2>3. PICK post : runs' = Append(runs, RunEntry(p, call[p].req, post)) /\ post \in FileState
    BY <2>2
  <2> DEFINE r == RunEntry(p, call[p].req, post)
  <2>4. r \in Run /\ r.action = call[p].req.action /\ r.pid = call[p].pid
    BY <1>0, <2>1, <2>3, CallFields DEF RunEntry, Run, TypeOK
  <2>5. runs' = Append(runs, r)
    BY <2>3
  <2> HIDE DEF r
  <2>6. IsHighRisk(r.action) => r.pid \in EarlyPids
    BY <1>0, <2>1, <2>4 DEF EarlyInv
  <2> QED
    BY <2>1, <2>4, <2>5, <2>6, SilentKeepsEarly
<1>3. ASSUME Handle(p) PROVE EarlyInv'
  <2>1. PICK pid \in Pids \ issued, req \in Requests, confirm \in BOOLEAN :
          Record(p, ProposalEvent(pid, req), "decide",
                 [NoCall EXCEPT !.pid = pid, !.req = req, !.confirm = confirm])
    BY <1>3 DEF Handle
  <2> DEFINE e == ProposalEvent(pid, req)
  <2>2. e \in Event /\ e.kind = "proposal" /\ e.pid \notin issued
    BY <2>1, EventsAreEvents DEF ProposalEvent
  <2>3. runs' = runs /\ pc[p] # "down"
    BY <1>3 DEF Handle
  <2> HIDE DEF e
  <2> QED
    BY <2>1, <2>2, <2>3, RecordKeepsEarly DEF e
<1>4. ASSUME Decide(p) PROVE EarlyInv'
  <2> DEFINE d == Evaluate(mem[p], call[p].req)
             e == DecisionEvent(call[p].pid, d, "policy")
             then == AfterDecision(d, call[p].confirm)
  <2>1. pc[p] = "decide" /\ Record(p, e, then, call[p]) /\ runs' = runs
    BY <1>4 DEF Decide
  <2>2. e \in Event /\ e.kind = "policy_decision" /\ e.pid = call[p].pid /\ e.decision = d
    BY <1>0, <2>1, CallFields, EvaluateType, EventsAreEvents DEF DecisionEvent
  <2>3. /\ then # "down"
        /\ then = "execute" => d = "approve"
        /\ then = "confirm" => d = "require_confirmation"
    BY DEF AfterDecision
  <2>4. call[p].pid \in issued
    BY <1>0, <2>1 DEF OnceInv, LogsAreOfIssued
  <2>5. d = "require_confirmation" => call[p].pid \in EarlyPids
    BY <1>0, <2>1, CallFields, AskedIsEarly DEF EarlyInv, RequestInv
  <2>6. d = "approve" => ~IsHighRisk(call[p].req.action)
    BY <1>0, <2>1, CallFields, PolicyNeverApprovesHighRisk
  <2> HIDE DEF d, e, then
  <2> QED
    BY <2>1, <2>2, <2>3, <2>4, <2>5, <2>6, RecordKeepsEarly
<1>5. ASSUME NEW pid \in Pids, NEW locals, pc[p] # "down", runs' = runs,
             locals.pid = pid, pid \in EarlyPids,
             Record(p, DecisionEvent(pid, "approve", "operator"), "execute", locals)
      PROVE  EarlyInv'
  <2> DEFINE e == DecisionEvent(pid, "approve", "operator")
  <2>1. e \in Event /\ e.kind = "policy_decision" /\ e.decision = "approve"
    BY EventsAreEvents DEF Decisions, DecisionEvent
  <2>2. Record(p, e, "execute", locals)
    BY <1>5
  <2> HIDE DEF e
  <2> QED
    BY <1>5, <2>1, <2>2, RecordKeepsEarly
<1>6. ASSUME Confirm(p) PROVE EarlyInv'
  <2>1. call[p].pid \in Pids /\ call[p].pid \in EarlyPids
    <3>1. call[p].req.action = "delete_file" /\ call[p].pid \in Pids
      BY <1>0, <1>6, CallFields DEF Confirm, RequestInv, OnlyDeletesAwait
    <3>2. IsHighRisk(call[p].req.action)
      BY <3>1 DEF IsHighRisk, Risk
    <3> QED
      BY <1>0, <1>6, <3>1, <3>2 DEF Confirm, EarlyInv
  <2> QED
    BY <1>5, <1>6, <2>1 DEF Confirm
<1>7. ASSUME Approve(p) PROVE EarlyInv'
  <2>1. PICK pid \in Pids :
          /\ Awaiting(mem[p], pid)
          /\ Record(p, DecisionEvent(pid, "approve", "operator"), "execute",
                    [NoCall EXCEPT !.pid = pid, !.req = RequestOf(mem[p], pid), !.confirm = TRUE])
    BY <1>7 DEF Approve
  <2> DEFINE locals == [NoCall EXCEPT !.pid = pid, !.req = RequestOf(mem[p], pid),
                                      !.confirm = TRUE]
  <2>2. locals.pid = pid
    BY DEF NoCall
  <2>3. pid \in EarlyPids
    <3>1. mem[p] \in Logs /\ Asked(mem[p], pid)
      BY <1>0, <2>1, LogsAreLogs, AwaitingIsDeletion
    <3>2. PICK j \in DOMAIN mem[p] : Decides(mem[p][j], pid, "require_confirmation")
      BY <3>1 DEF Asked
    <3>3. mem[p][j] \in Told
      BY <3>1, ToldIsLogs
    <3> QED
      BY <3>2, <3>3 DEF EarlyInv, Decides
  <2>4. Record(p, DecisionEvent(pid, "approve", "operator"), "execute", locals)
        /\ pc[p] # "down" /\ runs' = runs
    BY <1>7, <2>1 DEF Approve
  <2> HIDE DEF locals
  <2> QED
    BY <1>5, <2>2, <2>3, <2>4
<1>8. ASSUME NEW e \in Event, NEW then \in {"idle", "log_receipt"}, NEW locals,
             Record(p, e, then, locals), runs' = runs, pc[p] # "down", e.kind # "proposal",
             ~(e.kind = "policy_decision" /\ e.decision = "require_confirmation")
      PROVE  EarlyInv'
  BY <1>8, RecordKeepsEarly
<1>9. ASSUME Reject(p) PROVE EarlyInv'
  <2>1. PICK pid \in Pids : Record(p, DecisionEvent(pid, "deny", "operator"), "idle", NoCall)
    BY <1>9 DEF Reject
  <2> DEFINE e == DecisionEvent(pid, "deny", "operator")
  <2>2. e \in Event /\ e.kind = "policy_decision" /\ e.decision = "deny"
    BY EventsAreEvents DEF Decisions, DecisionEvent
  <2>3. Record(p, e, "idle", NoCall) /\ pc[p] # "down" /\ runs' = runs
    BY <1>9, <2>1 DEF Reject
  <2> HIDE DEF e
  <2> QED
    BY <1>8, <2>2, <2>3
<1>10. ASSUME LogExecution(p) PROVE EarlyInv'
  <2> DEFINE e == ExecutionEvent(call[p].pid, call[p].req.action)
  <2>1. e \in Event /\ e.kind = "execution"
    BY <1>0, <1>10, CallFields, EventsAreEvents DEF LogExecution, ExecutionEvent
  <2>2. Record(p, e, "log_receipt", call[p]) /\ pc[p] # "down" /\ runs' = runs
    BY <1>10 DEF LogExecution
  <2> HIDE DEF e
  <2> QED
    BY <1>8, <2>1, <2>2
<1>11. ASSUME LogReceipt(p) PROVE EarlyInv'
  <2> DEFINE e == ReceiptEvent(call[p].pid, call[p].success, call[p].undo)
  <2>1. e \in Event /\ e.kind = "receipt"
    BY <1>0, <1>11, CallFields, EventsAreEvents DEF LogReceipt, ReceiptEvent
  <2>2. Record(p, e, "idle", NoCall) /\ pc[p] # "down" /\ runs' = runs
    BY <1>11 DEF LogReceipt
  <2> HIDE DEF e
  <2> QED
    BY <1>8, <2>1, <2>2
<1>12. ASSUME UNCHANGED vars \/ Rollback(p) PROVE EarlyInv'
  <2>1. UNCHANGED <<disk, mem, pc, call, runs>>
    BY <1>12 DEF vars, Rollback
  <2>2. EarlyPids' = EarlyPids /\ Told' = Told
    BY <2>1 DEF EarlyPids, Early, Told, Logs
  <2> QED
    BY <2>1, <2>2 DEF EarlyInv, ViewHasAll
<1> QED
  BY <1>1, <1>2, <1>3, <1>4, <1>6, <1>7, <1>9, <1>10, <1>11, <1>12 DEF Next

(* When one process writes the file, both budgets bound what runs, through *)
(* any confirmations, approvals, crashes and lost commits: once the        *)
(* high-risk budget is used up no later proposal of high risk ever runs.   *)
THEOREM BudgetsKept == ASSUME NEW p, Procs = {p} PROVE Spec => []BudgetsHold
<1>1. Init => EarlyInv
  <2> SUFFICES ASSUME Init PROVE EarlyInv
    OBVIOUS
  <2>1. Told = {}
    BY DEF Told, Logs, Init
  <2> QED
    BY <2>1 DEF Init, EarlyInv, ViewHasAll
<1>2. OnceInv /\ EarlyInv => LateHighRiskNeverRuns
  <2> SUFFICES ASSUME OnceInv, EarlyInv, NEW i \in DOMAIN runs, IsHighRisk(runs[i].action)
               PROVE  Early(runs[i].pid)
    BY DEF LateHighRiskNeverRuns, Early
  <2> QED
    BY DEF EarlyInv, EarlyPids
<1>3. OnceInv /\ RequestInv /\ EarlyInv /\ [Next]_vars => EarlyInv'
  BY EarlyStep
<1>4. ShellBudgetHolds /\ LateHighRiskNeverRuns => BudgetsHold
  BY DEF BudgetsHold
<1> QED
  BY <1>1, <1>2, <1>3, <1>4, ShellWithinBudget, RequestAlways, OnceAlways, PTL DEF Spec
-----------------------------------------------------------------------------
(***************************************************************************)
(* ImplementsLifecycle: one process, whatever it is asked and whatever     *)
(* fails, takes each proposal through the lifecycle ProposalLifecycle      *)
(* promises the operator.  The invariant says what the file tells of the   *)
(* proposal of a call at each of its stages; a call that is under way has  *)
(* had all of its commits.                                                 *)
(***************************************************************************)
\* StatusOf of any log.
StatusIn(L, pid) ==
    IF Holds(L, "proposal", pid) /\ Holds(L, "receipt", pid) THEN "completed"
    ELSE IF LatestDecision(L, pid) = "approve" THEN "approved"
    ELSE IF ~Holds(L, "proposal", pid) THEN "none"
    ELSE IF LatestDecision(L, pid) = "require_confirmation" THEN "pending"
    ELSE IF LatestDecision(L, pid) = "deny" THEN "denied"
    ELSE "proposed"

Verdict(decision) ==
    IF decision = "approve" THEN "approved"
    ELSE IF decision = "deny" THEN "denied" ELSE "pending"

Ran == {runs[i].pid : i \in DOMAIN runs}

Unanswered == {"proposed", "pending"}

LifeInv ==
    /\ \A p \in Procs :
          /\ pc[p] = "decide" => StatusIn(disk, call[p].pid) = "proposed"
          /\ pc[p] = "confirm" => StatusIn(disk, call[p].pid) = "pending"
          /\ pc[p] \in {"execute", "log_execution", "log_receipt"}
                => StatusIn(disk, call[p].pid) = "approved"
          /\ pc[p] \in {"log_execution", "log_receipt"} => call[p].pid \in Ran
          /\ pc[p] # "down" => \A pid \in Pids :
                Awaiting(mem[p], pid) => StatusIn(disk, pid) \in Unanswered
    /\ \A pid \in Pids : StatusIn(disk, pid) = "approved" => Holds(disk, "proposal", pid)
    /\ \A pid \in Pids : Holds(disk, "receipt", pid) => Approved(disk, pid)

\* The steps ProposalLifecycle allows a proposal.
Allowed(pid, s, t) ==
    \/ s = t
    \/ s = "none" /\ t = "proposed"
    \/ s = "proposed" /\ t = "pending"
    \/ s \in Unanswered /\ t = "approved"
    \/ s # "completed" /\ t = "denied"
    \/ s = "approved" /\ t = "completed" /\ pid \in Ran

LEMMA StatusIs ==
    ASSUME NEW pid \in Pids
    PROVE  StatusOf(pid) = StatusIn(disk, pid) /\ StatusOf(pid)' = StatusIn(disk', pid)
<1>2. StatusOf(pid) = StatusIn(disk, pid)
  BY DEF StatusOf, StatusIn, Completed, PendingConfirmations, DeniedProposals, Awaiting
<1>3. StatusOf(pid)' = StatusIn(disk', pid)
  BY DEF StatusOf, StatusIn, Completed, PendingConfirmations, DeniedProposals, Awaiting
<1> QED
  BY <1>2, <1>3

(* What an append does to what a log tells of a proposal.                  *)
LEMMA LatestAfter ==
    ASSUME NEW L \in Seq(Event), NEW e \in Event, NEW pid \in Pids, NEW M, M = Append(L, e)
    PROVE  /\ \A kind : Holds(M, kind, pid) <=> Holds(L, kind, pid) \/ IsOf(e, kind, pid)
           /\ ~IsOf(e, "policy_decision", pid) => LatestDecision(M, pid) = LatestDecision(L, pid)
           /\ IsOf(e, "policy_decision", pid) => LatestDecision(M, pid) = e.decision
<1>1. \A kind : Holds(M, kind, pid) <=> Holds(L, kind, pid) \/ IsOf(e, kind, pid)
  BY FindLatestAppend
<1>2. \A kind : IsOf(e, kind, pid) => FindLatest(M, kind, pid) = e
  BY FindLatestAppend
<1>3. \A kind : ~IsOf(e, kind, pid) /\ Holds(L, kind, pid)
                   => FindLatest(M, kind, pid) = FindLatest(L, kind, pid)
  BY FindLatestAppend
<1> QED
  BY <1>1, <1>2, <1>3 DEF LatestDecision

LEMMA StatusElsewhere ==
    ASSUME NEW L \in Seq(Event), NEW e \in Event, NEW pid \in Pids, NEW M, M = Append(L, e),
           e.pid # pid \/ e.kind = "execution"
    PROVE  /\ StatusIn(M, pid) = StatusIn(L, pid)
           /\ Awaiting(M, pid) <=> Awaiting(L, pid)
           /\ Holds(M, "proposal", pid) <=> Holds(L, "proposal", pid)
<1>1. ~IsOf(e, "policy_decision", pid) /\ ~IsOf(e, "proposal", pid) /\ ~IsOf(e, "receipt", pid)
  BY DEF IsOf
<1>2. /\ LatestDecision(M, pid) = LatestDecision(L, pid)
      /\ Holds(M, "proposal", pid) <=> Holds(L, "proposal", pid)
      /\ Holds(M, "receipt", pid) <=> Holds(L, "receipt", pid)
  BY <1>1, LatestAfter
<1> QED
  BY <1>2 DEF StatusIn, Awaiting

LEMMA StatusAfterProposal ==
    ASSUME NEW L \in Seq(Event), NEW e \in Event, NEW pid \in Pids, NEW M, M = Append(L, e),
           IsOf(e, "proposal", pid), \A i \in DOMAIN L : L[i].pid # pid
    PROVE  /\ StatusIn(L, pid) = "none" /\ StatusIn(M, pid) = "proposed"
           /\ ~Awaiting(M, pid)
<1>1. \A kind : ~Holds(L, kind, pid)
  BY DEF Holds, Occurrences, IsOf
<1>2. /\ IsOf(e, "proposal", pid)
      /\ ~IsOf(e, "policy_decision", pid) /\ ~IsOf(e, "receipt", pid)
  BY DEF IsOf
<1>3. Holds(M, "proposal", pid) /\ ~Holds(M, "receipt", pid) /\ ~Holds(M, "policy_decision", pid)
  BY <1>1, <1>2, LatestAfter
<1>4. LatestDecision(L, pid) = "none" /\ LatestDecision(M, pid) = "none"
  BY <1>1, <1>3 DEF LatestDecision
<1> QED
  BY <1>1, <1>3, <1>4 DEF StatusIn, Awaiting

LEMMA StatusAfterDecision ==
    ASSUME NEW L \in Seq(Event), NEW e \in Event, NEW pid \in Pids, NEW M, M = Append(L, e),
           IsOf(e, "policy_decision", pid)
    PROVE  /\ StatusIn(L, pid) = "completed" => StatusIn(M, pid) = "completed"
           /\ StatusIn(L, pid) # "completed" /\ Holds(L, "proposal", pid)
                 => StatusIn(M, pid) = Verdict(e.decision)
           /\ StatusIn(L, pid) = "none" /\ e.decision # "approve" => StatusIn(M, pid) = "none"
           /\ Awaiting(M, pid) => e.decision = "require_confirmation"
           /\ Holds(M, "proposal", pid) <=> Holds(L, "proposal", pid)
<1>1. e.decision \in Decisions
  BY DEF Event, IsOf
<1>2. IsOf(e, "policy_decision", pid) /\ ~IsOf(e, "proposal", pid) /\ ~IsOf(e, "receipt", pid)
  BY DEF IsOf
<1>3. /\ LatestDecision(M, pid) = e.decision
      /\ Holds(M, "proposal", pid) <=> Holds(L, "proposal", pid)
      /\ Holds(M, "receipt", pid) <=> Holds(L, "receipt", pid)
  BY <1>2, LatestAfter
<1> QED
  BY <1>1, <1>3 DEF StatusIn, Awaiting, Verdict, Decisions

LEMMA StatusAfterReceipt ==
    ASSUME NEW L \in Seq(Event), NEW e \in Event, NEW pid \in Pids, NEW M, M = Append(L, e),
           IsOf(e, "receipt", pid), Holds(L, "proposal", pid)
    PROVE  StatusIn(M, pid) = "completed"
<1>1. IsOf(e, "receipt", pid)
  BY DEF IsOf
<1>2. Holds(M, "proposal", pid) /\ Holds(M, "receipt", pid)
  BY <1>1, LatestAfter
<1> QED
  BY <1>2 DEF StatusIn

(* A step that moves one proposal as the lifecycle allows is a step of the *)
(* lifecycle, and so is one that runs an approved proposal.                *)
LEMMA MoveIsAbstract ==
    ASSUME NEW pid \in Pids, \A q \in Pids \ {pid} : StatusIn(disk', q) = StatusIn(disk, q),
           Allowed(pid, StatusIn(disk, pid), StatusIn(disk', pid)), Ran' = Ran
    PROVE  [Lifecycle!Next]_(Lifecycle!vars)
<1> DEFINE was == [q \in Pids |-> StatusOf(q)]
           ran == {runs[i].pid : i \in DOMAIN runs}
<1>1. /\ \A q \in Pids : was[q] = StatusIn(disk, q)
      /\ was' = [q \in Pids |-> StatusIn(disk', q)]
  BY StatusIs
<1>2. was' = [was EXCEPT ![pid] = StatusIn(disk', pid)] /\ ran' = ran
  BY <1>1 DEF Ran
<1>3. CASE StatusIn(disk, pid) = StatusIn(disk', pid)
  <2>1. was' = was
    BY <1>1, <1>2, <1>3
  <2> QED
    BY <1>2, <2>1 DEF Lifecycle!vars
<1>4. CASE StatusIn(disk, pid) = "none" /\ StatusIn(disk', pid) = "proposed"
  <2>1. Lifecycle!Propose(pid)
    BY <1>1, <1>2, <1>4 DEF Lifecycle!Propose, Lifecycle!Become
  <2> QED
    BY <2>1 DEF Lifecycle!Next
<1>5. CASE StatusIn(disk, pid) = "proposed" /\ StatusIn(disk', pid) = "pending"
  <2>1. Lifecycle!Suspend(pid)
    BY <1>1, <1>2, <1>5 DEF Lifecycle!Suspend, Lifecycle!Become
  <2> QED
    BY <2>1 DEF Lifecycle!Next
<1>6. CASE StatusIn(disk, pid) \in Unanswered /\ StatusIn(disk', pid) = "approved"
  <2>1. Lifecycle!Approve(pid)
    BY <1>1, <1>2, <1>6 DEF Lifecycle!Approve, Lifecycle!Become, Unanswered
  <2> QED
    BY <2>1 DEF Lifecycle!Next
<1>7. CASE StatusIn(disk, pid) # "completed" /\ StatusIn(disk', pid) = "denied"
  <2>1. Lifecycle!Deny(pid)
    BY <1>1, <1>2, <1>7 DEF Lifecycle!Deny, Lifecycle!Become
  <2> QED
    BY <2>1 DEF Lifecycle!Next
<1>8. CASE StatusIn(disk, pid) = "approved" /\ StatusIn(disk', pid) = "completed" /\ pid \in Ran
  <2>1. Lifecycle!Complete(pid)
    BY <1>1, <1>2, <1>8 DEF Lifecycle!Complete, Lifecycle!Become, Ran
  <2> QED
    BY <2>1 DEF Lifecycle!Next
<1> QED
  BY <1>3, <1>4, <1>5, <1>6, <1>7, <1>8 DEF Allowed

LEMMA RunIsAbstract ==
    ASSUME NEW pid \in Pids, disk' = disk, StatusIn(disk, pid) = "approved",
           pid \notin Ran, Ran' = Ran \cup {pid}
    PROVE  [Lifecycle!Next]_(Lifecycle!vars)
<1> DEFINE was == [q \in Pids |-> StatusOf(q)]
           ran == {runs[i].pid : i \in DOMAIN runs}
<1>1. was[pid] = "approved" /\ was' = was
  BY StatusIs
<1>2. pid \notin ran /\ ran' = ran \cup {pid}
  BY DEF Ran
<1>3. Lifecycle!Run(pid)
  BY <1>1, <1>2 DEF Lifecycle!Run
<1> QED
  BY <1>3 DEF Lifecycle!Next

(* What is asked of an append: that the stage the process gets to has the  *)
(* status of its proposal, and that the proposal moves as it is allowed.   *)
LEMMA RecordKeepsLife ==
    ASSUME TypeOK, LifeInv, NEW p, Procs = {p}, NEW e \in Event, NEW then, NEW locals,
           NEW M, M = Append(disk, e), Record(p, e, then, locals), runs' = runs,
           pc[p] # "down", then # "down",
           then = "decide" => StatusIn(M, locals.pid) = "proposed",
           then = "confirm" => StatusIn(M, locals.pid) = "pending",
           then \in {"execute", "log_execution", "log_receipt"}
              => StatusIn(M, locals.pid) = "approved",
           then \in {"log_execution", "log_receipt"} => locals.pid \in Ran,
           Awaiting(Append(mem[p], e), e.pid)
              => StatusIn(disk, e.pid) \in Unanswered /\ StatusIn(M, e.pid) \in Unanswered,
           StatusIn(M, e.pid) = "approved" => Holds(M, "proposal", e.pid),
           e.kind = "receipt" => Approved(disk, e.pid),
           Allowed(e.pid, StatusIn(disk, e.pid), StatusIn(M, e.pid))
    PROVE  LifeInv' /\ [Lifecycle!Next]_(Lifecycle!vars)
<1>1. /\ mem'[p] = Append(mem[p], e)
      /\ \/ disk' = M /\ pc'[p] = then /\ (then # "idle" => call'[p] = locals)
         \/ disk' = disk /\ pc'[p] = "idle"
      /\ disk \in Seq(Event) /\ mem[p] \in Seq(Event) /\ p \in Procs
      /\ Ran' = Ran
  BY DEF Record, TypeOK, Ran
<1>2. e.pid \in Pids
  BY DEF Event
<1>3. /\ \A pid \in Pids \ {e.pid} : StatusIn(M, pid) = StatusIn(disk, pid)
      /\ \A pid \in Pids \ {e.pid} : Awaiting(Append(mem[p], e), pid) <=> Awaiting(mem[p], pid)
      /\ \A pid \in Pids \ {e.pid} : Holds(M, "proposal", pid) <=> Holds(disk, "proposal", pid)
      /\ \A pid \in Pids : Holds(M, "receipt", pid) <=>
            Holds(disk, "receipt", pid) \/ (e.pid = pid /\ e.kind = "receipt")
      /\ \A pid \in Pids : Approved(disk, pid) => Approved(M, pid)
  <2>1. \A pid \in Pids : Holds(M, "receipt", pid) <=>
            Holds(disk, "receipt", pid) \/ (e.pid = pid /\ e.kind = "receipt")
    BY <1>1, FindLatestAppend DEF IsOf
  <2>2. \A pid \in Pids : Approved(disk, pid) => Approved(M, pid)
    BY <1>1, AppendDecides
  <2>3. ASSUME NEW pid \in Pids \ {e.pid}
        PROVE  /\ StatusIn(M, pid) = StatusIn(disk, pid)
               /\ Holds(M, "proposal", pid) <=> Holds(disk, "proposal", pid)
    <3>1. pid \in Pids /\ e.pid # pid /\ disk \in Seq(Event)
      BY <1>1
    <3>2. PICK N : N = Append(disk, e)
      OBVIOUS
    <3>3. /\ StatusIn(N, pid) = StatusIn(disk, pid)
          /\ Holds(N, "proposal", pid) <=> Holds(disk, "proposal", pid)
      BY <3>1, <3>2, StatusElsewhere
    <3> QED
      BY <3>2, <3>3
  <2>4. ASSUME NEW pid \in Pids \ {e.pid} PROVE Awaiting(Append(mem[p], e), pid) <=> Awaiting(mem[p], pid)
    <3>1. pid \in Pids /\ e.pid # pid
      OBVIOUS
    <3>2. PICK N : N = Append(mem[p], e)
      OBVIOUS
    <3>3. Awaiting(N, pid) <=> Awaiting(mem[p], pid)
      BY <1>1, <3>1, <3>2, StatusElsewhere
    <3> QED
      BY <3>2, <3>3
  <2> QED
    BY <2>1, <2>2, <2>3, <2>4
<1>4. \A pid \in Pids : disk' = disk \/ disk' = M
  BY <1>1
<1>5. \A q \in Procs :
          /\ pc'[q] = "decide" => StatusIn(disk', call'[q].pid) = "proposed"
          /\ pc'[q] = "confirm" => StatusIn(disk', call'[q].pid) = "pending"
          /\ pc'[q] \in {"execute", "log_execution", "log_receipt"}
                => StatusIn(disk', call'[q].pid) = "approved"
          /\ pc'[q] \in {"log_execution", "log_receipt"} => call'[q].pid \in Ran'
  BY <1>1
<1>6. \A pid \in Pids : Awaiting(mem'[p], pid) => StatusIn(disk', pid) \in Unanswered
  <2> TAKE pid \in Pids
  <2> HAVE Awaiting(mem'[p], pid)
  <2>1. CASE pid = e.pid
    BY <1>1, <2>1
  <2>2. CASE pid # e.pid
    BY <1>1, <1>3, <2>2 DEF LifeInv
  <2> QED
    BY <2>1, <2>2
<1>7. \A pid \in Pids : StatusIn(disk', pid) = "approved" => Holds(disk', "proposal", pid)
  BY <1>1, <1>3 DEF LifeInv
<1>8. \A pid \in Pids : Holds(disk', "receipt", pid) => Approved(disk', pid)
  BY <1>1, <1>3 DEF LifeInv
<1>9. LifeInv'
  BY <1>5, <1>6, <1>7, <1>8 DEF LifeInv
<1>10. [Lifecycle!Next]_(Lifecycle!vars)
  <2>1. \A q \in Pids \ {e.pid} : StatusIn(disk', q) = StatusIn(disk, q)
    BY <1>1, <1>3
  <2>2. Allowed(e.pid, StatusIn(disk, e.pid), StatusIn(disk', e.pid))
    BY <1>1 DEF Allowed
  <2>3. PICK pid \in Pids : pid = e.pid
    BY <1>2
  <2> QED
    BY <1>1, <2>1, <2>2, <2>3, MoveIsAbstract
<1> QED
  BY <1>9, <1>10

(* Steps that write nothing and run nothing.                               *)
LEMMA SilentKeepsLife ==
    ASSUME TypeOK, LifeInv, NEW p, Procs = {p}, disk' = disk, runs' = runs,
           \/ pc'[p] = "down"
           \/ pc'[p] = "idle" /\ mem'[p] = mem[p] /\ pc[p] # "down"
           \/ pc'[p] = pc[p] /\ mem'[p] = mem[p] /\ call'[p] = call[p]
    PROVE  LifeInv' /\ [Lifecycle!Next]_(Lifecycle!vars)
<1>1. Ran' = Ran
  BY DEF Ran
<1>2. LifeInv'
  BY <1>1 DEF LifeInv
<1>3. [Lifecycle!Next]_(Lifecycle!vars)
  <2>1. \A q \in Pids : StatusOf(q) = StatusIn(disk, q) /\ StatusOf(q)' = StatusIn(disk, q)
    BY StatusIs
  <2>2. [q \in Pids |-> StatusOf(q)]' = [q \in Pids |-> StatusOf(q)]
    BY <2>1
  <2>3. {runs[i].pid : i \in DOMAIN runs}' = {runs[i].pid : i \in DOMAIN runs}
    BY <1>1 DEF Ran
  <2> QED
    BY <2>2, <2>3 DEF Lifecycle!vars
<1> QED
  BY <1>2, <1>3

(* What a log that awaits an answer cannot hold.                           *)
LEMMA AwaitingIsUnanswered ==
    ASSUME OnceInv, LifeInv, NEW pid \in Pids, Awaiting(disk, pid)
    PROVE  StatusIn(disk, pid) \in Unanswered
<1>1. disk \in Seq(Event) /\ AskedFirst(disk)
  BY LogsAreLogs DEF OnceInv, AuthInv, LogsAskFirst
<1>2. ~Approved(disk, pid)
  BY <1>1, AwaitingIsUnapproved
<1>3. ~Holds(disk, "receipt", pid)
  BY <1>2 DEF LifeInv
<1> QED
  BY <1>3 DEF StatusIn, Awaiting, Unanswered

LEMMA RunKeepsLife ==
    ASSUME OnceInv, LifeInv, NEW p, Procs = {p}, Execute(p) \/ ToolRaises(p)
    PROVE  LifeInv' /\ [Lifecycle!Next]_(Lifecycle!vars)
<1>1. TypeOK /\ p \in Procs
  BY DEF OnceInv, AuthInv
<1>2. PICK pid : pid = call[p].pid
  OBVIOUS
<1>3. /\ pc[p] = "execute" /\ disk' = disk /\ mem' = mem
      /\ \/ pc'[p] = "log_execution" /\ call'[p].pid = pid
         \/ pc'[p] = "idle"
  <2>1. CASE Execute(p)
    <3>1. call[p] \in Call
      BY <1>1, <2>1, CallFields DEF Execute
    <3>2. call'[p].pid = call[p].pid
      BY <1>1, <2>1, <3>1 DEF Execute, TypeOK, Call
    <3> QED
      BY <1>1, <1>2, <2>1, <3>2 DEF Execute, TypeOK
  <2>2. CASE ToolRaises(p)
    BY <1>1, <2>2 DEF ToolRaises, TypeOK
  <2> QED
    BY <2>1, <2>2
<1>4. pid \in Pids /\ StatusIn(disk, pid) = "approved"
  BY <1>1, <1>2, <1>3, CallFields DEF LifeInv
<1>5. Ran' = Ran \cup {pid} /\ pid \notin Ran
  <2>1. PICK post : runs' = Append(runs, RunEntry(p, call[p].req, post)) /\ post \in FileState
    <3>1. \E post : runs' = Append(runs, RunEntry(p, call[p].req, post)) /\ post \in FileState
      BY <1>1, <1>3, CallFields DEF Execute, ToolRaises, FileAfter, FileState, TypeOK
    <3> QED
      BY <3>1
  <2> DEFINE r == RunEntry(p, call[p].req, post)
  <2>2. r \in Run /\ r.pid = pid /\ runs' = Append(runs, r)
    BY <1>1, <1>2, <1>3, <2>1, CallFields DEF RunEntry, Run, TypeOK
  <2> HIDE DEF r
  <2>3. /\ DOMAIN runs = 1..Len(runs) /\ Len(runs) \in Nat
        /\ DOMAIN runs' = 1..(Len(runs) + 1)
        /\ \A i \in 1..Len(runs) : runs'[i] = runs[i]
        /\ runs'[Len(runs) + 1] = r
    BY <1>1, <2>2, AppendProperties, LenProperties DEF TypeOK
  <2>4. /\ \A i \in DOMAIN runs : i \in DOMAIN runs' /\ runs'[i] = runs[i]
        /\ \A i \in DOMAIN runs' : i \in DOMAIN runs \/ runs'[i].pid = pid
        /\ Len(runs) + 1 \in DOMAIN runs' /\ runs'[Len(runs) + 1].pid = pid
    BY <2>2, <2>3
  <2>5. Ran' = Ran \cup {pid}
    BY <2>4 DEF Ran
  <2>6. \A i \in DOMAIN runs : runs[i].pid # pid
    <3>1. \A i \in DOMAIN runs : runs[i].by \in Procs
      BY <1>1, RunFields
    <3> QED
      BY <1>1, <1>2, <1>3, <3>1 DEF OnceInv, RunsAreRemembered
  <2> QED
    BY <2>5, <2>6 DEF Ran
<1>6. LifeInv'
  BY <1>2, <1>3, <1>4, <1>5 DEF LifeInv
<1>7. [Lifecycle!Next]_(Lifecycle!vars)
  BY <1>3, <1>4, <1>5, RunIsAbstract
<1> QED
  BY <1>6, <1>7

LEMMA LatestApproveIsApproval ==
    ASSUME NEW L \in Seq(Event), NEW pid \in Pids, StatusIn(L, pid) = "approved"
    PROVE  Approved(L, pid)
<1>1. Holds(L, "policy_decision", pid) /\ FindLatest(L, "policy_decision", pid).decision = "approve"
  BY DEF StatusIn, LatestDecision
<1>2. PICK i \in DOMAIN L : IsOf(L[i], "policy_decision", pid)
                            /\ FindLatest(L, "policy_decision", pid) = L[i]
  BY <1>1, FindLatestIs
<1> QED
  BY <1>1, <1>2 DEF Approved, Decides, IsOf

(* A verdict on a proposal moves it as the lifecycle allows.               *)
LEMMA VerdictMoves ==
    ASSUME TypeOK, LifeInv, NEW pid \in Pids, NEW e \in Event, e.kind = "policy_decision",
           e.pid = pid, NEW M, M = Append(disk, e),
           e.decision = "require_confirmation" => StatusIn(disk, pid) = "proposed",
           e.decision = "approve" => StatusIn(disk, pid) \in Unanswered
    PROVE  /\ Allowed(pid, StatusIn(disk, pid), StatusIn(M, pid))
           /\ StatusIn(M, pid) = "approved" => Holds(M, "proposal", pid)
           /\ StatusIn(disk, pid) \in Unanswered => StatusIn(M, pid) = Verdict(e.decision)
<1>1. /\ e.decision \in Decisions /\ disk \in Seq(Event)
      /\ StatusIn(disk, pid) \in {"none", "proposed", "pending", "approved", "denied", "completed"}
      /\ StatusIn(disk, pid) \in {"proposed", "pending", "denied", "approved"}
            => Holds(disk, "proposal", pid)
  BY DEF Event, TypeOK, StatusIn, LifeInv
<1>2. /\ StatusIn(disk, pid) = "completed" => StatusIn(M, pid) = "completed"
      /\ StatusIn(disk, pid) # "completed" /\ Holds(disk, "proposal", pid)
            => StatusIn(M, pid) = Verdict(e.decision)
      /\ StatusIn(disk, pid) = "none" /\ e.decision # "approve" => StatusIn(M, pid) = "none"
      /\ Holds(M, "proposal", pid) <=> Holds(disk, "proposal", pid)
  <2>1. disk \in Seq(Event) /\ IsOf(e, "policy_decision", pid)
    BY <1>1 DEF IsOf
  <2> QED
    BY <2>1, StatusAfterDecision
<1>3. CASE StatusIn(disk, pid) \in {"completed", "none"}
  BY <1>1, <1>2, <1>3 DEF Allowed, Unanswered
<1>4. CASE StatusIn(disk, pid) \in {"proposed", "pending", "denied", "approved"}
  BY <1>1, <1>2, <1>4 DEF Allowed, Unanswered, Verdict, Decisions
<1> QED
  BY <1>1, <1>3, <1>4

LEMMA LifeStep ==
    ASSUME NEW p, Procs = {p}
    PROVE  OnceInv /\ LifeInv /\ [Next]_vars => LifeInv' /\ [Lifecycle!Next]_(Lifecycle!vars)
<1> SUFFICES ASSUME OnceInv, LifeInv, [Next]_vars
             PROVE  LifeInv' /\ [Lifecycle!Next]_(Lifecycle!vars)
  OBVIOUS
<1> DEFINE Goal == LifeInv' /\ [Lifecycle!Next]_(Lifecycle!vars)
<1>0. TypeOK /\ p \in Procs /\ disk \in Seq(Event) /\ mem[p] \in Seq(Event)
  BY DEF OnceInv, AuthInv, TypeOK
<1>1. ASSUME Close(p) \/ Crash(p) \/ OtherAppendRaises(p) \/ Rollback(p) \/ UNCHANGED vars PROVE Goal
  <2>1. /\ disk' = disk /\ runs' = runs
        /\ \/ pc'[p] = "down"
           \/ pc'[p] = "idle" /\ mem'[p] = mem[p] /\ pc[p] # "down"
           \/ pc'[p] = pc[p] /\ mem'[p] = mem[p] /\ call'[p] = call[p]
    BY <1>0, <1>1 DEF Close, Crash, OtherAppendRaises, Rollback, Leave, TypeOK, vars
  <2> QED
    BY <1>0, <2>1, SilentKeepsLife
<1>2. ASSUME Open(p) PROVE Goal
  <2>1. /\ disk' = disk /\ runs' = runs /\ pc'[p] = "idle" /\ mem'[p] = disk
    BY <1>0, <1>2 DEF Open, TypeOK
  <2>2. LifeInv'
    BY <2>1, AwaitingIsUnanswered DEF LifeInv
  <2>3. \A q \in Pids : StatusOf(q) = StatusIn(disk, q) /\ StatusOf(q)' = StatusIn(disk, q)
    BY <2>1, StatusIs
  <2>4. [q \in Pids |-> StatusOf(q)]' = [q \in Pids |-> StatusOf(q)]
    BY <2>3
  <2>5. {runs[i].pid : i \in DOMAIN runs}' = {runs[i].pid : i \in DOMAIN runs}
    BY <2>1
  <2> QED
    BY <2>2, <2>4, <2>5 DEF Lifecycle!vars
<1>3. ASSUME Execute(p) \/ ToolRaises(p) PROVE Goal
  BY <1>3, RunKeepsLife
<1>4. ASSUME Handle(p) PROVE Goal
  <2>1. PICK pid \in Pids \ issued, req \in Requests, confirm \in BOOLEAN :
          Record(p, ProposalEvent(pid, req), "decide",
                 [NoCall EXCEPT !.pid = pid, !.req = req, !.confirm = confirm])
    BY <1>4 DEF Handle
  <2> DEFINE e == ProposalEvent(pid, req)
             locals == [NoCall EXCEPT !.pid = pid, !.req = req, !.confirm = confirm]
  <2>2. e \in Event /\ e.kind = "proposal" /\ e.pid = pid /\ locals.pid = pid
    BY <2>1, EventsAreEvents DEF ProposalEvent, NoCall
  <2>3. runs' = runs /\ pc[p] # "down" /\ Record(p, e, "decide", locals)
    BY <1>4, <2>1 DEF Handle
  <2> HIDE DEF e, locals
  <2>4. PICK M : M = Append(disk, e)
    OBVIOUS
  <2>5. PICK N : N = Append(mem[p], e)
    OBVIOUS
  <2>6. /\ \A i \in DOMAIN disk : disk[i].pid # pid
        /\ \A i \in DOMAIN mem[p] : mem[p][i].pid # pid
    BY <1>0, <2>1, LogsAreLogs DEF OnceInv, LogsAreOfIssued
  <2>7. StatusIn(disk, pid) = "none" /\ StatusIn(M, pid) = "proposed"
    <3>1. disk \in Seq(Event) /\ e \in Event /\ IsOf(e, "proposal", pid) /\ pid \in Pids
      BY <1>0, <2>1, <2>2 DEF IsOf
    <3> QED
      BY <2>4, <2>6, <3>1, StatusAfterProposal
  <2>8. ~Awaiting(N, pid)
    <3>1. mem[p] \in Seq(Event) /\ e \in Event /\ IsOf(e, "proposal", pid) /\ pid \in Pids
      BY <1>0, <2>1, <2>2 DEF IsOf
    <3> QED
      BY <2>5, <2>6, <3>1, StatusAfterProposal
  <2>9. Allowed(pid, StatusIn(disk, pid), StatusIn(M, pid))
    BY <2>7 DEF Allowed
  <2> QED
    BY <1>0, <2>2, <2>3, <2>4, <2>5, <2>7, <2>8, <2>9, RecordKeepsLife
<1>5. ASSUME NEW pid \in Pids, NEW e \in Event, e.kind = "policy_decision", e.pid = pid,
             NEW then \in {"idle", "confirm", "execute"}, NEW locals, Record(p, e, then, locals),
             then # "idle" => locals.pid = pid, runs' = runs, pc[p] # "down",
             e.decision = "require_confirmation" => StatusIn(disk, pid) = "proposed",
             e.decision = "approve" => StatusIn(disk, pid) \in Unanswered,
             then = "confirm" => e.decision = "require_confirmation",
             then = "execute" => e.decision = "approve"
      PROVE  Goal
  <2>1. PICK M : M = Append(disk, e)
    OBVIOUS
  <2>2. PICK N : N = Append(mem[p], e)
    OBVIOUS
  <2>3. /\ Allowed(pid, StatusIn(disk, pid), StatusIn(M, pid))
        /\ StatusIn(M, pid) = "approved" => Holds(M, "proposal", pid)
        /\ StatusIn(disk, pid) \in Unanswered => StatusIn(M, pid) = Verdict(e.decision)
    BY <1>0, <1>5, <2>1, VerdictMoves
  <2>4. Awaiting(N, pid) => e.decision = "require_confirmation"
    <3>1. mem[p] \in Seq(Event) /\ IsOf(e, "policy_decision", pid)
      BY <1>0, <1>5 DEF IsOf
    <3> QED
      BY <1>5, <2>2, <3>1, StatusAfterDecision
  <2>5. /\ e.decision = "require_confirmation" => StatusIn(M, pid) = "pending"
        /\ e.decision = "approve" => StatusIn(M, pid) = "approved"
    BY <1>5, <2>3 DEF Verdict, Unanswered
  <2>6. Awaiting(N, pid) => StatusIn(disk, pid) \in Unanswered /\ StatusIn(M, pid) \in Unanswered
    BY <1>5, <2>4, <2>5 DEF Unanswered
  <2>7. /\ then = "confirm" => StatusIn(M, locals.pid) = "pending"
        /\ then = "execute" => StatusIn(M, locals.pid) = "approved"
    BY <1>5, <2>5
  <2> QED
    BY <1>0, <1>5, <2>1, <2>2, <2>3, <2>6, <2>7, RecordKeepsLife
<1>6. ASSUME Decide(p) PROVE Goal
  <2> DEFINE d == Evaluate(mem[p], call[p].req)
             e == DecisionEvent(call[p].pid, d, "policy")
             then == AfterDecision(d, call[p].confirm)
  <2>1. /\ pc[p] = "decide" /\ Record(p, e, then, call[p]) /\ runs' = runs
        /\ call[p].pid \in Pids /\ StatusIn(disk, call[p].pid) = "proposed"
    BY <1>0, <1>6, CallFields DEF Decide, LifeInv
  <2>2. e \in Event /\ e.kind = "policy_decision" /\ e.pid = call[p].pid /\ e.decision = d
    BY <2>1, EvaluateType, EventsAreEvents DEF DecisionEvent
  <2>3. /\ then \in {"idle", "confirm", "execute"}
        /\ then = "execute" => d = "approve"
        /\ then = "confirm" => d = "require_confirmation"
    BY DEF AfterDecision
  <2> HIDE DEF d, e, then
  <2>4. "proposed" \in Unanswered
    BY DEF Unanswered
  <2> QED
    BY <1>5, <2>1, <2>2, <2>3, <2>4
<1>7. ASSUME NEW pid \in Pids, NEW locals, pc[p] # "down", runs' = runs, locals.pid = pid,
             StatusIn(disk, pid) \in Unanswered,
             Record(p, DecisionEvent(pid, "approve", "operator"), "execute", locals)
      PROVE  Goal
  <2> DEFINE e == DecisionEvent(pid, "approve", "operator")
  <2>1. e \in Event /\ e.kind = "policy_decision" /\ e.decision = "approve" /\ e.pid = pid
    BY EventsAreEvents DEF Decisions, DecisionEvent
  <2>2. Record(p, e, "execute", locals)
    BY <1>7
  <2> HIDE DEF e
  <2> QED
    BY <1>5, <1>7, <2>1, <2>2
<1>8. ASSUME Confirm(p) PROVE Goal
  <2>1. call[p].pid \in Pids /\ StatusIn(disk, call[p].pid) \in Unanswered
    BY <1>0, <1>8, CallFields DEF Confirm, LifeInv, Unanswered
  <2> QED
    BY <1>7, <1>8, <2>1 DEF Confirm
<1>9. ASSUME Approve(p) PROVE Goal
  <2>1. PICK pid \in Pids :
          /\ Awaiting(mem[p], pid)
          /\ Record(p, DecisionEvent(pid, "approve", "operator"), "execute",
                    [NoCall EXCEPT !.pid = pid, !.req = RequestOf(mem[p], pid), !.confirm = TRUE])
    BY <1>9 DEF Approve
  <2> DEFINE locals == [NoCall EXCEPT !.pid = pid, !.req = RequestOf(mem[p], pid),
                                      !.confirm = TRUE]
  <2>2. locals.pid = pid
    BY DEF NoCall
  <2>3. Record(p, DecisionEvent(pid, "approve", "operator"), "execute", locals)
        /\ pc[p] # "down" /\ runs' = runs
    BY <1>9, <2>1 DEF Approve
  <2>4. StatusIn(disk, pid) \in Unanswered
    BY <1>0, <2>1, <2>3 DEF LifeInv
  <2> HIDE DEF locals
  <2> QED
    BY <1>7, <2>2, <2>3, <2>4
<1>10. ASSUME Reject(p) PROVE Goal
  <2>1. PICK pid \in Pids : Record(p, DecisionEvent(pid, "deny", "operator"), "idle", NoCall)
    BY <1>10 DEF Reject
  <2> DEFINE e == DecisionEvent(pid, "deny", "operator")
  <2>2. e \in Event /\ e.kind = "policy_decision" /\ e.decision = "deny" /\ e.pid = pid
    BY EventsAreEvents DEF Decisions, DecisionEvent
  <2>3. Record(p, e, "idle", NoCall) /\ pc[p] # "down" /\ runs' = runs
    BY <1>10, <2>1 DEF Reject
  <2> HIDE DEF e
  <2> QED
    BY <1>5, <2>2, <2>3
<1>11. ASSUME LogExecution(p) PROVE Goal
  <2> DEFINE e == ExecutionEvent(call[p].pid, call[p].req.action)
  <2>1. e \in Event /\ e.kind = "execution" /\ e.pid = call[p].pid
    BY <1>0, <1>11, CallFields, EventsAreEvents DEF LogExecution, ExecutionEvent
  <2>2. Record(p, e, "log_receipt", call[p]) /\ pc[p] = "log_execution" /\ runs' = runs
    BY <1>11 DEF LogExecution
  <2> HIDE DEF e
  <2>3. PICK M : M = Append(disk, e)
    OBVIOUS
  <2>4. PICK N : N = Append(mem[p], e)
    OBVIOUS
  <2>5. PICK pid \in Pids : pid = call[p].pid
    BY <1>0, <2>2, CallFields
  <2>6. StatusIn(disk, pid) = "approved" /\ pid \in Ran
    BY <1>0, <2>2, <2>5 DEF LifeInv
  <2>7. StatusIn(M, pid) = "approved" /\ (Holds(M, "proposal", pid) <=> Holds(disk, "proposal", pid))
    <3>1. disk \in Seq(Event) /\ e \in Event /\ e.kind = "execution"
      BY <1>0, <2>1
    <3>2. /\ StatusIn(M, pid) = StatusIn(disk, pid)
          /\ Holds(M, "proposal", pid) <=> Holds(disk, "proposal", pid)
      BY <2>3, <3>1, StatusElsewhere
    <3> QED
      BY <2>6, <3>2
  <2>8. Awaiting(N, pid) <=> Awaiting(mem[p], pid)
    BY <1>0, <2>1, <2>4, StatusElsewhere
  <2>9. ~Awaiting(N, pid) /\ Holds(M, "proposal", pid)
    BY <1>0, <2>2, <2>6, <2>7, <2>8 DEF LifeInv, Unanswered
  <2>10. Allowed(pid, StatusIn(disk, pid), StatusIn(M, pid))
    BY <2>6, <2>7 DEF Allowed
  <2> QED
    BY <1>0, <2>1, <2>2, <2>3, <2>4, <2>5, <2>6, <2>7, <2>9, <2>10, RecordKeepsLife
<1>12. ASSUME LogReceipt(p) PROVE Goal
  <2> DEFINE e == ReceiptEvent(call[p].pid, call[p].success, call[p].undo)
  <2>1. e \in Event /\ e.kind = "receipt" /\ e.pid = call[p].pid
    BY <1>0, <1>12, CallFields, EventsAreEvents DEF LogReceipt, ReceiptEvent
  <2>2. Record(p, e, "idle", NoCall) /\ pc[p] = "log_receipt" /\ runs' = runs
    BY <1>12 DEF LogReceipt
  <2> HIDE DEF e
  <2>3. PICK M : M = Append(disk, e)
    OBVIOUS
  <2>4. PICK N : N = Append(mem[p], e)
    OBVIOUS
  <2>5. PICK pid \in Pids : pid = call[p].pid
    BY <1>0, <2>2, CallFields
  <2>6. StatusIn(disk, pid) = "approved" /\ pid \in Ran /\ Holds(disk, "proposal", pid)
    BY <1>0, <2>2, <2>5 DEF LifeInv
  <2>7. StatusIn(M, pid) = "completed" /\ Approved(disk, pid)
    <3>1. disk \in Seq(Event) /\ e \in Event /\ IsOf(e, "receipt", pid)
      BY <1>0, <2>1, <2>5 DEF IsOf
    <3>2. StatusIn(M, pid) = "completed"
      BY <2>3, <2>6, <3>1, StatusAfterReceipt
    <3>3. Approved(disk, pid)
      BY <2>6, <3>1, LatestApproveIsApproval
    <3> QED
      BY <3>2, <3>3
  <2>8. ~Awaiting(mem[p], pid)
    BY <1>0, <2>2, <2>6 DEF LifeInv, Unanswered
  <2>9. ~Awaiting(N, pid)
    <3>1. ~IsOf(e, "policy_decision", pid) /\ ~IsOf(e, "proposal", pid)
      BY <2>1 DEF IsOf
    <3>2. /\ Holds(N, "proposal", pid) <=> Holds(mem[p], "proposal", pid)
          /\ LatestDecision(N, pid) = LatestDecision(mem[p], pid)
      <4>1. mem[p] \in Seq(Event) /\ e \in Event
        BY <1>0, <2>1
      <4> QED
        BY <2>4, <3>1, <4>1, LatestAfter
    <3> QED
      BY <2>8, <3>2 DEF Awaiting
  <2>10. Allowed(pid, StatusIn(disk, pid), StatusIn(M, pid))
    BY <2>6, <2>7 DEF Allowed
  <2> QED
    BY <1>0, <2>1, <2>2, <2>3, <2>4, <2>5, <2>6, <2>7, <2>9, <2>10, RecordKeepsLife
<1> QED
  BY <1>1, <1>2, <1>3, <1>4, <1>6, <1>8, <1>9, <1>10, <1>11, <1>12 DEF Next

(* One process implements the lifecycle of ProposalLifecycle, for any      *)
(* requests, budgets, rejections and failures.                             *)
THEOREM RuntimeImplementsLifecycle == ASSUME NEW p, Procs = {p} PROVE Spec => ImplementsLifecycle
<1>1. Init => LifeInv
  BY DEF Init, LifeInv, StatusIn, LatestDecision, Holds, Occurrences
<1>2. Init => Lifecycle!Init
  <2> SUFFICES ASSUME Init PROVE Lifecycle!Init
    OBVIOUS
  <2>1. disk = <<>> /\ runs = <<>>
    BY DEF Init
  <2>2. \A pid \in Pids : StatusOf(pid) = "none"
    <3>1. \A pid \in Pids : StatusIn(disk, pid) = "none"
      BY <2>1 DEF StatusIn, LatestDecision, Holds, Occurrences
    <3> QED
      BY <3>1, StatusIs
  <2>3. {runs[i].pid : i \in DOMAIN runs} = {}
    BY <2>1
  <2> QED
    BY <2>2, <2>3 DEF Lifecycle!Init
<1>3. OnceInv /\ LifeInv /\ [Next]_vars => LifeInv' /\ [Lifecycle!Next]_(Lifecycle!vars)
  BY LifeStep
<1> QED
  BY <1>1, <1>2, <1>3, OnceAlways, PTL DEF Spec, ImplementsLifecycle, Lifecycle!Spec
-----------------------------------------------------------------------------
(***************************************************************************)
(* ReceiptsTellFiles, for a file that one process writes.  A receipt is    *)
(* written with the locals of the call that ran the tool, two steps later: *)
(* until then the locals tell what the log does not, what the file was     *)
(* before and that it has changed.                                         *)
(***************************************************************************)
Mutates(req) == req.action \in {"write_file", "delete_file"}

\* What a successful mutation leaves at its path.
Left(req) == IF req.action = "write_file" THEN req.content ELSE Absent

Logging(p) == pc[p] \in {"log_execution", "log_receipt"}

\* p has changed f and the receipt is not written.
Due(p, f) == Logging(p) /\ call[p].success /\ Mutates(call[p].req) /\ call[p].req.path = f

Undoes(undo, r) == undo = [path |-> r.path, content |-> r.pre]

FilesInv ==
    /\ ReceiptUndoesRun
    /\ \A pid \in Pids : Holds(disk, "receipt", pid) => Holds(disk, "proposal", pid)
    /\ \A p \in Procs, i \in DOMAIN runs :
          Logging(p) /\ runs[i].pid = call[p].pid /\ runs[i].pre # runs[i].post
              => Undoes(call[p].undo, runs[i])
    /\ \A p \in Procs, f \in Paths :
          faults = 0 /\ undone = {} =>
              files[f] = IF Due(p, f) THEN Left(call[p].req) ELSE ReplayedFile(disk, f)

(* An append changes no request that a log tells of, unless it proposes it *)
(* anew.                                                                   *)
LEMMA RequestAfter ==
    ASSUME NEW L \in Seq(Event), NEW e \in Event, NEW pid \in Pids, NEW M, M = Append(L, e),
           Holds(L, "proposal", pid), ~IsOf(e, "proposal", pid)
    PROVE  RequestOf(M, pid) = RequestOf(L, pid)
BY FindLatestAppend DEF RequestOf

ReceiptsProposed(L) ==
    \A i \in DOMAIN L : L[i].kind = "receipt" => L[i].pid \in Pids /\ Holds(L, "proposal", L[i].pid)

\* A proposal is of a new id.
IsFresh(L, e) == e.kind = "proposal" => \A i \in DOMAIN L : L[i].pid # e.pid

\* What the log tells of the file f once e is appended to it.
ReplayedAfter(L, e, req, f) ==
    IF e.kind = "receipt" /\ e.success /\ Mutates(req) /\ req.path = f
    THEN Left(req) ELSE ReplayedFile(L, f)

(* What an append does to the workspace a reader of the log expects.       *)
LEMMA ReplayAfter ==
    ASSUME NEW L \in Seq(Event), NEW e \in Event, NEW M, M = Append(L, e), NEW f,
           ReceiptsProposed(L), IsFresh(L, e), NEW req, req = RequestOf(M, e.pid)
    PROVE  ReplayedFile(M, f) = ReplayedAfter(L, e, req, f)
<1> DEFINE n == Len(L)
           W == {i \in DOMAIN L : LoggedMutation(L, f, i)}
           X == {i \in DOMAIN M : LoggedMutation(M, f, i)}
           new == e.kind = "receipt" /\ e.success /\ Mutates(req) /\ req.path = f
<1>1. /\ DOMAIN L = 1..n /\ n \in Nat /\ DOMAIN M = 1..(n + 1)
      /\ \A i \in 1..n : M[i] = L[i]
      /\ M[n + 1] = e
  BY AppendProperties, LenProperties
<1>2. ASSUME NEW i \in DOMAIN L, L[i].kind = "receipt"
      PROVE  RequestOf(M, L[i].pid) = RequestOf(L, L[i].pid)
  <2>1. L[i].pid \in Pids /\ Holds(L, "proposal", L[i].pid) /\ ~IsOf(e, "proposal", L[i].pid)
    BY <1>2 DEF ReceiptsProposed, IsOf, IsFresh
  <2> QED
    BY <2>1, RequestAfter
<1>3. \A i \in DOMAIN L : LoggedMutation(M, f, i) <=> LoggedMutation(L, f, i)
  BY <1>1, <1>2 DEF LoggedMutation
<1>4. LoggedMutation(M, f, n + 1) <=> new
  BY <1>1 DEF LoggedMutation, Mutates
<1>5. X = IF new THEN W \cup {n + 1} ELSE W
  BY <1>1, <1>3, <1>4
<1>6. W \in SUBSET Nat /\ X \in SUBSET Nat /\ (\A i \in W : i <= n) /\ (\A i \in X : i <= n + 1)
      /\ n + 1 \in Nat
  BY <1>1
<1>7. CASE new
  <2>1. X # {} /\ n + 1 \in X
    BY <1>5, <1>7
  <2>2. Max(X) \in X /\ \A i \in X : i <= Max(X)
    <3> HIDE DEF X, W, n, new
    <3> QED
      BY <1>6, <2>1, MaxOfBounded
  <2>3. Max(X) = n + 1
    <3>1. Max(X) \in Nat /\ Max(X) <= n + 1 /\ n + 1 <= Max(X) /\ n \in Nat
      <4> HIDE DEF X, W, new, n
      <4> QED
        BY <1>1, <1>6, <2>1, <2>2
    <3> HIDE DEF X, W, new, n
    <3> QED
      BY <3>1
  <2>4. RequestOf(M, M[Max(X)].pid) = req
    BY <1>1, <1>7, <2>3
  <2> QED
    BY <1>7, <2>1, <2>4 DEF ReplayedFile, ReplayedAfter, Left
<1>8. CASE ~new /\ W = {}
  BY <1>5, <1>8 DEF ReplayedFile, ReplayedAfter
<1>9. CASE ~new /\ W # {}
  <2>1. X = W
    BY <1>5, <1>9
  <2>2. Max(W) \in W
    <3> HIDE DEF W
    <3> QED
      BY <1>1, <1>6, <1>9, MaxOfBounded
  <2>3. Max(W) \in DOMAIN L /\ L[Max(W)].kind = "receipt" /\ M[Max(W)] = L[Max(W)]
    BY <1>1, <2>2 DEF LoggedMutation
  <2>4. RequestOf(M, M[Max(W)].pid) = RequestOf(L, L[Max(W)].pid)
    BY <1>2, <2>3
  <2> QED
    BY <1>9, <2>1, <2>4 DEF ReplayedFile, ReplayedAfter
<1> QED
  BY <1>7, <1>8, <1>9

LEMMA ReceiptsAreProposed == ASSUME TypeOK, FilesInv PROVE ReceiptsProposed(disk)
<1>1. disk \in Seq(Event)
  BY DEF TypeOK
<1>2. \A i \in DOMAIN disk : disk[i] \in Event
  BY <1>1, LenProperties, ElementOfSeq
<1>3. \A i \in DOMAIN disk : disk[i].pid \in Pids
  BY <1>2 DEF Event
<1> QED
  BY <1>3 DEF ReceiptsProposed, FilesInv, Holds, Occurrences, IsOf

(* An append that is no receipt leaves what the receipts tell.             *)
LEMMA OtherAppends ==
    ASSUME OnceInv, FilesInv, NEW e \in Event, e.kind # "receipt", runs' = runs,
           e.kind = "proposal" => e.pid \notin issued, disk' = disk \/ disk' = Append(disk, e)
    PROVE  /\ \A f : ReplayedFile(disk', f) = ReplayedFile(disk, f)
           /\ ReceiptUndoesRun'
           /\ \A pid \in Pids : Holds(disk', "receipt", pid) => Holds(disk', "proposal", pid)
<1>1. TypeOK /\ disk \in Seq(Event)
  BY DEF OnceInv, AuthInv, TypeOK
<1>2. PICK M : M = Append(disk, e)
  OBVIOUS
<1>3. ReceiptsProposed(disk)
  BY <1>1, ReceiptsAreProposed
<1>4. IsFresh(disk, e)
  BY <1>1, LogsAreLogs DEF OnceInv, LogsAreOfIssued, IsFresh
<1>5. \A f : ReplayedFile(M, f) = ReplayedFile(disk, f)
  <2> TAKE f
  <2>1. PICK req : req = RequestOf(M, e.pid)
    OBVIOUS
  <2>2. ReplayedFile(M, f) = ReplayedAfter(disk, e, req, f)
    BY <1>1, <1>2, <1>3, <1>4, <2>1, ReplayAfter
  <2> QED
    BY <2>2 DEF ReplayedAfter
<1>6. \A pid \in Pids :
        /\ Holds(M, "receipt", pid) <=> Holds(disk, "receipt", pid)
        /\ Holds(disk, "proposal", pid) => Holds(M, "proposal", pid)
        /\ Holds(disk, "receipt", pid) => LatestReceipt(M, pid) = LatestReceipt(disk, pid)
  <2> TAKE pid \in Pids
  <2>1. ~IsOf(e, "receipt", pid)
    BY DEF IsOf
  <2> QED
    BY <1>1, <1>2, <2>1, FindLatestAppend DEF LatestReceipt
<1>7. \A i \in DOMAIN runs : runs[i].pid \in Pids
  BY <1>1, RunFields
<1>8. CASE disk' = disk
  BY <1>8 DEF ReceiptUndoesRun, FilesInv
<1>9. CASE disk' = M
  BY <1>5, <1>6, <1>7, <1>9 DEF ReceiptUndoesRun, FilesInv
<1> QED
  BY <1>2, <1>8, <1>9


(* The steps that change no file and write no receipt: the call of the     *)
(* process owes no receipt before or after them, or the same one.          *)
LEMMA QuietKeepsFiles ==
    ASSUME OnceInv, FilesInv, NEW p, Procs = {p}, runs' = runs, files' = files,
           NEW e \in Event, e.kind # "receipt", e.kind = "proposal" => e.pid \notin issued,
           disk' = disk \/ disk' = Append(disk, e),
           \/ ~Logging(p)' /\ (Logging(p) => faults' # 0)
           \/ Logging(p) /\ Logging(p)' /\ call'[p] = call[p],
           faults' = 0 /\ undone' = {} => faults = 0 /\ undone = {}
    PROVE  FilesInv'
<1>1. /\ \A f : ReplayedFile(disk', f) = ReplayedFile(disk, f)
      /\ ReceiptUndoesRun'
      /\ \A pid \in Pids : Holds(disk', "receipt", pid) => Holds(disk', "proposal", pid)
  BY OtherAppends
<1>2. \A i \in DOMAIN runs' :
          Logging(p)' /\ runs'[i].pid = call'[p].pid /\ runs'[i].pre # runs'[i].post
              => Undoes(call'[p].undo, runs'[i])
  BY DEF FilesInv
<1>3. ASSUME NEW f \in Paths, faults' = 0, undone' = {}
      PROVE  files'[f] = IF Due(p, f)' THEN Left(call'[p].req) ELSE ReplayedFile(disk', f)
  BY <1>1, <1>3 DEF FilesInv, Due
<1>4. \A i \in DOMAIN runs' :
          (Logging(p) /\ runs[i].pid = call[p].pid /\ runs[i].pre # runs[i].post
              => Undoes(call[p].undo, runs[i]))'
  BY <1>2 DEF Undoes
<1> QED
  BY <1>1, <1>3, <1>4 DEF FilesInv

(* A run: its call owes the receipt, if it has changed the file.           *)
LEMMA RunKeepsFiles ==
    ASSUME OnceInv, LifeInv, FilesInv, NEW p, Procs = {p}, Execute(p) \/ ToolRaises(p)
    PROVE  FilesInv'
<1>1. TypeOK /\ p \in Procs /\ disk \in Seq(Event)
  BY DEF OnceInv, AuthInv, TypeOK
<1>2. PICK pid \in Pids, req \in Requests :
          /\ pid = call[p].pid /\ req = call[p].req /\ pc[p] = "execute" /\ disk' = disk
          /\ undone' = undone /\ req.path \in Paths
  BY <1>1, CallFields DEF Execute, ToolRaises
<1>3. PICK post : /\ runs' = Append(runs, RunEntry(p, req, post)) /\ post \in FileState
                  /\ Execute(p) => post = FileAfter(req)
                  /\ ToolRaises(p) => post = files[req.path]
  <2>1. \E post : /\ runs' = Append(runs, RunEntry(p, req, post)) /\ post \in FileState
                  /\ Execute(p) => post = FileAfter(req)
                  /\ ToolRaises(p) => post = files[req.path]
    <3>1. pc[p] = "execute" /\ call[p] \in Call /\ call[p].req.content \in Contents
      BY <1>1, <1>2, CallFields
    <3>2. CASE Execute(p)
      <4>1. FileAfter(req) \in FileState /\ runs' = Append(runs, RunEntry(p, req, FileAfter(req)))
        BY <1>1, <1>2, <3>1, <3>2 DEF Execute, FileAfter, FileState, TypeOK
      <4>2. ~ToolRaises(p)
        BY <1>1, <1>2, <3>2 DEF Execute, ToolRaises, TypeOK
      <4> QED
        BY <3>2, <4>1, <4>2
    <3>3. CASE ToolRaises(p)
      <4>1. /\ files[req.path] \in FileState
            /\ runs' = Append(runs, RunEntry(p, req, files[req.path]))
        BY <1>1, <1>2, <3>3 DEF ToolRaises, TypeOK
      <4>2. ~Execute(p)
        BY <1>1, <1>2, <3>3 DEF Execute, ToolRaises, TypeOK
      <4> QED
        BY <3>3, <4>1, <4>2
    <3> QED
      BY <3>2, <3>3
  <2> QED
    BY <2>1
<1> DEFINE r == RunEntry(p, req, post)
<1>4. /\ r \in Run /\ r.pid = pid /\ r.path = req.path /\ r.pre = files[req.path] /\ r.post = post
      /\ runs' = Append(runs, r)
  BY <1>1, <1>2, <1>3, CallFields DEF RunEntry, Run, TypeOK
<1> HIDE DEF r
<1>5. /\ \A i \in DOMAIN runs' : runs'[i] = r \/ (i \in DOMAIN runs /\ runs'[i] = runs[i])
      /\ \A i \in DOMAIN runs : runs[i].pid # pid
  <2>1. /\ DOMAIN runs = 1..Len(runs) /\ Len(runs) \in Nat
        /\ DOMAIN runs' = 1..(Len(runs) + 1)
        /\ \A i \in 1..Len(runs) : runs'[i] = runs[i]
        /\ runs'[Len(runs) + 1] = r
    BY <1>1, <1>4, AppendProperties, LenProperties DEF TypeOK
  <2>2. \A i \in DOMAIN runs : runs[i].pid # pid
    <3>1. \A i \in DOMAIN runs : runs[i].by \in Procs
      BY <1>1, RunFields
    <3> QED
      BY <1>1, <1>2, <3>1 DEF OnceInv, RunsAreRemembered
  <2> QED
    BY <2>1, <2>2
<1>6. ReceiptUndoesRun' /\ \A q \in Pids : Holds(disk', "receipt", q) => Holds(disk', "proposal", q)
  <2>1. ~Holds(disk, "receipt", pid)
    <3>1. StatusIn(disk, pid) = "approved"
      BY <1>1, <1>2 DEF LifeInv
    <3> QED
      BY <3>1 DEF LifeInv, StatusIn
  <2> QED
    BY <1>2, <1>4, <1>5, <2>1 DEF FilesInv, ReceiptUndoesRun
<1>7. CASE ToolRaises(p)
  <2>1. /\ files' = files /\ faults' = faults + 1 /\ faults \in Nat /\ ~Logging(p)'
    BY <1>1, <1>7 DEF ToolRaises, TypeOK, Logging
  <2>2. faults' # 0
    BY <2>1
  <2> QED
    BY <1>6, <2>1, <2>2 DEF FilesInv
<1>8. CASE Execute(p)
  <2>1. PICK success \in ToolOutcomes(req) :
          /\ files' = [files EXCEPT ![req.path] = FileAfter(req)]
          /\ call' = [call EXCEPT ![p].success = success, ![p].undo = UndoOf(req, success)]
    BY <1>2, <1>8 DEF Execute
  <2>2. /\ call'[p].success = success /\ call'[p].undo = UndoOf(req, success)
        /\ call'[p].pid = pid /\ call'[p].req = req
        /\ Logging(p)' /\ ~Logging(p) /\ faults' = faults
    <3>1. call[p] \in Call
      BY <1>1, <1>2, CallFields
    <3> QED
      BY <1>1, <1>2, <1>8, <2>1, <3>1 DEF Execute, TypeOK, Call, Logging
  <2>3. /\ req.action = "write_file" => success = TRUE
        /\ req.action = "delete_file" => success = (files[req.path] # Absent)
    BY DEF ToolOutcomes
  <2>4. r.pre # r.post => Undoes(call'[p].undo, r)
    BY <1>3, <1>4, <1>8, <2>2, <2>3 DEF FileAfter, UndoOf, Undoes
  <2>5. \A i \in DOMAIN runs' : runs'[i].pid = pid /\ runs'[i].pre # runs'[i].post
              => Undoes(call'[p].undo, runs'[i])
    BY <1>5, <2>4
  <2>6. ASSUME NEW f \in Paths, faults' = 0, undone' = {}
        PROVE  files'[f] = IF Due(p, f)' THEN Left(call'[p].req) ELSE ReplayedFile(disk', f)
    <3>1. files[f] = ReplayedFile(disk, f)
      BY <1>1, <1>2, <2>2, <2>6 DEF FilesInv, Due
    <3>2. files'[f] = IF f = req.path THEN FileAfter(req) ELSE files[f]
      BY <1>1, <2>1 DEF TypeOK
    <3>3. Due(p, f)' <=> success /\ Mutates(req) /\ req.path = f
      BY <2>2 DEF Due
    <3> QED
      BY <1>2, <2>2, <2>3, <3>1, <3>2, <3>3 DEF FileAfter, Left, Mutates
  <2> QED
    BY <1>1, <1>6, <2>2, <2>5, <2>6 DEF FilesInv, Undoes
<1> QED
  BY <1>7, <1>8

(* The receipt tells what the call's locals told.                          *)
LEMMA ReceiptKeepsFiles ==
    ASSUME OnceInv, RequestInv, LifeInv, FilesInv, NEW p, Procs = {p}, LogReceipt(p)
    PROVE  FilesInv'
<1>1. TypeOK /\ p \in Procs /\ disk \in Seq(Event)
  BY DEF OnceInv, AuthInv, TypeOK
<1>2. PICK pid \in Pids, req \in Requests :
          /\ pid = call[p].pid /\ req = call[p].req /\ pc[p] = "log_receipt"
          /\ call[p].success \in BOOLEAN
  BY <1>1, CallFields DEF LogReceipt
<1> DEFINE e == ReceiptEvent(pid, call[p].success, call[p].undo)
<1>3. /\ e \in Event /\ e.kind = "receipt" /\ e.pid = pid
      /\ e.success = call[p].success /\ e.undo = call[p].undo
  BY <1>1, <1>2, CallFields, EventsAreEvents DEF ReceiptEvent
<1>4. /\ Record(p, e, "idle", NoCall) /\ runs' = runs /\ files' = files /\ undone' = undone
  BY <1>2 DEF LogReceipt
<1> HIDE DEF e
<1>5. PICK M : M = Append(disk, e)
  OBVIOUS
<1>6. /\ ~Logging(p)' /\ faults \in Nat
      /\ \/ disk' = M /\ faults' = faults
         \/ disk' = disk /\ faults' = faults + 1
  BY <1>1, <1>4, <1>5 DEF Record, TypeOK, Logging
<1>7. Holds(disk, "proposal", pid)
  BY <1>1, <1>2 DEF LifeInv
<1>8. CASE disk' = disk /\ faults' = faults + 1
  <2>1. faults' # 0
    BY <1>6, <1>8
  <2> QED
    BY <1>4, <1>6, <1>8, <2>1 DEF FilesInv, ReceiptUndoesRun
<1>9. CASE disk' = M /\ faults' = faults
  <2>1. ASSUME NEW q \in Pids
        PROVE  /\ Holds(M, "receipt", q) <=> Holds(disk, "receipt", q) \/ q = pid
               /\ Holds(disk, "proposal", q) => Holds(M, "proposal", q)
               /\ q = pid => LatestReceipt(M, q) = e
               /\ q # pid /\ Holds(disk, "receipt", q) => LatestReceipt(M, q) = LatestReceipt(disk, q)
    <3>1. IsOf(e, "receipt", q) <=> q = pid
      BY <1>3 DEF IsOf
    <3> QED
      BY <1>1, <1>3, <1>5, <3>1, FindLatestAppend DEF LatestReceipt
  <2>2. \A i \in DOMAIN runs : runs[i].pid \in Pids
    BY <1>1, RunFields
  <2>3. ReceiptUndoesRun'
    <3> SUFFICES ASSUME NEW i \in DOMAIN runs, runs[i].pre # runs[i].post,
                        Holds(M, "receipt", runs[i].pid)
                 PROVE  Undoes(LatestReceipt(M, runs[i].pid).undo, runs[i])
      BY <1>4, <1>9 DEF ReceiptUndoesRun, Undoes
    <3>1. CASE runs[i].pid = pid
      <4>1. Undoes(call[p].undo, runs[i])
        BY <1>1, <1>2, <3>1 DEF FilesInv, Logging
      <4> QED
        BY <1>3, <2>1, <2>2, <3>1, <4>1
    <3>2. CASE runs[i].pid # pid
      BY <2>1, <2>2, <3>2 DEF FilesInv, ReceiptUndoesRun, Undoes
    <3> QED
      BY <3>1, <3>2
  <2>4. \A q \in Pids : Holds(disk', "receipt", q) => Holds(disk', "proposal", q)
    BY <1>7, <1>9, <2>1 DEF FilesInv
  <2>5. RequestOf(M, pid) = req
    <3>1. Holds(M, "proposal", pid) /\ RequestOf(M, pid) = RequestOf(disk, pid)
      <4>1. ~IsOf(e, "proposal", pid)
        BY <1>3 DEF IsOf
      <4> QED
        BY <1>1, <1>3, <1>5, <1>7, <2>1, <4>1, RequestAfter
    <3>2. PICK i \in DOMAIN disk : IsOf(disk[i], "proposal", pid)
                                   /\ FindLatest(disk, "proposal", pid) = disk[i]
      BY <1>1, <1>7, FindLatestIs
    <3>3. disk[i] \in Told /\ RequestOf(disk, pid) = disk[i].req /\ Proposes(disk[i], pid)
      BY <1>1, <3>2, LogsAreLogs, ToldIsLogs DEF RequestOf, Proposes, IsOf
    <3>4. disk[i].req = req
      BY <1>1, <1>2, <3>3 DEF RequestInv, CallsKeepRequest
    <3> QED
      BY <3>1, <3>3, <3>4
  <2>6. ASSUME NEW f \in Paths, faults' = 0, undone' = {}
        PROVE  files'[f] = ReplayedFile(M, f)
    <3>1. files[f] = IF Due(p, f) THEN Left(req) ELSE ReplayedFile(disk, f)
      BY <1>1, <1>2, <1>4, <1>9, <2>6 DEF FilesInv
    <3>2. Due(p, f) <=> call[p].success /\ Mutates(req) /\ req.path = f
      BY <1>2 DEF Due, Logging
    <3>3. ReplayedFile(M, f) = ReplayedAfter(disk, e, req, f)
      <4>1. ReceiptsProposed(disk)
        BY <1>1, ReceiptsAreProposed
      <4>2. IsFresh(disk, e) /\ req = RequestOf(M, e.pid)
        BY <1>3, <2>5 DEF IsFresh
      <4> QED
        BY <1>1, <1>3, <1>5, <4>1, <4>2, ReplayAfter
    <3> QED
      BY <1>3, <1>4, <3>1, <3>2, <3>3 DEF ReplayedAfter
  <2> QED
    BY <1>1, <1>6, <1>9, <2>3, <2>4, <2>6 DEF FilesInv, Due
<1> QED
  BY <1>6, <1>8, <1>9

(* The steps that write no event, change no file and run nothing.          *)
LEMMA SilentKeepsFiles ==
    ASSUME FilesInv, NEW p, Procs = {p}, runs' = runs, files' = files, disk' = disk,
           undone' = undone,
           \/ ~Logging(p)' /\ ~Logging(p)
           \/ ~Logging(p)' /\ faults' # 0
           \/ Logging(p)' = Logging(p) /\ call'[p] = call[p],
           faults' = 0 => faults = 0
    PROVE  FilesInv'
<1>1. \A i \in DOMAIN runs' :
          (Logging(p) /\ runs[i].pid = call[p].pid /\ runs[i].pre # runs[i].post
              => Undoes(call[p].undo, runs[i]))'
  BY DEF FilesInv, Undoes
<1>2. ASSUME NEW f \in Paths, faults' = 0, undone' = {}
      PROVE  files'[f] = IF Due(p, f)' THEN Left(call'[p].req) ELSE ReplayedFile(disk', f)
  BY <1>2 DEF FilesInv, Due
<1> QED
  BY <1>1, <1>2 DEF FilesInv, ReceiptUndoesRun

LEMMA FilesStep ==
    ASSUME NEW p, Procs = {p}
    PROVE  OnceInv /\ RequestInv /\ LifeInv /\ FilesInv /\ [Next]_vars => FilesInv'
<1> SUFFICES ASSUME OnceInv, RequestInv, LifeInv, FilesInv, [Next]_vars
             PROVE  FilesInv'
  OBVIOUS
<1> DEFINE Goal == FilesInv'
<1>0. TypeOK /\ p \in Procs /\ faults \in Nat
  BY DEF OnceInv, AuthInv, TypeOK
<1>1. ASSUME Open(p) \/ Close(p) \/ Crash(p) \/ OtherAppendRaises(p) \/ UNCHANGED vars PROVE Goal
  <2>1. /\ disk' = disk /\ runs' = runs /\ files' = files /\ undone' = undone
        /\ faults' = faults \/ faults' = faults + 1
        /\ \/ ~Logging(p)' /\ ~Logging(p)
           \/ ~Logging(p)' /\ faults' = faults + 1
           \/ pc'[p] = pc[p] /\ call'[p] = call[p]
    BY <1>0, <1>1 DEF Open, Close, Crash, OtherAppendRaises, Leave, TypeOK, vars, Logging
  <2>2. faults + 1 # 0
    BY <1>0
  <2>3. pc'[p] = pc[p] => Logging(p)' = Logging(p)
    BY DEF Logging
  <2> QED
    BY <2>1, <2>2, <2>3, SilentKeepsFiles
<1>2. ASSUME NEW e \in Event, NEW then \in Stages, NEW locals, Record(p, e, then, locals),
             e.kind # "receipt", e.kind = "proposal" => e.pid \notin issued,
             then = "log_receipt" => pc[p] = "log_execution" /\ locals = call[p],
             then # "log_receipt" => ~(pc[p] \in {"log_execution", "log_receipt"}),
             then # "log_execution", runs' = runs, files' = files, undone' = undone
      PROVE  Goal
  <2>1. /\ disk' = disk \/ disk' = Append(disk, e)
        /\ \/ faults' = faults /\ pc'[p] = then
              /\ (then # "idle" => call'[p] = locals)
           \/ faults' = faults + 1 /\ pc'[p] = "idle"
    BY <1>0, <1>2 DEF Record, TypeOK
  <2>2. faults + 1 # 0
    BY <1>0
  <2>3. \/ ~Logging(p)' /\ (Logging(p) => faults' # 0)
        \/ Logging(p) /\ Logging(p)' /\ call'[p] = call[p]
    BY <1>2, <2>1, <2>2 DEF Logging
  <2>4. faults' = 0 /\ undone' = {} => faults = 0 /\ undone = {}
    BY <1>2, <2>1, <2>2
  <2> QED
    BY <1>2, <2>1, <2>3, <2>4, QuietKeepsFiles
<1>3. ASSUME Handle(p) PROVE Goal
  <2>1. PICK pid \in Pids \ issued, req \in Requests, confirm \in BOOLEAN :
          Record(p, ProposalEvent(pid, req), "decide",
                 [NoCall EXCEPT !.pid = pid, !.req = req, !.confirm = confirm])
    BY <1>3 DEF Handle
  <2> DEFINE e == ProposalEvent(pid, req)
             locals == [NoCall EXCEPT !.pid = pid, !.req = req, !.confirm = confirm]
  <2>2. e \in Event /\ e.kind = "proposal" /\ e.pid = pid
    BY <2>1, EventsAreEvents DEF ProposalEvent
  <2>3. Record(p, e, "decide", locals) /\ pc[p] = "idle" /\ runs' = runs /\ files' = files
        /\ undone' = undone
    BY <1>3, <2>1 DEF Handle
  <2>4. "decide" \in Stages
    BY DEF Stages
  <2> HIDE DEF e, locals
  <2> QED
    BY <1>2, <2>1, <2>2, <2>3, <2>4
<1>4. ASSUME NEW pid \in Pids, NEW d \in Decisions, NEW by \in {"policy", "operator"},
             NEW then \in {"idle", "confirm", "execute"}, NEW locals,
             Record(p, DecisionEvent(pid, d, by), then, locals),
             pc[p] \in {"idle", "decide", "confirm"},
             runs' = runs, files' = files, undone' = undone
      PROVE  Goal
  <2> DEFINE e == DecisionEvent(pid, d, by)
  <2>1. e \in Event /\ e.kind = "policy_decision" /\ Record(p, e, then, locals)
    BY <1>4, EventsAreEvents DEF DecisionEvent
  <2>2. then \in Stages /\ then # "log_receipt" /\ then # "log_execution"
        /\ pc[p] \notin {"log_execution", "log_receipt"}
    BY <1>4 DEF Stages
  <2> HIDE DEF e
  <2> QED
    BY <1>2, <1>4, <2>1, <2>2
<1>5. ASSUME Decide(p) PROVE Goal
  <2> DEFINE d == Evaluate(mem[p], call[p].req)
             then == AfterDecision(d, call[p].confirm)
  <2>1. /\ pc[p] = "decide" /\ Record(p, DecisionEvent(call[p].pid, d, "policy"), then, call[p])
        /\ runs' = runs /\ files' = files /\ undone' = undone
        /\ call[p].pid \in Pids /\ d \in Decisions
    BY <1>0, <1>5, CallFields, EvaluateType DEF Decide
  <2>2. then \in {"idle", "confirm", "execute"}
    BY DEF AfterDecision
  <2> HIDE DEF d, then
  <2> QED
    BY <1>4, <2>1, <2>2
<1>6. ASSUME Confirm(p) PROVE Goal
  <2>1. call[p].pid \in Pids /\ pc[p] = "confirm"
        /\ Record(p, DecisionEvent(call[p].pid, "approve", "operator"), "execute", call[p])
        /\ runs' = runs /\ files' = files /\ undone' = undone
    BY <1>0, <1>6, CallFields DEF Confirm
  <2>2. "approve" \in Decisions
    BY DEF Decisions
  <2> QED
    BY <1>4, <2>1, <2>2
<1>7. ASSUME Approve(p) PROVE Goal
  <2>1. PICK pid \in Pids :
          Record(p, DecisionEvent(pid, "approve", "operator"), "execute",
                 [NoCall EXCEPT !.pid = pid, !.req = RequestOf(mem[p], pid), !.confirm = TRUE])
    BY <1>7 DEF Approve
  <2>2. "approve" \in Decisions /\ pc[p] = "idle" /\ runs' = runs /\ files' = files
        /\ undone' = undone
    BY <1>7 DEF Approve, Decisions
  <2> QED
    BY <1>4, <2>1, <2>2
<1>8. ASSUME Reject(p) PROVE Goal
  <2>1. PICK pid \in Pids : Record(p, DecisionEvent(pid, "deny", "operator"), "idle", NoCall)
    BY <1>8 DEF Reject
  <2>2. "deny" \in Decisions /\ pc[p] = "idle" /\ runs' = runs /\ files' = files
        /\ undone' = undone
    BY <1>8 DEF Reject, Decisions
  <2> QED
    BY <1>4, <2>1, <2>2
<1>9. ASSUME LogExecution(p) PROVE Goal
  <2> DEFINE e == ExecutionEvent(call[p].pid, call[p].req.action)
  <2>1. e \in Event /\ e.kind = "execution"
    BY <1>0, <1>9, CallFields, EventsAreEvents DEF LogExecution, ExecutionEvent
  <2>2. Record(p, e, "log_receipt", call[p]) /\ pc[p] = "log_execution" /\ runs' = runs
        /\ files' = files /\ undone' = undone
    BY <1>9 DEF LogExecution
  <2>3. "log_receipt" \in Stages
    BY DEF Stages
  <2> HIDE DEF e
  <2> QED
    BY <1>2, <2>1, <2>2, <2>3
<1>10. ASSUME Execute(p) \/ ToolRaises(p) PROVE Goal
  BY <1>10, RunKeepsFiles
<1>11. ASSUME LogReceipt(p) PROVE Goal
  BY <1>11, ReceiptKeepsFiles
<1>12. ASSUME Rollback(p) PROVE Goal
  <2>1. /\ disk' = disk /\ runs' = runs /\ pc' = pc /\ call' = call /\ faults' = faults
        /\ undone' # {}
    BY <1>12 DEF Rollback
  <2> QED
    BY <2>1 DEF FilesInv, ReceiptUndoesRun, Logging, Undoes
<1> QED
  BY <1>1, <1>3, <1>5, <1>6, <1>7, <1>8, <1>9, <1>10, <1>11, <1>12 DEF Next

(* A receipt of one process tells how to undo its run, and with no fault   *)
(* and no rollback the log alone reproduces the workspace between calls.   *)
THEOREM ReceiptsTell == ASSUME NEW p, Procs = {p} PROVE Spec => []ReceiptsTellFiles
<1>1. Init => LifeInv /\ FilesInv
  <2> SUFFICES ASSUME Init PROVE LifeInv /\ FilesInv
    OBVIOUS
  <2>1. disk = <<>> /\ runs = <<>> /\ pc[p] = "down" /\ files = InitialFiles
    BY DEF Init
  <2>2. LifeInv
    BY <2>1 DEF Init, LifeInv, StatusIn, LatestDecision, Holds, Occurrences
  <2>3. \A f : ReplayedFile(disk, f) = InitialFiles[f]
    BY <2>1 DEF ReplayedFile
  <2>4. \A f : ~Due(p, f) /\ ~Logging(p)
    BY <2>1 DEF Due, Logging
  <2>5. \A pid : ~Holds(disk, "receipt", pid)
    BY <2>1 DEF Holds, Occurrences
  <2> QED
    BY <2>1, <2>2, <2>3, <2>4, <2>5 DEF FilesInv, ReceiptUndoesRun
<1>2. OnceInv /\ LifeInv /\ [Next]_vars => LifeInv'
  BY LifeStep
<1>3. OnceInv /\ RequestInv /\ LifeInv /\ FilesInv /\ [Next]_vars => FilesInv'
  BY FilesStep
<1>4. FilesInv => ReceiptsTellFiles
  <2> SUFFICES ASSUME FilesInv PROVE ReceiptsTellFiles
    OBVIOUS
  <2>1. ASSUME faults = 0, undone = {}, pc[p] \in {"down", "idle"}, NEW f \in Paths
        PROVE  files[f] = ReplayedFile(disk, f)
    BY <2>1 DEF FilesInv, Due, Logging
  <2> QED
    BY <2>1 DEF ReceiptsTellFiles, WorkspaceIsReplayable, FilesInv
<1> QED
  BY <1>1, <1>2, <1>3, <1>4, OnceAlways, RequestAlways, PTL DEF Spec
=============================================================================
