-------------------------- MODULE ProposalLifecycle --------------------------
(***************************************************************************)
(* What the operator is promised about one proposal: it is decided before  *)
(* anything runs, its tool runs at most once and only while it stands      *)
(* approved, it completes only after its tool ran, and a denied proposal   *)
(* is never approved again.  LuciferRuntime with a single process is       *)
(* checked to implement this.                                              *)
(***************************************************************************)
EXTENDS FiniteSets

CONSTANT Pids

VARIABLES
    status,   \* what the durable log says of each proposal
    ran       \* the proposals whose tool has been invoked

vars == <<status, ran>>

Status == {"none", "proposed", "pending", "approved", "denied", "completed"}

TypeOK == status \in [Pids -> Status] /\ ran \subseteq Pids

Init == status = [pid \in Pids |-> "none"] /\ ran = {}

Become(pid, s) == status' = [status EXCEPT ![pid] = s] /\ UNCHANGED ran

Propose(pid) == status[pid] = "none" /\ Become(pid, "proposed")

Suspend(pid) == status[pid] = "proposed" /\ Become(pid, "pending")

Approve(pid) == status[pid] \in {"proposed", "pending"} /\ Become(pid, "approved")

\* The operator may reject whatever has not completed, what ran included.
Deny(pid) == status[pid] # "completed" /\ Become(pid, "denied")

Run(pid) ==
    /\ status[pid] = "approved"
    /\ pid \notin ran
    /\ ran' = ran \cup {pid}
    /\ UNCHANGED status

Complete(pid) ==
    /\ status[pid] = "approved"
    /\ pid \in ran
    /\ Become(pid, "completed")

Next == \E pid \in Pids :
    Propose(pid) \/ Suspend(pid) \/ Approve(pid) \/ Deny(pid) \/ Run(pid) \/ Complete(pid)

Spec == Init /\ [][Next]_vars
=============================================================================
