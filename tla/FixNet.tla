------------------------------- MODULE FixNet -------------------------------
(***************************************************************************)
(* What the files of FixNet hold and how a call changes it: the fixes, the *)
(* edges between them, the consensus on each, and the index of the packs   *)
(* that mirror a fix in the archive.  Texts, times and scores are left     *)
(* out; how similar two fixes are is the novelty filter's free choice.     *)
(***************************************************************************)
EXTENDS Integers, FiniteSets

\* The index has no source_status until the first sync.
EmbedRow(index, id) == [index EXCEPT ![id] = "embedded"]
SyncRow(index, id, status) == [index EXCEPT ![id] = status]
NewIndex(Ids) == [id \in Ids |-> "absent"]

AddEdge(edges, parent, child) == edges \cup {<<parent, child>>}

\* The fixes a new one may be found similar to, 0 if it is novel: any but
\* itself.  The best of them is the parent of the edge that is added.
Nearest(fixes, id) == {0} \cup (fixes \ {id})

-----------------------------------------------------------------------------
(* Consensus: uses and successes, and the tier they give.                  *)

NewConsensus == [tier |-> "unknown", ok |-> 0, bad |-> 0]

ConsensusTier(ok, bad) ==
    LET total == ok + bad IN
    IF 100 * ok >= 75 * total /\ total >= 4 THEN "highly_trusted"
    ELSE IF 100 * ok >= 51 * total /\ total >= 2 THEN "trusted"
    ELSE IF 100 * ok < 30 * total /\ total >= 3 THEN "quarantined"
    ELSE "experimental"

ConsensusRecord(row, succeeded) ==
    LET ok == row.ok + (IF succeeded THEN 1 ELSE 0)
        bad == row.bad + (IF succeeded THEN 0 ELSE 1)
    IN  [tier |-> ConsensusTier(ok, bad), ok |-> ok, bad |-> bad]
=============================================================================
