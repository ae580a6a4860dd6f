---------------------------- MODULE MCWorkspace ----------------------------
(* Small instances of Workspace.                                           *)
EXTENDS Workspace

MCSymmetry == Permutations(Procs)
MCCode == <<[symbol |-> "f", text |-> "old"], Blank, [symbol |-> "g", text |-> "old"]>>
MCRanges == {<<1, 1>>, <<1, 2>>, <<2, 1>>}
MCKinds == {"directive", "continuity", "trust", "curriculum", "fixnet", "verdict", "run", "code",
            "profile"}
\* Patches that fit, of a path without protection and of a guarded one, one
\* that fails its verification and one that does not fit.
MCRunPatches ==
    {[path |-> {}, result |-> r] : r \in {"ok", "unverified", "misfit"}}
    \cup {[path |-> {"cognition_services/critic"}, result |-> "ok"]}
OnlyLessons == {"curriculum"}

\* Commands that share no file and no pack run one after the other: in what
\* order their steps come changes nothing of what either does.
Touched(steps) ==
    ({steps[i].file : i \in DOMAIN steps} \ {"log"})
    \cup (IF \E i \in DOMAIN steps : steps[i].op = "court"
          THEN {"trust", "curriculum", "fixes", "pack", "index", "edges", "consensus"} ELSE {})
OverlapsContend ==
    \A p, q \in Procs :
        (p # q /\ Busy(p) /\ proc[q].todo = <<>> /\ proc'[q].todo # <<>>) =>
            Touched(proc[p].todo) \cap Touched(proc'[q].todo) # {}

\* A validation or promotion is made of the steps of shorter commands, and
\* overlaps with these only.
ShortLength == 7
Long(steps) == Len(steps) > ShortLength \/ \E i \in DOMAIN steps : steps[i].op = "court"
LongMeetsShort ==
    \A p, q \in Procs :
        p # q => ~(Long(proc'[p].todo) /\ proc[q].todo = <<>> /\ Long(proc'[q].todo))
=============================================================================
