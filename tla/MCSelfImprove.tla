---------------------------- MODULE MCSelfImprove ----------------------------
(* Small instances of SelfImprove.                                         *)
EXTENDS SelfImprove, ImmutableBaseline, TLC

MCPaths == <<"src", "docs">>

\* A patch of a protected file that passes, one that fails its verification
\* and the commands, one that only the commands find, and a fault.
MCPathOf == [core |-> "src", typo |-> "src", bug |-> "docs", cut |-> "docs"]

\* The files that the changes are of, by the baseline's patterns in them.
MCFile == [core |-> {"arc_kernel/policy"}, typo |-> {"fixnet/"}, bug |-> {}, cut |-> {}]
MCProtected == {c \in DOMAIN MCFile : ~CourtAllows(MCFile[c])}

MCSymmetry == Permutations(Runs)
=============================================================================
