--------------------------- MODULE MCLuciferRuntime ---------------------------
(* Small instances of LuciferRuntime: one file, one allowlisted command.   *)
EXTENDS LuciferRuntime

CONSTANTS
    f1, old, new, ls, huge, rm,
    MaxLog        \* bound: rows of the event file

Request(action, content) == [action |-> action, path |-> f1, content |-> content]

MCRequests == {Request("write_file", new), Request("delete_file", old),
               Request("shell_command", ls)}

MCRequestsWide == MCRequests \cup
    {Request("write_file", huge), Request("read_file", old), Request("analysis", old),
     Request("unknown", old), Request("shell_command", rm)}

MCInitialFiles == [f \in Paths |-> old]

\* States at the bound are checked and not extended.
ShortLog == Len(disk) < MaxLog

Symmetry == Permutations(Pids) \cup Permutations(Procs)
=============================================================================
