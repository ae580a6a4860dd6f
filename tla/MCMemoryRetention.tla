------------------------- MODULE MCMemoryRetention -------------------------
(***************************************************************************)
(* Two records, days of two ticks, and retention counted in one or two     *)
(* days: a record can be created at either half of a day, mirrored before  *)
(* and after its cut-off, and be of any of the four kinds below.           *)
(***************************************************************************)
EXTENDS MemoryRetention, TLC

Plain == [pinned |-> FALSE, accessed |-> Never, due |-> Never, mode |-> "standard"]

CONSTANTS r1, r2

MCItems ==
    (r1 :> {Plain, [Plain EXCEPT !.pinned = TRUE]})
    @@ (r2 :> {Plain, [Plain EXCEPT !.accessed = 2], [Plain EXCEPT !.due = 5]})
=============================================================================
