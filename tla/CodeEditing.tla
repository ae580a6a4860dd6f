----------------------------- MODULE CodeEditing -----------------------------
(***************************************************************************)
(* The patch engine on a file of lines.  A line has the top-level function *)
(* or class it is part of and a text; the hash of a content is the content.*)
(***************************************************************************)
EXTENDS Integers, Sequences, SequencesExt

Blank == [symbol |-> "", text |-> ""]

\* Slices, slice_lines and lines[: lo - 1] + replacement + lines[hi :], for 1 <= lo.
Before(lines, lo) == SubSeq(lines, 1, Min({lo - 1, Len(lines)}))
Slice(lines, lo, hi) == SubSeq(lines, lo, Min({hi, Len(lines)}))

\* The newline at the end is kept: of a file that is emptied a blank line is left.
Replace(lines, lo, hi, replacement) ==
    LET joined == Before(lines, lo) \o replacement \o SubSeq(lines, hi + 1, Len(lines))
    IN  IF joined = <<>> /\ lines # <<>> THEN <<Blank>> ELSE joined

\* '\n'.join(block).splitlines(): a blank line at the end is gone.
Rejoined(block) == IF block # <<>> /\ block[Len(block)] = Blank THEN Front(block) ELSE block

\* Mutant: the undo record has the range of what was taken out.
UndoOldRange(lines, lo, hi, replacement) ==
    [lo |-> lo, hi |-> hi, text |-> Rejoined(Slice(lines, lo, hi))]

\* The undo record of a patch: the range of what was put in, one line at least.
Undo(lines, lo, hi, replacement) ==
    [lo |-> lo, hi |-> lo + Max({Len(replacement), 1}) - 1, text |-> Rejoined(Slice(lines, lo, hi))]

\* The lines of the top-level definition of that name, <<0, 0>> if there is none.
FindSymbol(lines, symbol) ==
    LET at == {i \in DOMAIN lines : lines[i].symbol = symbol}
    IN  IF at = {} THEN <<0, 0>> ELSE <<Min(at), Max(at)>>
=============================================================================
