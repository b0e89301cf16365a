------------------------------ MODULE Grouping ------------------------------
(***************************************************************************)
(* groupAdjacentEntries: entries sorted by offset are merged into ranges   *)
(* that one read of the data blob covers.  An entry is any value e with an *)
(* offset off[e] and a stored size size[e].                                *)
(***************************************************************************)
EXTENDS Integers, Sequences, SequencesExt

\* rangeGroup
NewGroup(e, off, size) ==
    [start |-> off[e], end |-> off[e] + size[e], entries |-> <<e>>]

ExtendGroup(g, e, off, size) ==
    [g EXCEPT !.end = off[e] + size[e], !.entries = Append(@, e)]

\* The test of the loop: the entry begins where the current group ends.
Adjacent(g, e, off) == off[e] = g.end

AddEntry(groups, e, off, size) ==
    IF groups # <<>> /\ Adjacent(Last(groups), e, off)
    THEN Append(Front(groups), ExtendGroup(Last(groups), e, off, size))
    ELSE Append(groups, NewGroup(e, off, size))

GroupAdjacentEntries(entries, off, size) ==
    FoldLeft(LAMBDA groups, e : AddEntry(groups, e, off, size), <<>>, entries)
=============================================================================
