-------------------------- MODULE MC_BatchPipeline --------------------------
(* Small instances of BatchPipeline. *)
EXTENDS BatchPipeline

CONSTANTS r1, r2, r3

Sizes == <<2, 1, 2, 1>>

\* No budget; a single reader; a budget smaller than the groups together, the
\* last group being larger than all of it.
Pipelines ==
    {[size |-> Sizes, workers |-> {r1, r2, r3}, budget |-> 0],
     [size |-> Sizes, workers |-> {r1}, budget |-> 3],
     [size |-> <<2, 1, 2, 4>>, workers |-> {r1, r2, r3}, budget |-> 3]}

\* Two readers and a budget that each group fits in.
TwoReaders == {[size |-> Sizes, workers |-> {r1, r2}, budget |-> 3]}
=============================================================================
