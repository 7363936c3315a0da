--------------------------- MODULE MCFetchService ---------------------------
(* Small instances of FetchService for TLC.                                 *)
EXTENDS FetchService

Row(kind, height, number) ==
    [entity |-> kind, blockHeight |-> height, id |-> number]

\* Two events in one block, more below an extrinsic, one beside it: an answer of
\* two rows ends before the other entity's first. Blocks 1, 5 and 6 have nothing.
MCRows == {Row("events", 2, 1), Row("events", 2, 2), Row("events", 3, 3),
           Row("events", 4, 4), Row("extrinsics", 4, 1)}

\* A runtime upgrade takes effect in the block after height 2.
MCRuntimeAt == [h \in 0 .. MaxHeight + BestLead |-> IF h < 2 THEN 1 ELSE 2]
=============================================================================
