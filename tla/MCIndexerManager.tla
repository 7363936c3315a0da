-------------------------- MODULE MCIndexerManager --------------------------
(* Small instances of IndexerManager for TLC.                               *)
EXTENDS IndexerManager

CONSTANTS early, late  \* two data sources

\* One of them starts later, or both at the first block.
MCTwoStarts == [ds \in {early, late} |-> IF ds = early THEN 1 ELSE 3]
MCFromOne == [ds \in {early, late} |-> 1]

\* Block 2 has operations of one source, 4 of both; 3 and 5 have none.
MCOperations == {<<early, 1>>, <<early, 2>>, <<early, 4>>, <<late, 4>>}
MCNeeded == {1, 2, 4, 5}
=============================================================================
