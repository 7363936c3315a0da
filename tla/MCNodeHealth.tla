---------------------------- MODULE MCNodeHealth ----------------------------
(* A small instance of NodeHealth for TLC.                                   *)
EXTENDS NodeHealth

CONSTANTS early, late  \* two data sources

MCFromOne == [ds \in {early, late} |-> 1]

\* Blocks 1 and 3 have operations; 2 has none and may be skipped.
MCOperations == {<<early, 1>>, <<early, 3>>, <<late, 3>>}
MCNeeded == {1, 3}
=============================================================================
