----------------------------- MODULE BlockStream -----------------------------
(* What the indexer is promised by the fetch service: blocks of a growing     *)
(* finalized chain, each height above the one before, with no needed height   *)
(* left out in between.  The consumer (node/src/indexer/indexer.manager.ts,   *)
(* indexBlock) is written against this promise: it stores the height of the   *)
(* last block and goes on from the height after it.                           *)
EXTENDS Integers

CONSTANTS
    MaxHeight,       \* bound: the chain finalizes up to this height
    InitBlockHeight, \* the first height asked for
    Needed           \* the heights that must not be left out

VARIABLES
    finalizedHead,   \* height of the chain's finalized head
    last             \* height of the block delivered last

Init ==
    /\ finalizedHead \in 0 .. MaxHeight
    /\ last = InitBlockHeight - 1

Finalize ==
    /\ finalizedHead < MaxHeight
    /\ finalizedHead' = finalizedHead + 1
    /\ UNCHANGED last

Deliver ==
    /\ last' \in last + 1 .. finalizedHead
    /\ \A h \in last + 1 .. last' - 1 : h \notin Needed
    /\ UNCHANGED finalizedHead

Next == Finalize \/ Deliver

Spec == Init /\ [][Next]_<<finalizedHead, last>>
=============================================================================
