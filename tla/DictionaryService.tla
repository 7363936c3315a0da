-------------------------- MODULE DictionaryService --------------------------
(* The dictionary: a remote index of the block heights that hold an event or *)
(* an extrinsic the project's handlers filter on                             *)
(* (node/src/indexer/dictionary.service.ts).  A row of the dictionary is one  *)
(* event or extrinsic, so several rows may share a height.  The dictionary    *)
(* answers from the rows it has itself processed, up to lastProcessedHeight.  *)
EXTENDS Integers, FiniteSets, Sequences

CONSTANT Rows  \* the matching rows of the whole chain

Entities == {"events", "extrinsics"}

ASSUME RowsAssumption ==
    /\ IsFiniteSet(Rows)
    /\ Rows \subseteq [entity : Entities, blockHeight : Nat, id : Nat]

\* Heights at which a handler of the project has something to do.
RelevantHeights == {row.blockHeight : row \in Rows}

\* Variant with a bug: the query starts a block early.
BugSelectedFromLast(entity, startBlock, queryEndBlock, lastProcessed) ==
    {row \in Rows : /\ row.entity = entity
                    /\ row.blockHeight >= startBlock - 1
                    /\ row.blockHeight < queryEndBlock
                    /\ row.blockHeight <= lastProcessed}

\* The rows buildDictQueryFragment selects: startBlock <= blockHeight <
\* queryEndBlock, as far as the dictionary has processed the chain.
Selected(entity, startBlock, queryEndBlock, lastProcessed) ==
    {row \in Rows : /\ row.entity = entity
                    /\ row.blockHeight >= startBlock
                    /\ row.blockHeight < queryEndBlock
                    /\ row.blockHeight <= lastProcessed}

\* orderBy BLOCK_HEIGHT_ASC, first: batchSize.  A height is in the answer when
\* fewer than batchSize selected rows lie below it.
NodeHeights(entity, startBlock, queryEndBlock, batchSize, lastProcessed) ==
    LET rows == Selected(entity, startBlock, queryEndBlock, lastProcessed)
    IN  {h \in {row.blockHeight : row \in rows} :
            Cardinality({row \in rows : row.blockHeight < h}) < batchSize}

\* Variant with a bug: the union of the answers is not cut at endBlock.
BugNoEndBlock(h, startBlock, queryEndBlock, batchSize, lastProcessed) == FALSE

\* A height is past the end of an entity's answer when that answer is not empty
\* and all of it lies below.  endBlock is the least of the last heights of the
\* entities that answered, so the heights up to it are those past no end.
PastSomeEnd(h, startBlock, queryEndBlock, batchSize, lastProcessed) ==
    \E entity \in Entities :
        LET heights == NodeHeights(entity, startBlock, queryEndBlock,
                                   batchSize, lastProcessed)
        IN  heights # {} /\ \A g \in heights : g < h

BatchHeights(startBlock, queryEndBlock, batchSize, lastProcessed) ==
    {h \in UNION {NodeHeights(entity, startBlock, queryEndBlock,
                              batchSize, lastProcessed) : entity \in Entities} :
        ~PastSomeEnd(h, startBlock, queryEndBlock, batchSize, lastProcessed)}

\* The elements of a finite set of heights in ascending order.
Ascending(heights) ==
    [i \in 1 .. Cardinality(heights) |->
        CHOOSE h \in heights : Cardinality({g \in heights : g < h}) = i - 1]

\* getDictionary(startBlock, queryEndBlock, batchSize, conditions).batchBlocks
BatchBlocks(startBlock, queryEndBlock, batchSize, lastProcessed) ==
    Ascending(BatchHeights(startBlock, queryEndBlock, batchSize, lastProcessed))
=============================================================================
