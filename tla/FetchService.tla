---------------------------- MODULE FetchService ----------------------------
(* The fetch service of a SubQuery node (node/src/indexer/fetch.service.ts). *)
(* Two loops and a consumer run concurrently in one JavaScript thread, so    *)
(* control moves only where the code awaits:                                 *)
(*   fillNextBlockBuffer  decides which heights to fetch next, by range or    *)
(*                        by asking the dictionary, into blockNumberBuffer;   *)
(*   fillBlockBuffer      takes heights in batches and fetches their blocks   *)
(*                        into blockBuffer;                                   *)
(*   register             hands the blocks one by one to the indexer.         *)
(* An interval timer polls the finalized head: two RPC calls, with nothing    *)
(* that keeps a slow poll from being overtaken by a later one.                *)
EXTENDS BlockedQueue, DictionaryService

CONSTANTS
    BatchSize,              \* nodeConfig.batchSize
    MinimumBatchSize,       \* MINIMUM_BATCH_SIZE
    DictionaryMaxQuerySize, \* DICTIONARY_MAX_QUERY_SIZE
    InitBlockHeight,        \* the height startLoop is given
    UseDictionary,          \* a dictionary is configured and has query entries
    GenesisMatches,         \* the dictionary indexes the chain of this node
    ScaleBatchSize,         \* argv['scale-batch-size']
    MaxPolls,               \* bound: finalized-head polls in flight at once
    InitialPollMayFail,     \* the poll of init() may be lost (it is only logged)
    RpcMayFail,             \* a chain RPC of a loop, or the indexer, may fail
    MayShutDown,            \* the process may be told to shut down
    BestLead,               \* the best block is this far ahead of the finalized
    MaxHeight,              \* bound: the chain finalizes up to this height
    RuntimeAt               \* spec version of the runtime in a block's state

ASSUME FetchAssumption ==
    /\ BatchSize \in Nat \ {0}
    /\ MinimumBatchSize \in Nat \ {0}
    /\ DictionaryMaxQuerySize \in Nat \ {0}
    /\ InitBlockHeight \in Nat
    /\ UseDictionary \in BOOLEAN
    /\ GenesisMatches \in BOOLEAN
    /\ ScaleBatchSize \in BOOLEAN
    /\ MaxPolls \in Nat \ {0}
    /\ InitialPollMayFail \in BOOLEAN
    /\ RpcMayFail \in BOOLEAN
    /\ MayShutDown \in BOOLEAN
    /\ BestLead \in Nat
    /\ MaxHeight \in Nat
    /\ RuntimeAt \in [0 .. MaxHeight + BestLead -> Nat]

\* Substrate runtimes are only ever upgraded.
ASSUME RuntimeAssumption ==
    \A g, h \in 0 .. MaxHeight + BestLead : g <= h => RuntimeAt[g] <= RuntimeAt[h]

VARIABLES
    finalizedHead,          \* the chain's finalized head
    polls,                  \* heads read by polls that have not returned yet
    latestFinalizedHeight,
    latestBufferedHeight,   \* 0 stands for undefined too: both are falsy
    latestProcessedHeight,
    useDictionary,
    batchSizeScale,         \* in tenths
    parentSpecVersion,      \* 0 stands for undefined too
    isShutdown,
    blockNumberBuffer,
    blockBuffer,
    fillNext,               \* fillNextBlockBuffer: where it awaits, its locals
    fillBlock,              \* fillBlockBuffer: where it awaits, its locals
    register,               \* where the loop of register awaits
    indexing,               \* the block that loop holds, as a sequence
    exited,                 \* why the process ended, or "no"
    countedDown             \* history: a range of heights once counted down

vars == <<finalizedHead, polls, latestFinalizedHeight, latestBufferedHeight,
          latestProcessedHeight, useDictionary, batchSizeScale,
          parentSpecVersion, isShutdown, blockNumberBuffer, blockBuffer,
          fillNext, fillBlock, register, indexing, exited, countedDown>>

headVars == <<finalizedHead, polls, latestFinalizedHeight>>
fillNextVars == <<latestBufferedHeight, useDictionary, fillNext, countedDown>>
registerVars == <<latestProcessedHeight, register, indexing>>

Undefined == -1   \* latestFinalizedHeight before the first poll returns

QueueSize == BatchSize * 3

BestHead == finalizedHead + BestLead

Previous(height) == IF height = 0 THEN 0 ELSE height - 1

\* Variant with a bug: the finalized block itself is out of bounds.
BugAtFinalized(height) ==
    latestFinalizedHeight # Undefined /\ height >= latestFinalizedHeight

\* A comparison with undefined is false in JavaScript.
AboveFinalized(height) ==
    latestFinalizedHeight # Undefined /\ height > latestFinalizedHeight

Larger(a, b) == IF a > b THEN a ELSE b
Smaller(a, b) == IF a < b THEN a ELSE b

\* Math.round(batchSizeScale * batchSize)
RoundedBatchSize == (2 * batchSizeScale * BatchSize + 10) \div 20
ScaledBatchSize == Larger(RoundedBatchSize, MinimumBatchSize)

Init ==
    /\ finalizedHead \in 0 .. MaxHeight
    /\ polls = {}
    /\ latestFinalizedHeight \in
           {finalizedHead} \cup (IF InitialPollMayFail THEN {Undefined} ELSE {})
    /\ latestBufferedHeight = 0
    /\ latestProcessedHeight = InitBlockHeight - 1
    /\ useDictionary = UseDictionary
    /\ batchSizeScale = 10
    /\ parentSpecVersion = 0
    /\ isShutdown = FALSE
    /\ blockNumberBuffer = << >>
    /\ blockBuffer = << >>
    /\ fillNext = [pc |-> "meta", start |-> InitBlockHeight, size |-> 0]
    /\ fillBlock = [pc |-> "loop", batch |-> << >>, metadataChanged |-> FALSE]
    /\ register = "take"
    /\ indexing = << >>
    /\ exited = "no"
    /\ countedDown = FALSE

Running == exited = "no"

\* process.exit(1): what the loops held is gone, nothing else happens.
Exit(reason) ==
    /\ exited' = reason
    /\ UNCHANGED <<headVars, fillNextVars, registerVars, batchSizeScale,
                   parentSpecVersion, isShutdown, blockNumberBuffer,
                   blockBuffer, fillBlock>>
-----------------------------------------------------------------------------
(* The chain and the timers.                                                *)

ChainFinalizes ==
    /\ finalizedHead < MaxHeight
    /\ finalizedHead' = finalizedHead + 1
    /\ UNCHANGED <<polls, latestFinalizedHeight, fillNextVars, registerVars,
                   batchSizeScale, parentSpecVersion, isShutdown,
                   blockNumberBuffer, blockBuffer, fillBlock, exited>>

\* getFinalizedBlockHead: the first RPC call fixes the head the poll reports.
PollFinalizedHead ==
    /\ Running
    /\ Cardinality(polls) < MaxPolls
    /\ polls' = polls \cup {finalizedHead}
    /\ UNCHANGED <<finalizedHead, latestFinalizedHeight, fillNextVars,
                   registerVars, batchSizeScale, parentSpecVersion, isShutdown,
                   blockNumberBuffer, blockBuffer, fillBlock, exited>>

\* The second call returns: whatever height it brings is assigned.
FinalizedHeadAnswer ==
    /\ Running
    /\ \E head \in polls :
           /\ polls' = polls \ {head}
           /\ latestFinalizedHeight' = head
    /\ UNCHANGED <<finalizedHead, fillNextVars, registerVars, batchSizeScale,
                   parentSpecVersion, isShutdown, blockNumberBuffer,
                   blockBuffer, fillBlock, exited>>

\* An error of either call is only logged.
FinalizedHeadError ==
    /\ Running
    /\ \E head \in polls : polls' = polls \ {head}
    /\ UNCHANGED <<finalizedHead, latestFinalizedHeight, fillNextVars,
                   registerVars, batchSizeScale, parentSpecVersion, isShutdown,
                   blockNumberBuffer, blockBuffer, fillBlock, exited>>

\* A tenth less, the same or a tenth more, on an arbitrary heap.
CheckMemoryUsage(scale) == {Larger(scale - 1, 0), scale, Smaller(scale + 1, 10)}

CheckBatchScale ==
    /\ Running
    /\ ScaleBatchSize
    /\ batchSizeScale' \in CheckMemoryUsage(batchSizeScale)
    /\ UNCHANGED <<headVars, fillNextVars, registerVars, parentSpecVersion,
                   isShutdown, blockNumberBuffer, blockBuffer, fillBlock, exited>>

OnApplicationShutdown ==
    /\ Running
    /\ MayShutDown
    /\ ~isShutdown
    /\ isShutdown' = TRUE
    /\ UNCHANGED <<headVars, fillNextVars, registerVars, batchSizeScale,
                   parentSpecVersion, blockNumberBuffer, blockBuffer,
                   fillBlock, exited>>
-----------------------------------------------------------------------------
(* fetchMeta(height), shared by the two loops.                              *)

SpecVersionChanged(height) == parentSpecVersion # RuntimeAt[Previous(height)]

\* getBlockHash of a height the chain does not have yet makes the next call fail.
MetaAvailable(height) ==
    /\ Previous(height) <= BestHead
    /\ SpecVersionChanged(height) => height <= BestHead

FetchMeta(height) ==
    /\ MetaAvailable(height)
    /\ parentSpecVersion' = RuntimeAt[Previous(height)]

\* A rejected fetchMeta rejects startLoop, whose catch ends the process.
MetaFails(height) ==
    /\ RpcMayFail \/ ~MetaAvailable(height)
    /\ Exit("rpc")
-----------------------------------------------------------------------------
(* fillNextBlockBuffer                                                      *)

FillNextMeta ==
    /\ Running
    /\ fillNext.pc = "meta"
    /\ FetchMeta(InitBlockHeight)
    /\ fillNext' = [fillNext EXCEPT !.pc = "loop"]
    /\ UNCHANGED <<headVars, latestBufferedHeight, useDictionary, countedDown, registerVars,
                   batchSizeScale, isShutdown, blockNumberBuffer, blockBuffer,
                   fillBlock, exited>>

FillNextMetaFails ==
    /\ Running
    /\ fillNext.pc = "meta"
    /\ MetaFails(InitBlockHeight)

StartBlockHeight ==
    IF latestBufferedHeight # 0 THEN latestBufferedHeight + 1 ELSE InitBlockHeight

\* The loop passes its guards; otherwise it waits a second and tries again.
FillNextReady ==
    /\ Running
    /\ ~isShutdown
    /\ fillNext.pc = "loop"
    /\ FreeSize(blockNumberBuffer, QueueSize) >= ScaledBatchSize
    /\ ~AboveFinalized(StartBlockHeight)

\* lodash range(from, to): counts down when to is below from.
LodashRange(from, to) ==
    IF from <= to THEN [i \in 1 .. to - from |-> from + i - 1]
    ELSE [i \in 1 .. from - to |-> from - i + 1]

\* Variant with a bug: the finalized head does not limit the range.
BugUnlimitedEnd(start, size) == start + size - 1

NextEndBlockHeight(start, size) ==
    LET end == start + size - 1
    IN  IF AboveFinalized(end) THEN latestFinalizedHeight ELSE end

\* "The original method: fill next batch size of blocks".  A putAll that throws
\* rejects startLoop.  The range counts down, over heights that were buffered
\* before, when the finalized head has moved back below its start.
BufferRange(start, size) ==
    LET end == NextEndBlockHeight(start, size)
        heights == LodashRange(start, end + 1)
    IN  /\ countedDown' = (countedDown \/ end + 1 < start)
        /\ \/ /\ CanPutAll(blockNumberBuffer, heights, QueueSize)
              /\ blockNumberBuffer' = PutAll(blockNumberBuffer, heights)
              /\ latestBufferedHeight' = end
              /\ fillNext' = [fillNext EXCEPT !.pc = "loop"]
              /\ UNCHANGED exited
           \/ /\ ~CanPutAll(blockNumberBuffer, heights, QueueSize)
              /\ exited' = "overflow"
              /\ UNCHANGED <<blockNumberBuffer, latestBufferedHeight, fillNext>>

FillNextByRange ==
    /\ FillNextReady
    /\ ~useDictionary
    /\ BufferRange(StartBlockHeight, ScaledBatchSize)
    /\ UNCHANGED <<headVars, useDictionary, registerVars, batchSizeScale,
                   parentSpecVersion, isShutdown, blockBuffer, fillBlock>>

QueryDictionary ==
    /\ FillNextReady
    /\ useDictionary
    /\ fillNext' = [pc |-> "dictionary", start |-> StartBlockHeight,
                    size |-> ScaledBatchSize]
    /\ UNCHANGED <<headVars, latestBufferedHeight, useDictionary, countedDown, registerVars,
                   batchSizeScale, parentSpecVersion, isShutdown,
                   blockNumberBuffer, blockBuffer, fillBlock, exited>>

QueryEndBlock == fillNext.start + DictionaryMaxQuerySize

\* Variant with a bug: a dictionary of any chain is believed.
BugAnyGenesis == TRUE

\* dictionaryValidation: the dictionary indexes the chain of this node.
DictionaryValid == GenesisMatches

\* A valid answer of a dictionary that has processed lastProcessed blocks: an
\* empty one moves latestBufferedHeight on, any other one is buffered.
DictionaryAnswer ==
    /\ Running
    /\ fillNext.pc = "dictionary"
    /\ DictionaryValid
    /\ \E lastProcessed \in fillNext.start .. finalizedHead :
         LET batchBlocks == BatchBlocks(fillNext.start, QueryEndBlock,
                                        fillNext.size, lastProcessed)
         IN  \/ /\ batchBlocks = << >>
                /\ latestBufferedHeight' = Smaller(QueryEndBlock - 1, lastProcessed)
                /\ UNCHANGED blockNumberBuffer
             \/ /\ batchBlocks # << >>
                /\ CanPutAll(blockNumberBuffer, batchBlocks, QueueSize)
                /\ blockNumberBuffer' = PutAll(blockNumberBuffer, batchBlocks)
                /\ latestBufferedHeight' = batchBlocks[Len(batchBlocks)]
    /\ fillNext' = [fillNext EXCEPT !.pc = "loop"]
    /\ UNCHANGED <<headVars, useDictionary, countedDown, registerVars, batchSizeScale,
                   parentSpecVersion, isShutdown, blockBuffer, fillBlock, exited>>

\* The dictionary cannot be reached, is behind, or its answer did not fit: this
\* round falls back to the range, with the start and size from before the query
\* and the finalized head of now.
DictionarySkipped ==
    /\ Running
    /\ fillNext.pc = "dictionary"
    /\ UNCHANGED useDictionary
    /\ BufferRange(fillNext.start, fillNext.size)
    /\ UNCHANGED <<headVars, registerVars, batchSizeScale, parentSpecVersion,
                   isShutdown, blockBuffer, fillBlock>>

\* A dictionary of another chain is not asked again.
DictionaryDisabled ==
    /\ Running
    /\ fillNext.pc = "dictionary"
    /\ ~DictionaryValid
    /\ useDictionary' = FALSE
    /\ BufferRange(fillNext.start, fillNext.size)
    /\ UNCHANGED <<headVars, registerVars, batchSizeScale, parentSpecVersion,
                   isShutdown, blockBuffer, fillBlock>>

FillNextStops ==
    /\ Running
    /\ isShutdown
    /\ fillNext.pc = "loop"
    /\ fillNext' = [fillNext EXCEPT !.pc = "done"]
    /\ UNCHANGED <<headVars, latestBufferedHeight, useDictionary, countedDown, registerVars,
                   batchSizeScale, parentSpecVersion, isShutdown,
                   blockNumberBuffer, blockBuffer, fillBlock, exited>>
-----------------------------------------------------------------------------
(* fillBlockBuffer                                                          *)

\* Variant with a bug: the free size of blockBuffer does not limit the batch.
BugTakeFullBatch == RoundedBatchSize

TakeCount == Smaller(FreeSize(blockBuffer, QueueSize), RoundedBatchSize)

TakeBatch ==
    /\ Running
    /\ ~isShutdown
    /\ fillBlock.pc = "loop"
    /\ TakeCount # 0
    /\ CanTake(blockNumberBuffer)
    /\ fillBlock' = [fillBlock EXCEPT
                        !.pc = "meta",
                        !.batch = TakeAllItems(blockNumberBuffer, TakeCount)]
    /\ blockNumberBuffer' = TakeAllRest(blockNumberBuffer, TakeCount)
    /\ UNCHANGED <<headVars, fillNextVars, registerVars, batchSizeScale,
                   parentSpecVersion, isShutdown, blockBuffer, exited>>

LastOfBatch == fillBlock.batch[Len(fillBlock.batch)]

\* fetchMeta of the last block of the batch stands for the whole batch.
FetchBatchMeta ==
    /\ Running
    /\ fillBlock.pc = "meta"
    /\ FetchMeta(LastOfBatch)
    /\ fillBlock' = [fillBlock EXCEPT
                        !.pc = "blocks",
                        !.metadataChanged = SpecVersionChanged(LastOfBatch)]
    /\ UNCHANGED <<headVars, fillNextVars, registerVars, batchSizeScale,
                   isShutdown, blockNumberBuffer, blockBuffer, exited>>

FetchBatchMetaFails ==
    /\ Running
    /\ fillBlock.pc = "meta"
    /\ MetaFails(LastOfBatch)

\* Variant with a bug: the version of the batch for every block in it.
BugVersionOfBatch(height) == [height |-> height, specVersion |-> parentSpecVersion]

\* fetchBlocksBatches: without an overall spec version (a falsy one counts as
\* none) the version is asked for per block, at its parent.
FetchedBlock(height) ==
    [height |-> height,
     specVersion |-> IF fillBlock.metadataChanged \/ parentSpecVersion = 0
                     THEN RuntimeAt[Previous(height)] ELSE parentSpecVersion]

FetchedBlocks == [i \in DOMAIN fillBlock.batch |-> FetchedBlock(fillBlock.batch[i])]

BatchAvailable == \A i \in DOMAIN fillBlock.batch : fillBlock.batch[i] <= BestHead

FetchBlocks ==
    /\ Running
    /\ fillBlock.pc = "blocks"
    /\ BatchAvailable
    /\ CanPutAll(blockBuffer, fillBlock.batch, QueueSize)
    /\ blockBuffer' = PutAll(blockBuffer, FetchedBlocks)
    /\ fillBlock' = [pc |-> "loop", batch |-> << >>, metadataChanged |-> FALSE]
    /\ UNCHANGED <<headVars, fillNextVars, registerVars, batchSizeScale,
                   parentSpecVersion, isShutdown, blockNumberBuffer, exited>>

FetchBlocksFails ==
    /\ Running
    /\ fillBlock.pc = "blocks"
    /\ \/ /\ RpcMayFail \/ ~BatchAvailable
          /\ Exit("rpc")
       \/ /\ BatchAvailable
          /\ ~CanPutAll(blockBuffer, fillBlock.batch, QueueSize)
          /\ Exit("overflow")

FillBlockStops ==
    /\ Running
    /\ isShutdown
    /\ fillBlock.pc = "loop"
    /\ fillBlock' = [fillBlock EXCEPT !.pc = "done"]
    /\ UNCHANGED <<headVars, fillNextVars, registerVars, batchSizeScale,
                   parentSpecVersion, isShutdown, blockNumberBuffer,
                   blockBuffer, exited>>
-----------------------------------------------------------------------------
(* register: take a block, await next(block), the indexer.                  *)

TakeBlock ==
    /\ Running
    /\ register = "take"
    /\ CanTake(blockBuffer)
    /\ indexing' = << TakeItem(blockBuffer) >>
    /\ blockBuffer' = TakeRest(blockBuffer)
    /\ register' = "next"
    /\ UNCHANGED <<headVars, fillNextVars, latestProcessedHeight,
                   batchSizeScale, parentSpecVersion, isShutdown,
                   blockNumberBuffer, fillBlock, exited>>

\* next(block) resolves; the indexer has called latestProcessed(height).
BlockIndexed ==
    /\ Running
    /\ register = "next"
    /\ latestProcessedHeight' = indexing[1].height
    /\ indexing' = << >>
    /\ register' = IF isShutdown THEN "done" ELSE "take"
    /\ UNCHANGED <<headVars, fillNextVars, batchSizeScale, parentSpecVersion,
                   isShutdown, blockNumberBuffer, blockBuffer, fillBlock, exited>>

\* next(block) rejects: the process exits.
IndexingFails ==
    /\ Running
    /\ register = "next"
    /\ RpcMayFail
    /\ Exit("indexing")
-----------------------------------------------------------------------------
FillNextStep ==
    \/ FillNextMeta \/ FillNextMetaFails \/ FillNextByRange \/ QueryDictionary
    \/ DictionaryAnswer \/ DictionarySkipped \/ DictionaryDisabled
    \/ FillNextStops

FillBlockStep ==
    \/ TakeBatch \/ FetchBatchMeta \/ FetchBatchMetaFails \/ FetchBlocks
    \/ FetchBlocksFails \/ FillBlockStops

RegisterStep == TakeBlock \/ BlockIndexed \/ IndexingFails

Next ==
    \/ ChainFinalizes \/ PollFinalizedHead \/ FinalizedHeadAnswer
    \/ FinalizedHeadError \/ CheckBatchScale \/ OnApplicationShutdown
    \/ FillNextStep \/ FillBlockStep \/ RegisterStep

Spec == Init /\ [][Next]_vars

(* Each loop runs again after every await or delay, the interval timer keeps  *)
(* polling, and not every poll is lost.                                       *)
Fairness ==
    /\ WF_vars(FillNextStep)
    /\ WF_vars(FillBlockStep)
    /\ WF_vars(RegisterStep)
    /\ WF_vars(PollFinalizedHead)
    /\ SF_vars(FinalizedHeadAnswer)

FairSpec == Spec /\ Fairness
-----------------------------------------------------------------------------
(* Properties                                                               *)

BlockType == [height : Nat, specVersion : Nat]

\* Every variable has its type, and no queue ever holds more than its size.
TypeOK ==
    /\ finalizedHead \in 0 .. MaxHeight
    /\ polls \subseteq 0 .. MaxHeight
    /\ latestFinalizedHeight \in 0 .. MaxHeight \cup {Undefined}
    /\ latestBufferedHeight \in Nat
    /\ latestProcessedHeight \in Nat \cup {InitBlockHeight - 1}
    /\ useDictionary \in BOOLEAN
    /\ batchSizeScale \in 0 .. 10
    /\ parentSpecVersion \in Nat
    /\ isShutdown \in BOOLEAN
    /\ blockNumberBuffer \in Seq(Nat)
    /\ Len(blockNumberBuffer) <= QueueSize
    /\ blockBuffer \in Seq(BlockType)
    /\ Len(blockBuffer) <= QueueSize
    /\ fillNext \in [pc : {"meta", "loop", "dictionary", "done"},
                     start : Nat, size : Nat]
    /\ fillBlock \in [pc : {"loop", "meta", "blocks", "done"},
                      batch : Seq(Nat), metadataChanged : BOOLEAN]
    /\ register \in {"take", "next", "done"}
    /\ indexing \in Seq(BlockType)
    /\ exited \in {"no", "rpc", "overflow", "indexing"}
    /\ countedDown \in BOOLEAN

\* The heights on their way to the indexer, the next one first.
HeightsOf(blocks) == [i \in DOMAIN blocks |-> blocks[i].height]
Pipeline ==
    HeightsOf(indexing) \o HeightsOf(blockBuffer) \o fillBlock.batch
        \o blockNumberBuffer

\* Heights the project must not miss: all of them without a dictionary, or with
\* one of another chain.
NeededHeights ==
    IF UseDictionary /\ GenesisMatches THEN RelevantHeights ELSE Nat

\* The pipeline is strictly ascending, above what has been indexed and below
\* where the next range starts: no block is indexed twice or out of order,
\* whatever the two loops, the dictionary and the polls interleave to, until a
\* range has counted down.  The code does that, and indexes blocks twice, when a
\* late poll moves the finalized head back while the dictionary is asked and the
\* round then falls back; the property says that there is no other way to it.
IndexedInOrder ==
    countedDown \/
        LET heights == << latestProcessedHeight >> \o Pipeline
                           \o << StartBlockHeight >>
        IN  \A i, j \in DOMAIN heights : i < j => heights[i] < heights[j]

\* Between the last indexed block and the start of the next range, every
\* height the project needs is on its way: skipping by dictionary loses none,
\* unless a range has counted down.
NothingSkipped ==
    countedDown \/
        \A h \in latestProcessedHeight + 1 .. StartBlockHeight - 1 :
            h \in NeededHeights => \E i \in DOMAIN Pipeline : Pipeline[i] = h

\* Only finalized blocks are indexed, although polls overtake each other, ranges
\* count down and the dictionary may know a newer head than this node.  (It needs
\* the poll of init() to have returned.)
OnlyFinalized == \A i \in DOMAIN Pipeline : Pipeline[i] <= finalizedHead

\* The free size checked before an await is still free after it: no putAll of
\* the two loops throws, and the process does not end for it, unless a range has
\* counted down, which may hold any number of heights.
NeverOverflows == exited = "overflow" => countedDown

\* Every block reaches the indexer with the spec version of the runtime that
\* executed it, though one version is asked for per batch, unless a range has
\* counted down: the last block of a batch is then not its highest.
SpecVersionsRight ==
    countedDown \/
        \A blocks \in {indexing, blockBuffer} : \A i \in DOMAIN blocks :
            blocks[i].specVersion = RuntimeAt[Previous(blocks[i].height)]

\* "Fill next batch size of blocks": no round of fillNextBlockBuffer goes back
\* below what an earlier round has buffered, unless its range counts down.
NextBatchOnly == [][countedDown' \/ latestBufferedHeight' >= latestBufferedHeight]_vars

\* What the fetch service promises its consumer, as a specification, as long as
\* polls do not overtake each other while the dictionary is asked.
Stream == INSTANCE BlockStream WITH
              last <- latestProcessedHeight, Needed <- NeededHeights
ImplementsStream == Stream!Spec

\* The node catches up: time and again every needed block that has been finalized
\* is indexed, so each of them is in the end, unless the process is shut down or
\* exits.
EveryNeededBlockIndexed ==
    []<>(\/ \A h \in InitBlockHeight .. finalizedHead :
                h \in NeededHeights => h <= latestProcessedHeight
         \/ isShutdown
         \/ ~Running)
=============================================================================
