--------------------------- MODULE IndexerManager ---------------------------
(* The consumer of the fetch service: one database transaction per block      *)
(* (node/src/indexer/indexer.manager.ts), the proof-of-index chain it extends  *)
(* (poi.service.ts, PoiBlock.ts, store.service.ts), and the interval timer     *)
(* that writes the same metadata row outside any transaction                   *)
(* (node/src/meta/meta.service.ts).  The process may end at any point and is   *)
(* started again; the database keeps what has been committed.                  *)
(* Blocks arrive as module BlockStream promises, the chain being finalized up  *)
(* to MaxHeight.                                                               *)
EXTENDS Integers, Sequences, FiniteSets

CONSTANTS
    DataSources,      \* the project's data sources for the connected chain
    StartBlock,       \* startBlock of each of them
    Operations,       \* pairs <<ds, h>>: a handler of ds writes at block h
    Needed,           \* heights the fetch service must not skip
    LegacyNextHeight, \* nextBlockHeight in public.subqueries, or NoRow
    ProofOfIndex,     \* nodeConfig.proofOfIndex
    WriteMayOverlap,  \* the timer's write may be under way while a block is
    MaxHeight,        \* bound: blocks up to this height
    MaxRestarts       \* bound: how often the process ends

NoRow == -1

ASSUME IndexerAssumption ==
    /\ DataSources # {} /\ IsFiniteSet(DataSources)
    /\ StartBlock \in [DataSources -> Nat \ {0}]
    /\ Operations \subseteq DataSources \X Nat
    /\ \A operation \in Operations : operation[2] \in Needed
    /\ LegacyNextHeight \in {NoRow} \cup (Nat \ {0})
    /\ ProofOfIndex \in BOOLEAN
    /\ WriteMayOverlap \in BOOLEAN
    /\ MaxHeight \in Nat
    /\ MaxRestarts \in Nat

VARIABLES
    \* the database
    metadataHeight,        \* _metadata.lastProcessedHeight; null counts as 0
    entities,              \* journal of the handlers' committed writes
    poi,                   \* the table _poi, by id
    \* the process
    pc,                    \* where indexBlock awaits
    block,                 \* height of the block in indexBlock
    filteredDataSources,
    latestProcessedHeight, \* FetchService.latestProcessedHeight
    latestPoiBlockHash,    \* PoiService.latestPoiBlockHash
    poiBlock,              \* the transaction's row for _poi, as a sequence
    reportedHeight,        \* MetaService.lastProcessedHeight; 0 is undefined
    pendingWrite,          \* height in the timer's write under way, or NoWrite
    restarts

database == <<metadataHeight, entities, poi>>
process == <<pc, block, filteredDataSources, latestProcessedHeight,
             latestPoiBlockHash, poiBlock, reportedHeight, pendingWrite>>
vars == <<database, process, restarts>>

NoWrite == -1
NoHash == << >>        \* undefined
DefaultParent == <<0>> \* DEFAULT_PARENT_HASH

\* blake2 of the concatenation: as good as the fields themselves.
PoiBlockHash(id, operationHashRoot, parentHash) ==
    <<id, operationHashRoot, parentHash>>

\* The Merkle root of the operations of a block; {} is NULL_MERKEL_ROOT.
OperationMerkleRoot(height, sources) ==
    {ds \in sources : <<ds, height>> \in Operations}

MaxId(ids) == CHOOSE g \in ids : \A h \in ids : h <= g

\* fetchPoiBlockHashFromDb, with the default of getLatestPoiBlockHash.
PoiHashFromDb ==
    IF DOMAIN poi = {} THEN DefaultParent ELSE poi[MaxId(DOMAIN poi)].hash

FirstBlock ==
    LET blocks == {StartBlock[ds] : ds \in DataSources}
    IN  CHOOSE b \in blocks : \A c \in blocks : b <= c

FirstHeight == IF LegacyNextHeight = NoRow THEN FirstBlock ELSE LegacyNextHeight

StartHeight == IF metadataHeight = NoRow THEN FirstHeight ELSE metadataHeight + 1

\* Variant with a bug: start blocks count from the block after.
BugDataSourcesBelow(height) == {ds \in DataSources : StartBlock[ds] < height}

FilterDataSources(height) == {ds \in DataSources : StartBlock[ds] <= height}

Init ==
    /\ metadataHeight = NoRow
    /\ entities = << >>
    /\ poi = << >>
    /\ pc = "down"
    /\ block = 0
    /\ filteredDataSources = {}
    /\ latestProcessedHeight = 0
    /\ latestPoiBlockHash = NoHash
    /\ poiBlock = << >>
    /\ reportedHeight = 0
    /\ pendingWrite = NoWrite
    /\ restarts = 0

\* Variant with a bug: the start height is taken for a processed one.
BugStartSkipsFirst ==
    /\ pc = "down"
    /\ FilterDataSources(StartHeight) # {}
    /\ pc' = "idle"
    /\ filteredDataSources' = FilterDataSources(StartHeight)
    /\ latestProcessedHeight' = StartHeight
    /\ latestPoiBlockHash' = IF ProofOfIndex THEN PoiHashFromDb ELSE NoHash
    /\ UNCHANGED <<database, block, poiBlock, reportedHeight, pendingWrite, restarts>>

\* start().  Without a data source for the start height the process exits.
Start ==
    /\ pc = "down"
    /\ FilterDataSources(StartHeight) # {}
    /\ pc' = "idle"
    /\ filteredDataSources' = FilterDataSources(StartHeight)
    /\ latestProcessedHeight' = StartHeight - 1
    /\ latestPoiBlockHash' = IF ProofOfIndex THEN PoiHashFromDb ELSE NoHash
    /\ UNCHANGED <<database, block, poiBlock, reportedHeight, pendingWrite, restarts>>

\* The process is killed, or a rejected step of indexBlock rolls back and
\* exits: the transaction and everything in memory are gone.
ProcessEnds ==
    /\ pc # "down"
    /\ restarts < MaxRestarts
    /\ restarts' = restarts + 1
    /\ pc' = "down"
    /\ block' = 0
    /\ filteredDataSources' = {}
    /\ latestProcessedHeight' = 0
    /\ latestPoiBlockHash' = NoHash
    /\ poiBlock' = << >>
    /\ reportedHeight' = 0
    /\ pendingWrite' = NoWrite
    /\ UNCHANGED database
-----------------------------------------------------------------------------
(* indexBlock                                                               *)

BlockArrives ==
    /\ pc = "idle"
    /\ WriteMayOverlap \/ pendingWrite = NoWrite
    /\ block' \in latestProcessedHeight + 1 .. MaxHeight
    /\ \A h \in latestProcessedHeight + 1 .. block' - 1 : h \notin Needed
    /\ pc' = "handlers"
    /\ UNCHANGED <<database, filteredDataSources, latestProcessedHeight,
                   latestPoiBlockHash, poiBlock, reportedHeight, pendingWrite,
                   restarts>>

\* The handlers write in the transaction, then the upsert of the metadata locks
\* its row.
RunHandlers ==
    /\ pc = "handlers"
    /\ pc' = "locked"
    /\ UNCHANGED <<database, block, filteredDataSources, latestProcessedHeight,
                   latestPoiBlockHash, poiBlock, reportedHeight, pendingWrite,
                   restarts>>

\* Variant with a bug: the database is not asked when nothing is cached.
BugParentHash == latestPoiBlockHash

ParentHash == IF latestPoiBlockHash = NoHash THEN PoiHashFromDb
              ELSE latestPoiBlockHash

\* Variant with a bug: without a known parent there is no row.
BugCreatePoi ==
    /\ pc = "locked"
    /\ pc' = "commit"
    /\ LET root == OperationMerkleRoot(block, filteredDataSources)
       IN  IF latestPoiBlockHash # NoHash /\ root # {}
           THEN /\ poiBlock' = << [hash |-> PoiBlockHash(block, root, ParentHash),
                                   parentHash |-> ParentHash] >>
                /\ latestPoiBlockHash' = ParentHash
           ELSE UNCHANGED <<poiBlock, latestPoiBlockHash>>
    /\ UNCHANGED <<database, block, filteredDataSources, latestProcessedHeight,
                   reportedHeight, pendingWrite, restarts>>

\* A block without operations gets no row, and leaves the cached hash alone.
CreatePoi ==
    /\ pc = "locked"
    /\ pc' = "commit"
    /\ LET root == OperationMerkleRoot(block, filteredDataSources)
       IN  IF ProofOfIndex /\ root # {}
           THEN /\ poiBlock' = << [hash |-> PoiBlockHash(block, root, ParentHash),
                                   parentHash |-> ParentHash] >>
                /\ latestPoiBlockHash' = ParentHash
           ELSE UNCHANGED <<poiBlock, latestPoiBlockHash>>
    /\ UNCHANGED <<database, block, filteredDataSources, latestProcessedHeight,
                   reportedHeight, pendingWrite, restarts>>

\* hash and parentHash are unique in _poi: another row with either aborts the
\* transaction.
NoDuplicate(row) ==
    \A id \in DOMAIN poi \ {block} :
        poi[id].hash # row.hash /\ poi[id].parentHash # row.parentHash

Commit ==
    /\ pc = "commit"
    /\ poiBlock # << >> => NoDuplicate(poiBlock[1])
    /\ pc' = "committed"
    /\ metadataHeight' = block
    /\ entities' = Append(entities, [height |-> block,
                                     sources |-> filteredDataSources])
    /\ poi' = IF poiBlock = << >> THEN poi
              ELSE [id \in DOMAIN poi \cup {block} |->
                       IF id = block THEN poiBlock[1] ELSE poi[id]]
    /\ UNCHANGED <<block, filteredDataSources, latestProcessedHeight,
                   latestPoiBlockHash, poiBlock, reportedHeight, pendingWrite,
                   restarts>>

\* After the commit: the in-memory heights, and the hash of the new row, or
\* undefined if there is none.
AfterCommit ==
    /\ pc = "committed"
    /\ pc' = "idle"
    /\ latestProcessedHeight' = block
    /\ latestPoiBlockHash' = IF poiBlock = << >> THEN NoHash ELSE poiBlock[1].hash
    /\ poiBlock' = << >>
    /\ reportedHeight' = block
    /\ UNCHANGED <<database, block, filteredDataSources, pendingWrite, restarts>>
-----------------------------------------------------------------------------
(* MetaService.checkHeight: the value is read when the timer fires, the       *)
(* statement reaches the row later, and waits there for a transaction that    *)
(* holds the lock.                                                            *)

\* Variant with a bug: the block being processed is reported as processed.
BugCheckHeight ==
    /\ pc # "down"
    /\ WriteMayOverlap \/ pc = "idle"
    /\ pendingWrite = NoWrite
    /\ pendingWrite' = block
    /\ UNCHANGED <<database, pc, block, filteredDataSources,
                   latestProcessedHeight, latestPoiBlockHash, poiBlock,
                   reportedHeight, restarts>>

CheckHeight ==
    /\ pc # "down"
    /\ WriteMayOverlap \/ pc = "idle"
    /\ pendingWrite = NoWrite
    /\ pendingWrite' = reportedHeight
    /\ UNCHANGED <<database, pc, block, filteredDataSources,
                   latestProcessedHeight, latestPoiBlockHash, poiBlock,
                   reportedHeight, restarts>>

\* An undefined height leaves an existing row alone, and inserts a null one.
SetMetadata ==
    /\ pendingWrite # NoWrite
    /\ pc \notin {"locked", "commit"}
    /\ pendingWrite' = NoWrite
    /\ metadataHeight' = IF pendingWrite = 0 /\ metadataHeight # NoRow
                         THEN metadataHeight ELSE pendingWrite
    /\ UNCHANGED <<entities, poi, pc, block, filteredDataSources,
                   latestProcessedHeight, latestPoiBlockHash, poiBlock,
                   reportedHeight, restarts>>
-----------------------------------------------------------------------------
IndexBlock == BlockArrives \/ RunHandlers \/ CreatePoi \/ Commit \/ AfterCommit

Next == Start \/ ProcessEnds \/ IndexBlock \/ CheckHeight \/ SetMetadata

Spec == Init /\ [][Next]_vars

(* The process is restarted, a block in indexBlock goes on, a statement sent   *)
(* to the database is executed.  The timer may fire at any time or not at all. *)
Fairness == WF_vars(Start) /\ WF_vars(IndexBlock) /\ WF_vars(SetMetadata)

FairSpec == Spec /\ Fairness
-----------------------------------------------------------------------------
(* Properties                                                               *)

Heights == 0 .. MaxHeight
JournalType == [height : Heights, sources : SUBSET DataSources]

\* Every variable has its type (a hash has no type beyond being a sequence).
TypeOK ==
    /\ metadataHeight \in {NoRow} \cup Heights
    /\ entities \in Seq(JournalType)
    /\ DOMAIN poi \subseteq Heights
    /\ pc \in {"down", "idle", "handlers", "locked", "commit", "committed"}
    /\ block \in Heights
    /\ filteredDataSources \subseteq DataSources
    /\ latestProcessedHeight \in Nat
    /\ poiBlock = << >> \/ Len(poiBlock) = 1
    /\ reportedHeight \in Heights
    /\ pendingWrite \in {NoWrite} \cup Heights
    /\ restarts \in 0 .. MaxRestarts

IsJournaled(h) == \E i \in DOMAIN entities : entities[i].height = h

\* The stored height never promises more than the journal holds: wherever the
\* process ends and starts again, no needed block is left out.
NothingLost ==
    \A h \in FirstHeight .. metadataHeight : h \in Needed => IsJournaled(h)

\* No block's handlers are committed twice, and none after those of a later block.
IndexedOnce ==
    \A i, j \in DOMAIN entities : i < j => entities[i].height < entities[j].height

\* The parent of every row of _poi is the row before it: the hashes form one
\* chain over all restarts and all blocks without operations.
PoiChained ==
    \A id \in DOMAIN poi :
        LET before == {g \in DOMAIN poi : g < id}
        IN  poi[id].parentHash =
                IF before = {} THEN DefaultParent ELSE poi[MaxId(before)].hash

\* Exactly the journaled blocks with operations have a proof of index.
PoiComplete ==
    DOMAIN poi = {entities[i].height : i \in {j \in DOMAIN entities :
        OperationMerkleRoot(entities[j].height, entities[j].sources) # {}}}

\* A handler never runs on a block before the start block of its data source,
\* whatever height the process was started from.
NoSourceBeforeItsStart ==
    \A i \in DOMAIN entities : \A ds \in entities[i].sources :
        StartBlock[ds] <= entities[i].height

\* The stored height never goes back.
HeightNeverRegresses == [][metadataHeight' >= metadataHeight]_vars

\* Over all restarts of the process, the journal is the block stream the fetch
\* service promises: each block once, in order, none of the needed ones left out.
JournaledHeight ==
    IF entities = << >> THEN FirstHeight - 1 ELSE entities[Len(entities)].height
Stream == INSTANCE BlockStream WITH
              finalizedHead <- MaxHeight, last <- JournaledHeight,
              InitBlockHeight <- FirstHeight
JournalIsStream == Stream!Spec

\* Every needed block is indexed in the end, however often the process ends.
EveryNeededBlockJournaled ==
    \A h \in FirstHeight .. MaxHeight : h \in Needed => <>IsJournaled(h)
=============================================================================
