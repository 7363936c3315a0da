# Verification of SubQuery

TLA+ modules, TLC configurations and TLAPS proofs for SubQuery: the indexing node
(`src/packages/node`), and what stands around it in `src/packages` (the project
manifest, the command-line tool, the contract processors, the query service). The
node follows a Substrate chain, runs a project's handlers on its finalized blocks
and keeps what they write in PostgreSQL. Nothing in it runs in parallel: it is one
JavaScript thread in which several loops, interval timers and callbacks give way to
each other at every `await`. What can go wrong is what an order of these steps
nobody thought of, a stale value read before an `await`, a statement that fails, or
a process that ends between two steps can do. That is what is modelled.

## The system

| component | state | operations | what makes it correct |
|---|---|---|---|
| `BlockedQueue` (`indexer/BlockedQueue.ts`) | a bounded array | put, putAll (throw when full), take, takeAll (wait when empty) | order kept, never above its size |
| `DictionaryService` (`indexer/dictionary.service.ts`) | none; the remote dictionary's rows | one GraphQL query by window, conditions and batch size; answers of several entities merged | no relevant height skipped |
| `FetchService` (`indexer/fetch.service.ts`) | two queues, four heights, runtime version, batch scale | `fillNextBlockBuffer`, `fillBlockBuffer`, `register` (loops), polls of the finalized and best head, heap check, query entries from the manifest | every needed finalized block once, in order, with its runtime version |
| Substrate filters (`utils/substrate.ts`), contract processors | none | which parts of a block a handler gets | the same verdict as the dictionary's, from other code |
| `IndexerManager` (`indexer/indexer.manager.ts`) | filtered data sources, the current transaction | `start` with `ensureProject` and `ensureMetadata`, `indexBlock` | each block committed once, resumed where it stopped, no rows of an earlier launch after a forced clean |
| `SandboxService`, `DsProcessorService` | VMs, plug-ins by data source | run handlers under a time-out, check custom data sources | a time-out ends the block, and nothing of it stays |
| `ApiService` | connection, api patched per block | metadata injection, genesis check | the api fits the block's runtime |
| `StoreService`, `StoreOperations` | transaction, operation Merkle tree, indexed fields | schema synchronisation, entity reads and writes, metadata, proof of index | writes of a block in its transaction; the schema complete whatever died before |
| `PoiService`, `PoiBlock` | cached hash of the latest row | chain of proofs of index | one chain over all rows |
| `MmrService` (`indexer/mmr.service.ts`) | file of leaves, next height | loop from `_poi` to the file and back | leaf index = block height, a root in every row |
| `MetaService`, `HealthService` | heights and times reported by events | timer that writes metadata; health checks | stored height agrees with the entities; a stall is reported |
| Algorand initializer | hash-to-block cache, last head | requests of the Polkadot API answered from an Algorand node | a block whose hash was answered is there |
| manifest (`common`, `configure/`), `validator` | — | reading, validating and converting manifests of versions 0.0.1, 0.2.0, 0.2.1 | what is validated starts |
| `cli` | files of a project | migrate, build, validate, publish, codegen; init | a killed command leaves the project whole |
| `query` | cache of the node's answers | PostGraphile, `_metadata` | serves the health of the node |
| database module, logging, `types` | pool | set-up | read once at start |

How they interact: the dictionary or the range of finalized heights feeds
`blockNumberBuffer`; `fillBlockBuffer` turns heights into blocks in `blockBuffer`;
`register` awaits `indexBlock` for each block; `indexBlock` runs the handlers in a
transaction, writes the last height and the proof of index in it, and reports the
height by a call (`latestProcessed`) and an event (`BlockLastProcessed`).
`MetaService` writes the reported height into the same metadata row, on a timer and
outside the transaction; `HealthService` writes another row of that table, which the
query service serves. `MmrService` reads the rows of `_poi` behind the indexer's
back. `schema.graphql` is read by the node, which makes tables of it, and by the
generator, which makes the classes the handlers use. `PROJECT.json` lists the
hazards line by line, with the properties that cover each.

## Modules

| module | models | EXTENDS / INSTANCE |
|---|---|---|
| `BlockedQueue` | the queue's methods as operators on sequences | |
| `DictionaryService` | query and merge, as sets of rows | |
| `FetchService` | both loops, the consumer, polls, heap timer, shutdown, failures | the two above; `BlockStream` |
| `BlockStream` | abstract: what the fetch service promises its consumer | |
| `SubstrateFilters` | filters over blocks, extrinsics, events | |
| `CustomProcessors` | the Moonbeam and Jsonfy processors | `SubstrateFilters` |
| `HandlerDispatch` | manifest → query entries → blocks → calls of the handlers | `CustomProcessors` |
| `IndexerManager` | `start`, `indexBlock`, proof of index, metadata timer, database, restarts | `BlockStream` |
| `NodeHealth` | the indexer with its health checks and the query service beside it | `IndexerManager` |
| `EntityStore` | the store's operations and the leaves made of them | |
| `BlockExecution` | `indexBlock` from the inside, statement by statement | `EntityStore`; `AtomicBlocks` |
| `AtomicBlocks` | abstract: a block takes effect as a whole or not at all | `EntityStore` |
| `MmrService` | the loop between `_poi` and the .mmr file, restarts | |
| `ProjectStart` | a launch from the schema to the first block, over edits, cleans, crashes | |
| `GraphqlEntities` | what a `schema.graphql` becomes | |
| `SchemaSync` | tables, indexes, comments, enum types and generated classes, over starts | `GraphqlEntities` |
| `AlgorandProvider` | the cache from hashes to blocks under concurrent requests | |
| `ProjectManifest` | what each version of a manifest means and what is validated and deployed | |
| `JsonRpcClient` | the one request the command-line tool sends | |
| `ProjectMigration` | `subql migrate` and `subql publish` on a directory | the two above |
| `FetchServiceProofs` | theorems about `DictionaryService`, `FetchService` and the blocks of `AlgorandProvider` it asks for | `FetchService`, `AlgorandProvider`; TLAPS |
| `IndexerManagerProofs` | theorems about `IndexerManager` and the node around it | `NodeHealth`; TLAPS |
| other `...Proofs` | theorems about the module of that name | that module; TLAPS |
| `MC...` | instances for TLC | |

A definition whose name begins with `Bug` is a variant of the definition after it
with a plausible mistake in it. No specification uses it; it stands there to show
that a property depends on the code being as it is, and each property has been
seen to fail with one.

### FetchService

One action per stretch of code between two awaits. `fillNext`, `fillBlock` and
`register` say where each of the three loops awaits and hold its locals; a
waiting loop (`delay(1)`, `take` on an empty queue) is an action that is not
enabled, so the polling itself is not a step. A failed RPC in a loop rejects
`startLoop`, a failed block is caught in `register`: both call `process.exit`,
which is `Exit(reason)`. A poll of the finalized head is two actions, because it
is two RPC calls and the head is fixed by the first; `MaxPolls` bounds how many
are under way, which nothing in the code does. `countedDown` is a history variable:
a range has counted down, as it does when polls overtake each other at the wrong
moment. The properties on order, gaps, versions and queues speak of the time before,
`OnlyFinalized` of all time. A queue of blocks holds heights
with the runtime version they were decoded with; the content of blocks is left
out. `latestBufferedHeight` and `parentSpecVersion` use 0 for undefined because
the code tests them for truth. JavaScript's comparison with undefined is
`AboveFinalized`, lodash's `range` that counts down is `LodashRange`. The heap is
any size whenever it is looked at (`CheckMemoryUsage`).

The dictionary is its set of rows; an answer is computed from the rows up to a
`lastProcessed` chosen anew for every answer, anywhere from the start of the
query to the finalized head of the chain, which may be above what this node has
polled. An answer that does not fit in the queue, fails or is behind becomes the
fallback to the range, with the start and size from before the query. Assumed: a
dictionary has all rows up to the height it reports (the two come from one query,
not from one snapshot), and runtimes are only upgraded (`RuntimeAssumption`).

### BlockStream

`finalizedHead` grows; `Deliver` moves `last` up to any finalized height without
leaving a needed height behind. `FetchService` implements it with
`last <- latestProcessedHeight`; `IndexerManager` takes its blocks by it, and its
journal of committed blocks implements it again over all restarts.

### HandlerDispatch, SubstrateFilters, CustomProcessors

The two readings of a manifest's filters: `QueryEntriesOf` collects the dictionary's
conditions (`getDictionaryQueryEntries`, the processors' `dictionaryQuery`),
`Selected` is the `or` of them that the dictionary evaluates, and `HandlerInputs`
are the parts of a block that `indexBlock` hands to a handler. A block is its
extrinsics and events with the names, addresses and topics the filters look at; a
hex string is what it denotes and whether it is spelled as the chain spells it,
because the dictionary compares spellings and the filters do not. `SecuredExec`
calls one handler for one input, in the order of the manifest; an exception of a
processor rejects the block, and the dispatch stops there: `ProcessorThrows` is a topic
asked for at a place the log does not have. ABI decoding and JSON parsing are external: what a
processor passes on is not looked at.

### IndexerManager

The database (`metadataHeight`, the journal `entities`, `poi`) survives
`ProcessEnds`, everything else does not. `indexBlock` is four awaits: handlers
and metadata upsert, the proof of index, the commit, and what follows it. Its
upsert locks the metadata row until the commit, so the timer's statement
(`CheckHeight` reads the value, `SetMetadata` is the statement) lands before or
after, not between. A hash is the triple it is computed from. Handlers are
abstracted to which data source writes at which height. `WriteMayOverlap = FALSE`
assumes that the timer does not fire, and has no statement under way, while a
block is indexed. An upsert of an undefined value is taken to insert null and to leave
an existing value alone, as the way the code calls it suggests.

### NodeHealth

Adds to `IndexerManager` the ages of the two records of `HealthService` (unset,
fresh, stale: 60 seconds without a new head, 15 minutes without a block), the verdict
it remembers, the row `indexerHealthy` and the query service. A write of the verdict is
a statement and its answer, either of which may be lost (`unsure`: the answer to
a write that was executed). A write is taken to end before the check a minute later;
nothing in the code sees to that. The query service decides once, when it starts,
between the table and what it fetches from the node every ten seconds.

### BlockExecution, EntityStore, AtomicBlocks

The handlers of a block are a sequence of store operations and api queries, in
calls, in steps that are awaited together (`ProgramAssumption`: within a step
nothing reads). A statement is issued, executed in the order of the connection, and
answered; it may fail, and the handler may catch the error: the transaction is then
aborted without anybody knowing. A query of the api may never return. `Timeout`
gives up on a call, which goes on running while the block is rolled back. `storeTx`
is whether the store holds a transaction: it is cleared by a commit and not by a
rollback. Proof of index is on. Assumed: sequelize refuses statements of a finished
transaction, and handlers await their writes; a write that nobody awaits could land
after the commit, outside any transaction. `EntityStore` has the operations
themselves on one function from ids to rows, and the leaf of each
(`StoreOperations`): the leaf of an enum field is computed and dropped in the code,
and so it is there. `AtomicBlocks` is the abstract specification: the operations of
a block in program order build a draft, which becomes the database with its height
and its proof, or is thrown away.

### MmrService

`PoiInserted` is the indexer; `Sync` is the loop with one action per await that
changes state; `Restart` covers crashes, the exit on a mismatch and
`ensureFileBasedMmr`, which creates a file it does not find. A leaf is the id of
its row, a root the sequence of leaves it covers: hashing is taken to be
injective. `DEFAULT_FETCH_RANGE` is 2 instead of 100, so that a table of a few
rows takes several rounds.

### ProjectStart

A launch, await by await: `getExistingProjectSchema` with its fallback to the row of
`subqueries`, `--force-clean` whose errors are logged and forgotten (`cleanFailed`),
the creation of the schema, the block offset, the .mmr file, the start height.
Between launches the user may edit the start block and the project, ask for a clean,
or lose the disk. The edits include the one enum of the schema, whose type `enums`
keeps for every name of a schema: it is made before the tables, compared when it is
there (`EnumFits`), and dropped by nothing. A project may also have entities that
cannot be built; either ends the launch (`SyncSchema`). Indexing a block and syncing
a row are one step each (their insides are `BlockExecution` and `MmrService`); every
block has operations and a manifest has one data source. `mixed` holds the schemas
that were used with a file of another one. Left out: local mode, and the metadata
that are only compared or reported (`genesisHash`, `chain`, `specName`).

### GraphqlEntities, SchemaSync

`GraphqlEntities` is `getAllEntitiesRelations`: models, columns, indexes, relations,
and the documents it refuses. `SchemaSync` is `syncSchema` and what follows, a
statement at a time: enum types, tables with their foreign keys and indexes, then
comments and unique indexes of derived fields. Each may be refused, fail, or be the
last before a crash; the user edits the file between starts or during one.
sequelize's `sync` is modelled from how it is called: a table that is there is left
alone but for missing indexes, which are added by name. `getAllIndexFields` then
says what the store lets a handler query; `EntityForm` and `FieldForm` are the
change of case names go through, `Neighbours` the tables of the same name in other
schemas, which the query for indexes does not tell apart. The generator deletes the
models first and reads the file anew for each part. `todo` is what is left of the
step of a start: enums and tables in the order of the document, and for the statements
after them their places (relation, statement), of which the least comes next.

### AlgorandProvider

Algorand has no request by hash, so the provider keeps the block that came with a
hash until it is asked for. A poll of the head and a fetch of a block (hash, then
header or not, then block) are several awaits each and share the map; the best-head
poll asks for a header by the hash of the last poll. A hash is the height of its block.

### ProjectManifest, JsonRpcClient, ProjectMigration

`Valid` says what each version accepts, `NodeView` what the node makes of a project
directory (or `Rejected`), `Deployed` what is published, `ValidatorPasses` what the
rules of the validator let through, for a project read from a directory, GitHub or
IPFS. The node reads directories only; a deployment is read by nothing but the
validator. A custom data source is checked by the node in three ways: its kind and
handlers against those of the plug-in (`PluginAccepts`), its assets, which must be
there, and the plug-in's own `validate` of its options and of what the assets hold
(`PluginSatisfied`); `subql validate` does the first only. Which options and assets a
plug-in takes is a set, as data. Files are a function from paths to contents.
`ProjectMigration` is the command, one file operation at a time, killed between any
two or within the write of `types.json` (`Torn`), run up to `MaxRuns` times with
publications in between. Its question for the genesis hash goes through
`JsonRpcClient`: over a web socket, the request is lost with the connection it was
sent or queued on, although the client connects again; over HTTP it fails after five
seconds. An endpoint is taken to be either.

## Runs

All runs set `CHECK_DEADLOCK FALSE`: the bounded chain ends, the node shuts down
or exits, the user stops launching, and then nothing happens.

| run | module | properties | shows |
|---|---|---|---|
| `fetch_range` | `MCFetchService` | `NeverOverflows`, `SpecVersionsRight`, `ImplementsStream` | with a dictionary of another chain, which is given up, and the batch size scaled between 0 and 100 % between any two awaits: every block once, in order, finalized, with its runtime version; no queue overflows |
| `fetch_dictionary` | `MCFetchService` | `IndexedInOrder`, `NothingSkipped`, `OnlyFinalized`, `EveryNeededBlockIndexed` | with a dictionary that answers late, behind, ahead of the node's view of the head or not at all, and two polls that may overtake each other: never a block beyond the finalized head; until a range counts down, which happens here, only blocks without rows are skipped and the order is kept; every block with a row is indexed in the end |
| `index_restarts` | `MCNodeHealth` | `PoiChained`, `PoiComplete`, `JournalIsStream`, `RowFollowsVerdict`, `StallReported`, `DownServed` | a whole node over crashes, when the metadata timer does not fire while a block is indexed: exactly-once, one proof-of-index chain, and its health in the table and at the query service |
| `index_overlap` | `MCIndexerManager` | `NothingLost`, `EveryNeededBlockJournaled` | with the timer's write anywhere, and two data sources with different start blocks: nothing lost, progress |
| `index_stale_height` | `MCIndexerManager` | `IndexedOnce` | **fails**, see below |
| `handlers_dictionary` | `MCHandlerDispatch` | `EveryCallMade` | pairs of handlers of all kinds, with or without a dictionary: in the blocks that are behind, each was called with exactly the parts its filter lets through; a log with too few topics is rejected |
| `blocks_atomic` | `MCBlockExecution` | `BlocksAreAtomic`, `EveryBlockEnds` | statements that fail and are caught, queries that hang, handlers that time out and go on, crashes: the database holds whole blocks only |
| `mmr_rows` | `MCMmrService` | `LeavesInPlace`, `RootsRight`, `RootsStoredToFirstGap`, `RootsFinal` | over crashes between file and table, and lost files: leaves in place and right roots up to the first gap, and no root is ever replaced |
| `project_start` | `MCProjectStart` | `RowsComplete`, `CleanStart`, `RootsRight`, `CleanLaunchRuns` | three launches with edited manifests and enums, entities that cannot be built, forced cleans, fresh disks, an old database, crashes: no block missing, no row of an earlier launch after a forced clean, roots right, and a clean launch runs unless its entities or a left-over enum type are in the way |
| `schema_sync` | `MCSchemaSync` | `EnumsAsInSchema`, `StartCompletesSchema`, `HalfStartsDoNotBlock`, `FindersUsable`, `QueriesAreIndexed`, `ModelsBelongTogether` | three starts with edits, cleans, failing statements and crashes between any two: a node that starts has the whole schema, a dead start never blocks the next |
| `algorand_cache` | `MCAlgorandProvider` | `MissedOnlyHeads`, `NothingKeptForEver`, `HeadKeptBetweenRounds` | three polls that overtake each other and fetches at the same time: a block whose hash was answered is served, nothing is kept for ever |
| `project_migration` | `MCProjectMigration` | `OriginalKept`, `MigrationKeepsProject`, `ValidatedProjectStarts`, `PublishedIsProject` | three runs of migrate killed anywhere, publications in between: the manifest is never lost, the node indexes the same before and after, it takes what was validated but for what a plug-in decides, and what is published is the user's project |

### Bounds

* `fetch_range`: seven heights and a batch size of 2 (queues of 6) let both queues
  fill up while heights are left over. `MinimumBatchSize` is 2 where the code has 5,
  so that a round is small beside the chain. A runtime upgrade lies inside a batch,
  `BestLead` 1 puts one block beyond the finalized head.
* `fetch_dictionary`: four heights, and two polls, of which one may overtake the other
  between the dictionary's question and the fallback; a third does not make the head go
  back in another way. Rows are placed so that an answer is cut at `batchSize` inside a
  block's rows and below another entity's first row, and a window may lie before the
  first row. RPC calls in the loops do not fail and nobody shuts the node down:
  `fetch_range`, with one poll, has both. The dictionary may fail in each of them.
* `index_...`: data sources write at heights before and after one without
  operations, so the cached hash is used, cleared and read back; two restarts allow
  a crash, a crash of the process started after it, and a clean run. Three heights
  beside the health checks, five without them.
* `handlers_dictionary`: six blocks (a transfer that succeeds and one that fails, a
  contract call with two logs, a creation under a new runtime, a transaction never
  executed, a log with one topic where two are asked for, nothing) and pairs of 16
  handlers of every kind, chosen so that entries of two handlers meet in one `or`. A
  third handler adds no pair of entries that two do not make.
* `blocks_atomic`: four programs that write two rows at once, insert two rows, read,
  count up over two calls, query the api, and insert what cannot be inserted; two
  restarts.
* `mmr_rows`: rows 3, 4, 5, 7, 10 over offset 1: a gap at the start, rows in a row,
  gaps of one block and two; three restarts.
* `project_start`: four manifests, two of one start block with different values of the
  enum, one that begins later and has none, one whose entities cannot be built; four
  heights, three launches: one that leaves something, one that is killed on it, one
  that lives with both.
* `schema_sync`: seven documents, one refused when it is read, one with too many
  indexes, two whose statements the database refuses; one edit, so two documents
  meet; three starts.
* `algorand_cache`: two rounds and three polls, so a poll can be overtaken and a
  round polled twice.
* `project_migration`: manifests of all three versions, with each kind of chain
  types, custom data sources with an asset that is there or not and with options the
  plug-in takes or not; three runs.

### What fails

`index_stale_height`: the timer's statement waits for the lock of the block's
transaction and then restores the height before it; a restart indexes the block
again. `docs/tutorials_examples/run-indexer.md:62` says the row is where the
indexer continues from. With `WriteMayOverlap = FALSE` the property is a theorem.

Other consequences of the code as it is, seen while the models were built. The
properties above are stated so as not to include them, and say so:

*Fetching.*
A poll overtaken by a later one sets `latestFinalizedHeight` back while
`getDictionary` is awaited; the fallback then calls `range(start, end + 1)` with
`end < start`, which counts down (`fetch.service.ts:402`): blocks are indexed twice.
`fetch_dictionary` reaches it; with one poll at a time, or without a dictionary, it
cannot happen (`LonePollsNeverCountDown`), but the intervals of the code do not see to
that. What follows after it no property limits, except that no block is ahead of the
chain's finalized head. An error in the first poll leaves the finalized head undefined, and no
comparison with it is ever true: blocks beyond the head are fetched. A batch size of
1 makes queues of 3 places, and 5 are wanted: nothing is ever fetched. A batch size
scaled to zero waits for a heap that shrinks. With `InitBlockHeight = 0` and a
finalized head of 0, block 0 is buffered again (`latestBufferedHeight` 0 is falsy).

*Handlers.*
An entry without conditions, such as a handler of every EVM call, is a hole in the
`or` of its entity (`dictionary.service.ts:58`): beside another entry it selects
nothing. An address or topic that the manifest does not spell as the chain does
matches no row. `Supported` excludes both. A log with fewer topics than a filter asks
for is dereferenced (`moonbeam.ts:249`): the block is rejected, and again after every
restart. `EveryCallMade` says nothing of that block.

*Indexing.*
A data source with a later start block is only taken up by a restart
(`filterDataSources` is applied once). If the timer fires before the first block
ever, a null height is stored, which `start()` reads as 0, and a project that
starts above block 1 refuses to start. With proof of index and a timer statement
delayed over several blocks, re-indexing can run into the unique `parentHash` for ever.
Two operations that differ in an enum field only have the same leaf
(`StoreOperations.ts:40`).

*Proofs of index.*
`nextMmrHeight` is the last appended block after `init()` and the next one after an
append; the gap loop adds one to either (`mmr.service.ts:89`, `111`). Rows behind a
gap get a leaf in the wrong place, a root that does not cover their block, or none;
with rows such as 2, 4 and 8 a default leaf takes the place of row 4.
`LeavesInPlace`, `RootsRight` and `RootsStoredToFirstGap` end at the first gap.
`--force-clean` leaves the .mmr file: the new rows get roots over the old leaves, or
the node stops at the first root that differs. Rows below the offset, which a start
block lowered later produces, never get a root, and end the process.

*Starts.*
A launch killed between `DROP SCHEMA` and the `DELETE` leaves a row that names a
schema that is gone: no launch without `--force-clean` starts again. The enum types
are created outside the schema, so that an edited enum ends the start even after
`--force-clean` (`store.service.ts:101`), and the .mmr file stays too, although
`references/references.md:104` of the docs promises a clean state. `CleanStart` is
about the rows alone, and `CleanLaunchRuns` names the enum as an exception. The query
for existing enum values has no `ORDER BY`. `CREATE TYPE` for a name with quotes and
the unique index of `sync-helper.ts:35` write identifiers as string literals, which
PostgreSQL refuses; the model lets them succeed or fail. A unique index on a
reference, and a list of references, are refused by the database. An existing table
keeps its columns when the schema is edited. `getAllIndexFields` does not tie a table
to its schema (`store.service.ts:283`): a table of the same name elsewhere lends its
indexes. Names that do not survive the way to snake case and back have finders that
always throw. A `@jsonField` type that contains itself overflows the stack.

*Health.*
Beside its table, the query service serves the last verdict of a node that is dead:
`queryNodeVersion` is always set, so the fallback of `GetMetadataPlugin.ts:117` is
never reached. With a dictionary, 15 minutes without a matching block count as a
stall. `setMetadata` throws when the timer fires before the table is there.
`checkHeight` writes its three rows one by one, so that the processed height may be
above the target. `run/run.md:149` of the docs says 500 while the node boots; the
server only listens when it has started, and unset times count as healthy.

*Algorand.*
A poll that brings the round it had already deletes that round's own block: until
the next round the head is answered as missing. A failed request for a hash is
answered with null (200), and the `try` of `send` (126) misses the rejections of the
promises it returns.

*Projects.*
A run of migrate killed between its two renames leaves no `project.yaml`; both other
files are there. A types.json torn by a killed run may be kept by the next; the
project then fails validation. `typesSpec` is written over `typesChain`. A 0.2.1
manifest is migrated as if it were 0.0.1. Without `main` in package.json, migrate
throws while the node takes `dist`. The packed processor is not in the deployment:
the source file is uploaded. No code of the node reads a deployment: `project.model.ts:113`
joins its references to the project's path, and the extension of what comes out is
refused (`load.ts:15`). `subql validate` runs no plug-in's `validate` and reads no asset,
the node does both (`ds-processor.service.ts:79`): what was validated may be refused
for an ABI or an option; and custom data sources of version 0.2.1 are not validated at
all. A project with custom data sources
cannot be validated from GitHub or IPFS, since the processor is loaded by a local
path (`require-custom-ds-validation.ts:20`). `ProjectManifestVersioned.toDeployment`
(74) calls itself for ever. A web socket that closes loses the pending request of
migrate, which then waits until it is killed.

### Fairness

`FetchService`: each loop goes on after an await (weak fairness per loop: Node's
event loop is fair and RPC calls return or fail), the interval timer keeps firing,
and not every poll is lost (strong fairness of `FinalizedHeadAnswer`). No fairness
of shutdown, failures, the heap timer or the chain: liveness is about blocks that
are finalized, while the process lives. `IndexerManager`: the process is restarted,
a block goes on, a statement is executed; the timer need not fire, and the number of
crashes is bounded. `NodeHealth`: the interval timers fire and the database answers,
if not each time (strong fairness of the write). `BlockExecution`: statements of the
store are answered and the time-out of a call fires; queries of the api need not be
answered. `MmrService`: the loop goes on and the indexer inserts its rows.
`ProjectStart`: the database answers. The other runs check safety only.

## Proofs

Checked by TLAPS for every value of the constants, under the `ASSUME`s the
modules state: any number of blocks, rows, polls, restarts and any dictionary,
program of the handlers, project and chain.

* `FetchServiceProofs!BatchHeightsComplete`: an answer lies within the
  queried window and holds every relevant height up to its last one, however the
  rows are spread over the entities and wherever the answers are cut. Ranks are
  cardinalities, so no induction is needed: lemmas show that `Ascending` is a
  strictly ascending enumeration of a finite set, the least height over the
  limit is picked where an induction would be.
* `FetchServiceProofs!TypeCorrect`: `Spec => []TypeOK`, including that no queue
  is ever longer than its size. `TypeOK` is not inductive as it stands:
  `TypeInv` adds `ControlOK`, which says what a loop holds when it awaits (a
  batch is not empty and still fits, the block of `register` is there). One lemma
  per loop and `DictionaryBatch` for the answer of the dictionary.
* `FetchServiceProofs`, the heights under way: `IndexedInOrder`, `NothingSkipped`,
  `NeverOverflows` and `NextBatchOnly`, for any number of polls under way, lost or late,
  until a range counts down. None of them is inductive. `FetchInv` is the type invariant,
  `QueryInv` (the start sent to the dictionary is still where to go on) and, unless a
  range has counted down, `PipelineInv`: the sequence of heights
  from the block in `register` back to `blockNumberBuffer` is strictly ascending
  between the last indexed height and the next start (`Ordered`), and holds every
  needed height between them (`Complete`). Every step then does one of four
  things to that sequence: it moves a boundary within it (`TakeBatchMoves`,
  `FetchBlocksMoves`, `TakeBlockMoves`), appends to it (`FillKeeps`), takes its
  head (`IndexedKeeps`) or leaves it alone (`MoveKeeps`). `SpecVersionsRight` adds
  `VersionInv`: the version kept from the batch before is that of a height below every
  height under way, so that a version equal to it at the end of a batch is that of the
  whole batch, runtimes being upgraded only.
* `FetchServiceProofs`, the finalized head: `OnlyFinalized` holds whatever counts down,
  from `HeadInv` (what is known of the head was true once, and a lone poll brings
  nothing older) and `FinalizedInv` (the start sent to the dictionary is finalized).
  `LonePollsNeverCountDown` says when no range counts down, `StreamWithoutCountingDown`
  that a behaviour without one implements `BlockStream`, for any number of polls;
  `ServiceImplementsStream` is the two together.
* `HandlerDispatchProofs`: `DictionaryComplete` is the lemma at the heart of the
  dispatch, a statement about operators: a block with an input for some handler
  has a row that the `or` of the project's entries selects, one case per kind of
  handler. `NoCallLost` (`EveryCallMade`) follows with `ProgressInv`: the calls
  made and the inputs left are those of the handlers reached so far.
* `IndexerManagerProofs`: `NothingLost` from `CoverInv` (every height that is or
  may become the stored one has its needed blocks in the journal);
  `NoSourceBeforeItsStart` from `SourceInv`; `IndexedOnce` and
  `HeightNeverRegresses` from `OrderInv` (the journal ends at the stored height,
  and a statement of the timer carries that same height); `JournalIsStream` from
  the three together; `PoiChained` from `PoiInv` (the row in the transaction and
  the cached hash continue the chain of the table); `PoiComplete` from
  `CompleteInv`. The number of restarts and of blocks is any natural number.
  `NodeIsAnIndexer` takes all of it to the node of `NodeHealth`: its steps are steps of
  the indexer or leave it alone. `RowFollowsVerdict` from `HealthInv`: a write
  that was executed and not yet answered is in the row, and without one, and without a
  write whose fate is unknown, the row is what the service remembers.
* `BlockExecutionProofs`: type correctness and `BlocksAreAtomic`, the refinement of
  `AtomicBlocks`. `ExecutionInv` adds to the types what each phase of a block can
  rely on (`PhaseInv`: between blocks there is no transaction, during one the store
  holds it), that the statements under way are of one step, in the transaction, and
  made of what is read now (`QueueInv`), and that nothing is read between blocks.
  While the transaction is alive a statement is a step of the draft; an aborted or
  finished one is mapped to no draft at all, so that whatever a handler does after
  its time-out is a stutter.
* `MmrServiceProofs`: `LeavesInPlace` and `RootsRight` by one invariant with them:
  the rows inserted are an initial segment (`Ascending`), a fetched batch leaves
  none out (`Batch`), the gap belongs to the block in hand (`GapInHand`), and the
  service knows where the next leaf belongs until it meets a gap (`Count`), which is
  where the proof would fail beyond one. `RootsFinal` needs the types only.
* `FetchServiceProofs`, the provider: all three properties of the run together with what ties
  them: a block whose hash was answered waits in the map unless it was a head
  (`WaitsForFetch`), the last hash was polled (`HeadWasPolled`), the best head's
  poll has been answered (`BestWasPolled`).
* `ProjectStartProofs`: `RowsComplete`, `CleanStart` and `RootsRight` from `StartInv`,
  for any number of launches and manifests. It says of each schema that is alive that
  its rows run without a gap from the start block of the launch that began it
  (`OwnRows`, `BegunRight`; `LegacyRows` for one an older version began) and its roots
  cover the leaves up to their own (`RootsInv`), and of the launch under way what each
  await leaves it to know: which schema the row of `subqueries` names (`PhaseInv`),
  that a forced clean has emptied it (`CleanInv`), and that a file that was used with
  this schema only holds leaves of this schema (`FileInv`, `OwnLeaves`), which is why
  the roots stay right when the file is found again after a crash or built anew.
* `ProjectMigrationProofs`: the four properties of the run from `MigrationInv`, which
  follows `project.yaml` through the command: it is the manifest of the user, or gone
  with the backup in place, or what the conversion made of the backup, and no later run
  changes it then (`OriginInv`, with `Migrated` as the value of the whole conversion);
  `StepInv` says what a run holds between two file operations, and `TypesInv` that
  types.json is touched for manifests with types only. `NodeView` of `Migrated` is then
  that of the original, and each rule of the validator gives the node one of the things
  it insists on. `PublishedIsProject` rests on two facts about a manifest that can be
  published: it is the original or what the conversion made of it, and says the same
  (`PublishableIsOriginal`); and its deployment, with the files by content, passes the
  rules of the validator (`DeployedPasses`) and has the same chain types
  (`DeployedChainTypesSame`). After that no step but another publication touches it.
  `TypeCorrect` adds `MemoryInv`, what the command has in memory.
* `SchemaSyncProofs`: the six properties of the run from `SyncInv`, for every set of
  documents and any number of starts. `StartInv` says that what a start no longer has
  to do is in the database, whoever put it there (`EnumsDone`, `TablesDone`,
  `ExtrasDone`, one for each step of it); `TablesInv`, that each table has the columns
  and foreign keys of a version that left its trace. Together they make a dead start
  harmless: a statement that is refused asks for a column or a constraint that is not
  there, and both are. `ModelsInv` has the version all classes come from. `TypeCorrect`
  needs two parts of its own: keys, indexes and comments are those of tables that are
  there (`KeysInv`), and what the start holds is of the documents (`HeldInv`).

The assumptions of single theorems, and why they are there:

| assumption | theorems | without it |
|---|---|---|
| `InitBlockHeight > 0` | those on `FetchService` but `TypeCorrect`, `FinalizedOnly` and `LonePollsNeverCountDown` | a start at block 0 is buffered twice |
| `~InitialPollMayFail` | `FinalizedOnly`, `StreamWithoutCountingDown`, `ServiceImplementsStream`, and with a dictionary `LonePollsNeverCountDown` | the head is undefined and blocks beyond it are fetched |
| with a dictionary, `MaxPolls = 1` | `LonePollsNeverCountDown`, `ServiceImplementsStream` | polls overtake each other and a range counts down; the code does not prevent it |
| `~WriteMayOverlap` | `IndexedExactlyOnce`, `StoredHeightGrows`, `JournalImplementsStream`, `PoiIsOneChain` | `index_stale_height` |
| `LegacyNextHeight = NoRow` | `JournalImplementsStream` | a `nextBlockHeight` left by an old version sets the first height until the first row is stored; if the timer stores its null before the first block, a restart begins at block 1, below it |
| `ProofOfIndex` | `PoiCoversOperations` | there are no rows |
| every project `Supported`, every block `SpelledByChain` | `NoCallLost`, `DictionaryComplete`, `HandlerDispatchProofs!TypeCorrect` | bare entries and other spellings, see above |
| `NoManifests` | `ValidationIsEnough`, `PublishedAsWritten`, `ProjectMigrationProofs!TypeCorrect` | what stands for a missing or torn file could be a manifest; TLC has model values there |
| `NoReferences` | `PublishedAsWritten` | what stands for a missing reference could be a reference |
| `FormsDistinct` | `QueriesFindIndexes` | a column such as `user_id` beside `userId`: an index on one lets handlers query the other |
| `ProgramAssumption` (`BlockExecution`) | all of `BlockExecutionProofs` | a read in the same step as a write has no defined value |

The modules' own `ASSUME`s are facts the code relies on as well, and TLC evaluates them
on every run: in `SchemaSync`, that the types of a document have names of their own and
no two fields share a column; in `ProjectMigration`, the form of a manifest and that no
file holds one of the values that stand for having nothing; in `DictionaryService` and
`FetchService`, that rows and runtimes are those of a chain.

Only model-checked: the liveness properties (`EveryNeededBlockIndexed`,
`EveryNeededBlockJournaled`, `EveryBlockEnds`, `RootsStoredToFirstGap`,
`CleanLaunchRuns`, `StallReported`, `DownServed`), which are out of the prover's reach
since they rest on fairness. Every safety property of a passing run is a theorem.
`TypeOK` of `ProjectStart` is neither: it includes bounds of the small instance
(`MaxHeight`) that do not hold of every constant; the types that matter are `TypeInv`
and `SchemaInv`, which `StartInv` proves. Induction over data (what a
recursive definition computes for every input) is avoided by definitions through
cardinalities, sequences and relations between neighbours.

## Not modelled

* The Polkadot side of the initializers, the translation of Algorand blocks,
  listeners and connection events of `ApiService`: calls of libraries and reports.
* How code is loaded into a VM (`SandboxService`, `DsProcessorService`): the sandbox
  is a library.
* ABI decoding and the Frontier provider of the contract processors, and their cache
  of ABIs by name.
* The PostGraphile plug-ins that rewrite the GraphQL schema (backward relations, the
  arguments of connections, smart tags): pure functions of a schema, run once, into
  a library. One was met in passing: `first: 0` is answered with a hundred rows.
* `subql init`: it clones a repository and edits package.json, all in one pass of
  file and network I/O.
* Flags, logging, profiling, the benchmark, gauges and the pool of connections.
* In modelled parts: local mode, the metadata keys that are only reported, column
  types beyond list, enum and JSON, cyclic references between tables, writes that a
  handler does not await.

Worth doing next: the safety half of the liveness properties (what a step towards them
never undoes); a composition of `MmrService` with rows that are rewritten after a stale
height.
