----------------------------- MODULE NodeHealth -----------------------------
(* What a running indexer says of its own health, and who hears of it.        *)
(* HealthService (node/src/meta/health.service.ts) times the events of the     *)
(* indexer: a new target height, a block that begins.  An interval timer writes *)
(* its verdict into the row indexerHealthy of _metadata when it differs from   *)
(* the one remembered.  A write is taken to end before the next check, a minute *)
(* later: nothing in the code sees to that.  The query service (GetMetadataPlugin *)
(* of packages/query) serves that row, or, when it was started before the table *)
(* was there, what it fetches from the node every ten seconds.                 *)
EXTENDS IndexerManager

VARIABLES
    target,          \* age of recordBlockTimestamp: unset, fresh, stale
    processing,      \* age of currentProcessingTimestamp
    indexerHealthy,  \* the verdict remembered: unset, healthy, unhealthy
    check,           \* the verdict checkHealthStatus awaits the write of, or none
    written,         \* the database has executed it
    unsure,          \* the answer to an executed write was lost
    healthRow,       \* the row indexerHealthy of _metadata
    query,           \* the query service: off, or what it serves: table, cache
    fetching,        \* where fetchFromApi awaits: meta, health
    cached           \* metaCache.indexerHealthy

serviceVars == <<target, processing, indexerHealthy, check, written, unsure>>
queryVars == <<query, fetching, cached>>
healthVars == <<serviceVars, healthRow, queryVars>>
nodeVars == <<vars, healthVars>>

NodeInit ==
    /\ Init
    /\ target = "unset" /\ processing = "unset"
    /\ indexerHealthy = "unset"
    /\ check = "none" /\ written = FALSE
    /\ unsure = FALSE
    /\ healthRow = "unset"
    /\ query = "off" /\ fetching = "meta" /\ cached = "unset"
-----------------------------------------------------------------------------
(* The indexer, and the events its steps emit.                               *)

\* start() polls the finalized head before the first block; the poll may fail.
NodeStart ==
    /\ Start
    /\ target' \in {"fresh", "unset"}
    /\ UNCHANGED <<processing, indexerHealthy, check, written, unsure, healthRow, queryVars>>

NodeEnds ==
    /\ ProcessEnds
    /\ target' = "unset" /\ processing' = "unset"
    /\ indexerHealthy' = "unset"
    /\ check' = "none" /\ written' = FALSE
    /\ unsure' = FALSE
    /\ UNCHANGED <<healthRow, queryVars>>

\* indexBlock emits BlockProcessing first; a process sees no height twice.
HandleProcessingBlock ==
    /\ BlockArrives
    /\ processing' = "fresh"
    /\ UNCHANGED <<target, indexerHealthy, check, written, unsure, healthRow, queryVars>>

\* FetchService emits BlockTarget when the finalized head has changed.
HandleTargetBlock ==
    /\ pc # "down"
    /\ target' = "fresh"
    /\ UNCHANGED <<vars, processing, indexerHealthy, check, written, unsure, healthRow, queryVars>>

IndexerGoesOn ==
    /\ RunHandlers \/ CreatePoi \/ Commit \/ AfterCommit \/ CheckHeight \/ SetMetadata
    /\ UNCHANGED healthVars

\* More than ten block times without a new target height.
TargetAges ==
    /\ target = "fresh"
    /\ target' = "stale"
    /\ UNCHANGED <<vars, processing, indexerHealthy, check, written, unsure, healthRow, queryVars>>

\* More than healthTimeout without a new block.
ProcessingAges ==
    /\ processing = "fresh"
    /\ processing' = "stale"
    /\ UNCHANGED <<vars, target, indexerHealthy, check, written, unsure, healthRow, queryVars>>
-----------------------------------------------------------------------------
(* checkHealthStatus                                                        *)

\* Variant with a bug: only the blocks are timed.
BugGetHealth == IF processing = "stale" THEN "unhealthy" ELSE "healthy"

\* getHealth throws for either record; one never set does not count.
GetHealth == IF "stale" \in {target, processing} THEN "unhealthy" ELSE "healthy"

\* Variant with a bug: the verdict is remembered before it is written.
BugCheckHealthStatus ==
    /\ pc # "down"
    /\ check = "none"
    /\ GetHealth # indexerHealthy
    /\ check' = GetHealth
    /\ indexerHealthy' = GetHealth
    /\ UNCHANGED <<vars, target, processing, written, unsure, healthRow, queryVars>>

\* The timer; a verdict like the one remembered is not written.
CheckHealthStatus ==
    /\ pc # "down"
    /\ check = "none"
    /\ GetHealth # indexerHealthy
    /\ check' = GetHealth
    /\ UNCHANGED <<vars, target, processing, indexerHealthy, written, unsure,
                   healthRow, queryVars>>

\* The database executes the upsert.
WriteHealth ==
    /\ check # "none" /\ ~written
    /\ healthRow' = check
    /\ written' = TRUE
    /\ UNCHANGED <<vars, target, processing, indexerHealthy, check, unsure, queryVars>>

\* Its answer arrives.
HealthWritten ==
    /\ written
    /\ indexerHealthy' = check
    /\ check' = "none" /\ written' = FALSE
    /\ UNCHANGED <<vars, target, processing, unsure, healthRow, queryVars>>

\* It is refused, or its answer is lost: nothing is remembered.
HealthWriteFails ==
    /\ check # "none"
    /\ unsure' = (unsure \/ written)
    /\ check' = "none" /\ written' = FALSE
    /\ UNCHANGED <<vars, target, processing, indexerHealthy, healthRow, queryVars>>
-----------------------------------------------------------------------------
(* The query service, started with --indexer.                                *)

\* The first start of the indexer creates the tables of the schema.
MetadataTable == pc # "down" \/ restarts > 0

\* The plugin looks for the table once, when the schema is introspected.
StartQuery ==
    /\ query' = IF MetadataTable THEN "table" ELSE "cache"
    /\ fetching' = "meta" /\ cached' = "unset"
    /\ UNCHANGED <<vars, serviceVars, healthRow>>

\* Variant with a bug: an error leaves the cache alone.
BugOnFetchError == UNCHANGED cached

OnFetchError == cached' = "unhealthy"

\* fetchFromApi asks for /meta, which says nothing of health, then for /health.
\* It does so beside a table as well, but there nobody reads the cache.
FetchMetaFromApi ==
    /\ query = "cache" /\ fetching = "meta"
    /\ fetching' = "health"
    /\ IF pc # "down" THEN UNCHANGED cached ELSE OnFetchError
    /\ UNCHANGED <<vars, serviceVars, healthRow, query>>

FetchHealthFromApi ==
    /\ query = "cache" /\ fetching = "health"
    /\ fetching' = "meta"
    /\ IF pc # "down" THEN cached' = GetHealth ELSE OnFetchError
    /\ UNCHANGED <<vars, serviceVars, healthRow, query>>

\* fetchFromTable; a key without a row, or of another type, is left out.
FetchFromTable == healthRow

\* What the field indexerHealthy of _metadata says.  The plugin never returns the
\* cache when there is a table: the answer from the table is never empty.
Served == IF query = "table" THEN FetchFromTable ELSE cached
-----------------------------------------------------------------------------
NodeNext ==
    \/ NodeStart \/ NodeEnds \/ HandleProcessingBlock \/ HandleTargetBlock
    \/ IndexerGoesOn \/ TargetAges \/ ProcessingAges
    \/ CheckHealthStatus \/ WriteHealth \/ HealthWritten \/ HealthWriteFails
    \/ StartQuery \/ FetchMetaFromApi \/ FetchHealthFromApi

(* The timers fire; the database answers, if not each time.                  *)
HealthFairness ==
    /\ WF_nodeVars(CheckHealthStatus)
    /\ SF_nodeVars(WriteHealth)
    /\ WF_nodeVars(HealthWritten)
    /\ WF_nodeVars(FetchMetaFromApi)
    /\ WF_nodeVars(FetchHealthFromApi)

NodeSpec == NodeInit /\ [][NodeNext]_nodeVars /\ HealthFairness
-----------------------------------------------------------------------------
(* Properties                                                               *)

\* Whatever writes fail, and over restarts, the row says what the service
\* remembers when no check is under way: a verdict that was not written is written
\* by a later check.  An answer lost after the write breaks it: then the row may stay
\* wrong until the verdict changes.
RowFollowsVerdict ==
    pc # "down" /\ check = "none" /\ indexerHealthy # "unset" /\ ~unsure =>
        healthRow = indexerHealthy

\* A stalled endpoint or indexer is in the row in the end, unless it recovers or
\* the process ends.
StallReported ==
    ("stale" \in {target, processing}) ~>
        (healthRow = "unhealthy" \/ "stale" \notin {target, processing}
             \/ pc = "down" \/ unsure)

\* A query service that was started before the indexer's tables were there tells
\* its clients that the indexer is down.
DownServed ==
    (pc = "down" /\ query = "cache") ~>
        (Served = "unhealthy" \/ pc # "down" \/ query # "cache")
=============================================================================
