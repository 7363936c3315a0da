---------------------------- MODULE ProjectStart ----------------------------
(* How a launch of the node finds, cleans, creates and resumes the schema of  *)
(* its project: IndexerManager.start up to the first block, and what indexing *)
(* and MmrService then leave behind for the next launch.                      *)
(* Each launch may come with --force-clean and with an edited manifest, and   *)
(* may end at any await.  The database may be one of an older version of the  *)
(* node, which named the schema in a row of the table subqueries; the file of *)
(* Merkle leaves lies beside the database and is not part of it.              *)
(* Indexing a block is one step here (BlockExecution), and so is the sync of  *)
(* one row but for a crash in it (MmrService); every block has operations.    *)
EXTENDS Integers, Sequences, FiniteSets

CONSTANTS
    DbSchema,       \* NodeConfig.dbSchema
    LegacySchema,   \* the schema an older version made for the project
    None,
    Manifests,      \* what the user may launch with, each a record of startBlock,
                    \*   project, enum: the values of the enum of its schema.graphql,
                    \*   or None, builds: its entities can be built
    LegacyHeight,   \* where the older version stopped
    MaxHeight,
    MaxLaunches

ASSUME StartAssumption ==
    /\ DbSchema # LegacySchema
    /\ \A m \in Manifests : m.startBlock \in Nat \ {0} /\ m.builds \in BOOLEAN
    /\ LegacyHeight \in Nat \ {0} /\ MaxHeight \in Nat /\ MaxLaunches \in Nat
    /\ None \notin Nat

VARIABLES
    schemas,        \* each schema of the database, None when it is not there
    subqueries,     \* the row of the project in public.subqueries, or None
    file,           \* the .mmr file, None when there is none
    life,           \* how many schemas were created: the number of the last one
    cleanFailed,    \* dropping the schema, or deleting the row, once failed
    mixed,          \* the schemas that were used with a file of another one
    enums,          \* the values of the enum type of each schema's name, which is not
                    \*   part of the schema, None when there is no such type
    pc,
    forceClean,
    launches,       \* the manifest of each launch so far
    schema,         \* the local of start()
    height,         \* the next block of the process
    nextMmrHeight

database == <<schemas, subqueries, life, mixed, cleanFailed, enums>>
launch == <<forceClean, launches>>
process == <<pc, schema, height, nextMmrHeight>>
vars == <<database, file, launch, process>>

Names == {DbSchema, LegacySchema}

NoRows == [h \in {} |-> 0]

\* A schema without anything in its tables.  rows tells the launch that indexed
\* a block, roots the mmrRoot of each row of _poi, << >> while it is null.
EmptySchema ==
    [blockOffset |-> None, lastProcessedHeight |-> None, rows |-> NoRows, roots |-> NoRows]

\* What an older version of the node left: blocks, and neither metadata nor proofs.
LegacyContent == [EmptySchema EXCEPT !.rows = [h \in 1 .. LegacyHeight |-> 0]]

manifest == launches[Len(launches)]

current == schemas[schema]

\* The number of the schema of a name, 0 for the one of an older version.  A file
\* carries the number of the schema it is used with, None after a second one.
Life(name) == IF name = DbSchema THEN life ELSE 0

----------------------------------------------------------------------------

Init ==
    /\ \/ schemas = [n \in Names |-> None] /\ subqueries = None
          /\ enums = [n \in Names |-> None]
       \/ /\ schemas = [n \in Names |-> IF n = LegacySchema THEN LegacyContent ELSE None]
          /\ subqueries = [dbSchema |-> LegacySchema, nextBlockHeight |-> LegacyHeight + 1]
          /\ \E m \in Manifests :
                enums = [n \in Names |-> IF n = LegacySchema THEN m.enum ELSE None]
    /\ file = None
    /\ life = 0 /\ mixed = {} /\ cleanFailed = FALSE
    /\ pc = "down"
    /\ forceClean = FALSE /\ launches = << >>
    /\ schema = DbSchema /\ height = 0 /\ nextMmrHeight = 0

\* The user starts the node, perhaps with another manifest, perhaps in a
\* container whose disk is new.
Launch ==
    /\ pc \in {"down", "exited"}
    /\ Len(launches) < MaxLaunches
    /\ forceClean' \in BOOLEAN
    /\ \E m \in Manifests : launches' = Append(launches, m)
    /\ file' \in {file, None}
    /\ pc' = "schemas"
    /\ schema' = DbSchema /\ height' = 0 /\ nextMmrHeight' = 0
    /\ UNCHANGED database

Crash ==
    /\ pc \notin {"down", "exited"}
    /\ pc' = "down"
    /\ UNCHANGED <<database, file, launch, schema, height, nextMmrHeight>>

\* Variant with a bug: the schema of an older version is not cleaned.
BugAfterSchemaFound(name) == IF forceClean /\ name = DbSchema THEN "drop" ELSE "sync"

\* ensureProject, once it knows of a schema.
AfterSchemaFound(name) == IF forceClean THEN "drop" ELSE "sync"

\* getExistingProjectSchema asks for the schemas there are.
FetchSchemas ==
    /\ pc = "schemas"
    /\ pc' = IF schemas[DbSchema] # None THEN AfterSchemaFound(DbSchema) ELSE "fallback"
    /\ UNCHANGED <<database, file, launch, schema, height, nextMmrHeight>>

\* ... and falls back to the row, which may name a schema that is gone.
FindSubquery ==
    /\ pc = "fallback"
    /\ IF subqueries = None
       THEN pc' = "create" /\ UNCHANGED schema
       ELSE schema' = subqueries.dbSchema /\ pc' = AfterSchemaFound(subqueries.dbSchema)
    /\ UNCHANGED <<database, file, launch, height, nextMmrHeight>>

\* DROP SCHEMA IF EXISTS
DropSchema ==
    /\ pc = "drop"
    /\ schemas' = [schemas EXCEPT ![schema] = None]
    /\ pc' = "delete"
    /\ UNCHANGED <<subqueries, life, mixed, cleanFailed, enums, file, launch, schema, height, nextMmrHeight>>

DeleteSubquery ==
    /\ pc = "delete"
    /\ subqueries' = None
    /\ pc' = "create"
    /\ UNCHANGED <<schemas, life, mixed, cleanFailed, enums, file, launch, schema, height, nextMmrHeight>>

\* Either error is logged, and the launch goes on.
CleanFails ==
    /\ pc \in {"drop", "delete"}
    /\ pc' = "create"
    /\ cleanFailed' = TRUE
    /\ UNCHANGED <<schemas, subqueries, life, mixed, enums, file, launch, schema, height, nextMmrHeight>>

\* Variant with a bug: the schema is created under the name that was found.
BugSchemaToCreate == schema

SchemaToCreate == DbSchema

CreateProjectSchema ==
    /\ pc = "create"
    /\ schema' = SchemaToCreate
    /\ IF schemas[DbSchema] = None
       THEN /\ schemas' = [schemas EXCEPT ![DbSchema] = EmptySchema]
            /\ life' = life + 1 /\ mixed' = mixed \ {DbSchema}
       ELSE UNCHANGED <<schemas, life, mixed>>
    /\ pc' = "sync"
    /\ UNCHANGED <<subqueries, cleanFailed, enums, file, launch, height, nextMmrHeight>>

\* The enum type of a schema's name was not made yet, or has the values of now.
EnumFits(name) == manifest.enum = None \/ enums[name] \in {None, manifest.enum}

\* initDbSchema builds the entities; StoreService.init makes or compares the enum
\* type first, then creates the tables, which fails in a schema that is not there.
\* Each error ends the process, before or after the type is made.
SyncSchema ==
    /\ pc = "sync"
    /\ \/ /\ EnumFits(schema)
          /\ enums' = IF manifest.enum = None THEN enums
                      ELSE [enums EXCEPT ![schema] = manifest.enum]
          /\ pc' = IF manifest.builds /\ current # None THEN "metadata" ELSE "exited"
       \/ /\ ~EnumFits(schema) \/ ~manifest.builds
          /\ UNCHANGED enums
          /\ pc' = "exited"
    /\ UNCHANGED <<schemas, subqueries, life, mixed, cleanFailed, file, launch,
                   schema, height, nextMmrHeight>>

\* Variant with a bug: the offset follows the manifest.
BugOffset == manifest.startBlock - 1

\* The offset is created once.
Offset == IF current.blockOffset = None THEN manifest.startBlock - 1 ELSE current.blockOffset

EnsureMetadata ==
    /\ pc = "metadata"
    /\ schemas' = [schemas EXCEPT ![schema].blockOffset = Offset]
    /\ pc' = "mmr"
    /\ UNCHANGED <<subqueries, life, mixed, cleanFailed, enums, file, launch, schema, height, nextMmrHeight>>

\* MmrService.init
InitMmr ==
    /\ pc = "mmr"
    /\ file' = CASE file = None -> [life |-> Life(schema), leaves |-> << >>]
                 [] file # None /\ file.life = Life(schema) -> file
                 [] OTHER -> [file EXCEPT !.life = None]
    /\ nextMmrHeight' = Len(file'.leaves) + current.blockOffset
    /\ mixed' = IF file'.life = None THEN mixed \cup {schema} ELSE mixed
    /\ pc' = "height"
    /\ UNCHANGED <<schemas, subqueries, life, cleanFailed, enums, launch, schema, height>>

\* Variant with a bug: the row of the older version first.
BugStartHeight ==
    IF subqueries # None
    THEN subqueries.nextBlockHeight
    ELSE IF current.lastProcessedHeight # None
         THEN current.lastProcessedHeight + 1
         ELSE manifest.startBlock

StartHeight ==
    IF current.lastProcessedHeight # None
    THEN current.lastProcessedHeight + 1
    ELSE IF subqueries # None THEN subqueries.nextBlockHeight ELSE manifest.startBlock

\* filterDataSources ends the process when no data source has begun.
StartIndexing ==
    /\ pc = "height"
    /\ height' = StartHeight
    /\ pc' = IF manifest.startBlock <= StartHeight THEN "running" ELSE "exited"
    /\ UNCHANGED <<database, file, launch, schema, nextMmrHeight>>

----------------------------------------------------------------------------
(* A running node                                                           *)

With(function, key, value) ==
    [k \in DOMAIN function \cup {key} |-> IF k = key THEN value ELSE function[k]]

IndexBlock ==
    /\ pc = "running" /\ height <= MaxHeight
    /\ schemas' = [schemas EXCEPT ![schema] =
                      [current EXCEPT !.lastProcessedHeight = height,
                                      !.rows = With(current.rows, height, Len(launches)),
                                      !.roots = With(current.roots, height, << >>)]]
    /\ height' = height + 1
    /\ UNCHANGED <<subqueries, life, mixed, cleanFailed, enums, file, launch, pc, schema, nextMmrHeight>>

\* The hash of a row of _poi: over the hash of the row before it and the project
\* that indexed the block.
PoiHash(s, id) ==
    [k \in {j \in DOMAIN s.roots : j <= id} |-> launches[s.rows[k]].project]

DefaultLeaf == << >>

Unsynced == {id \in DOMAIN current.roots : id >= nextMmrHeight}

\* The next row of _poi, with the leaves of the gap before it.
NextRow == CHOOSE id \in Unsynced : \A other \in Unsynced : id <= other

GapFilled == file.leaves \o [k \in 1 .. NextRow - nextMmrHeight - 1 |-> DefaultLeaf]

LeafIndex == NextRow - current.blockOffset - 1

NewLeaves ==
    IF LeafIndex = Len(GapFilled) THEN Append(GapFilled, PoiHash(current, NextRow)) ELSE GapFilled

\* Undefined, here << >>, when the file is too short.
NewRoot == IF LeafIndex < Len(NewLeaves) THEN SubSeq(NewLeaves, 1, LeafIndex + 1) ELSE << >>

\* The leaf is appended and the root stored, or compared with the one there is;
\* a row from below the offset has no leaf to ask the root of.
SyncRow ==
    /\ pc = "running" /\ Unsynced # {}
    /\ LeafIndex >= 0
    /\ current.roots[NextRow] \in {<< >>, NewRoot}
    /\ file' = [file EXCEPT !.leaves = NewLeaves]
    /\ schemas' = [schemas EXCEPT ![schema].roots[NextRow] = NewRoot]
    /\ nextMmrHeight' = NextRow + 1
    /\ UNCHANGED <<subqueries, life, mixed, cleanFailed, enums, launch, pc, schema, height>>

\* The process may end between the two writes, or by a root that differs.
SyncEnds ==
    /\ pc = "running" /\ Unsynced # {}
    /\ \/ LeafIndex < 0 /\ pc' = "exited" /\ UNCHANGED file
       \/ /\ LeafIndex >= 0
          /\ file' = [file EXCEPT !.leaves = NewLeaves]
          /\ pc' = IF current.roots[NextRow] \in {<< >>, NewRoot} THEN "down" ELSE "exited"
    /\ UNCHANGED <<database, launch, schema, height, nextMmrHeight>>

EnsureProject ==
    FetchSchemas \/ FindSubquery \/ DropSchema \/ DeleteSubquery \/ CleanFails \/ CreateProjectSchema

Start == EnsureProject \/ SyncSchema \/ EnsureMetadata \/ InitMmr \/ StartIndexing

Next == Launch \/ Crash \/ Start \/ IndexBlock \/ SyncRow \/ SyncEnds

Spec == Init /\ [][Next]_vars

\* The database answers.
FairSpec == Spec /\ WF_vars(Start)

----------------------------------------------------------------------------
(* Properties                                                               *)

SchemaOK(s) ==
    /\ s.blockOffset \in Nat \cup {None}
    /\ s.lastProcessedHeight \in Nat \cup {None}
    /\ DOMAIN s.roots \subseteq DOMAIN s.rows /\ DOMAIN s.rows \subseteq 1 .. MaxHeight
    /\ \A h \in DOMAIN s.rows : s.rows[h] \in 0 .. Len(launches)
    /\ \A h \in DOMAIN s.roots : s.rows[h] > 0
    /\ DOMAIN s.roots # {} => s.blockOffset # None

TypeOK ==
    /\ \A n \in Names : schemas[n] # None => SchemaOK(schemas[n])
    /\ subqueries # None => subqueries = [dbSchema |-> LegacySchema,
                                          nextBlockHeight |-> LegacyHeight + 1]
    /\ enums \in [Names -> {m.enum : m \in Manifests} \cup {None}]
    /\ life \in 0 .. Len(launches) /\ mixed \in SUBSET Names /\ cleanFailed \in BOOLEAN
    /\ file # None => file.life \in 0 .. life \cup {None}
    /\ pc \in {"down", "schemas", "fallback", "drop", "delete", "create", "sync",
               "metadata", "mmr", "height", "running", "exited"}
    /\ forceClean \in BOOLEAN
    /\ launches \in Seq(Manifests) /\ Len(launches) <= MaxLaunches
    /\ schema \in Names
    /\ height \in 0 .. MaxHeight + 1
    /\ pc = "running" /\ current.lastProcessedHeight # None =>
           height = current.lastProcessedHeight + 1
    /\ nextMmrHeight \in Nat

First(s) == CHOOSE h \in DOMAIN s.rows : \A k \in DOMAIN s.rows : h <= k

\* The start block of the launch that began with a schema.
Begun(s) == IF s.rows[First(s)] = 0 THEN 1 ELSE launches[s.rows[First(s)]].startBlock

LastBlock(s) == IF s.lastProcessedHeight = None THEN LegacyHeight ELSE s.lastProcessedHeight

\* Over any number of launches, crashes, edited manifests and forced cleans, the
\* blocks in a schema have no gap up to the stored height, and begin with the start
\* block of the launch that began with it, or of the older version; a clean that
\* failed half-way may leave a row that makes a new schema begin later.
RowsComplete ==
    \A n \in Names : schemas[n] # None /\ DOMAIN schemas[n].rows # {} =>
        /\ DOMAIN schemas[n].rows = First(schemas[n]) .. LastBlock(schemas[n])
        /\ cleanFailed \/ First(schemas[n]) = Begun(schemas[n])

CleanState ==
    pc = "running" /\ forceClean =>
        /\ current.blockOffset = manifest.startBlock - 1
        /\ DOMAIN current.rows = manifest.startBlock .. height - 1
        /\ \A h \in DOMAIN current.rows : current.rows[h] = Len(launches)

\* A launch with --force-clean that gets to run has a schema with its own start
\* block for an offset, and in it the blocks from that start block on without a gap,
\* each indexed by this launch, whatever earlier launches left: unless an error of a
\* clean was swallowed.  That is all a clean achieves: the file of Merkle leaves and
\* the enum types stay as they were, and nothing is said of them here.
CleanStart == cleanFailed \/ CleanState

\* The leaves the rows of a schema are entitled to.
LeavesOf(s, id) ==
    [k \in 1 .. id - s.blockOffset |->
        IF s.blockOffset + k \in DOMAIN s.roots THEN PoiHash(s, s.blockOffset + k)
        ELSE DefaultLeaf]

\* Unless a schema was used with the file of another one, which forced cleans leave
\* behind, each stored root covers the proofs of exactly the blocks up to its own,
\* whatever start block the manifest has in between and however often the file is lost.
RootsRight ==
    \A n \in Names : schemas[n] # None /\ n \notin mixed =>
        \A id \in DOMAIN schemas[n].roots :
            schemas[n].roots[id] # << >> =>
                schemas[n].roots[id] = LeavesOf(schemas[n], id)

\* Whatever schemas and rows the launches before have left, one with --force-clean
\* gets to run, unless it is killed or the clean fails: if its entities can be built,
\* and the enum type an earlier launch may have left, which a clean does not drop,
\* has the values its schema.graphql has now.
CleanLaunchRuns ==
    (pc = "schemas" /\ forceClean /\ manifest.builds /\ EnumFits(DbSchema))
        ~> (pc \in {"running", "down"} \/ cleanFailed)
=============================================================================
