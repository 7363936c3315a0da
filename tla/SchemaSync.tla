----------------------------- MODULE SchemaSync -----------------------------
(* How the node brings the database to the entities of schema.graphql at      *)
(* every start (StoreService.init, syncSchema and getAllIndexFields, with     *)
(* utils/sync-helper.ts and utils/graphql.ts), what the store then lets a     *)
(* handler query, and how the generator of the model classes                  *)
(* (cli/src/controller/codegen-controller.ts) writes them from the same file. *)
(*                                                                            *)
(* Every statement is sent on its own, outside any transaction: a crash can   *)
(* fall between any two of them, the server may answer any of them with an    *)
(* error, and either way the next start begins again.  The user edits         *)
(* schema.graphql between starts, or while the node runs.                     *)
EXTENDS GraphqlEntities

CONSTANTS
    Documents,         \* the versions of schema.graphql, [version -> document]
    EarlierEnums,      \* enum types other releases may have left, [name -> values]
    Neighbours,        \* indexes of tables of the same names in other schemas
    IndexCountLimit,   \* --index-count-limit
    EntityForm(_),     \* upperFirst(camelCase(name)) of an entity
    FieldForm(_),      \* camelCase(underscored(name)) of a column
    MaxEdits, MaxStarts

ASSUME SchemaAssumption ==
    /\ IndexCountLimit \in Nat /\ MaxEdits \in Nat /\ MaxStarts \in Nat
    \* the types of a document have names of their own
    /\ \A doc \in Range(Documents) :
          /\ doc.enums \in Seq(Range(doc.enums))
          /\ doc.entities \in Seq(Range(doc.entities))
          /\ \A e \in Range(doc.entities) : e.name # Absent
          /\ \A d, e \in Range(doc.entities) : d.name = e.name => d = e
    /\ Absent \notin DOMAIN Documents
    \* two fields of an entity never share a column
    /\ \A doc \in Range(Documents) : \A e \in Range(doc.entities) :
          \A f, g \in FieldsOf(e) :
             Column(doc, f).name = Column(doc, g).name => f = g

VARIABLES
    file,        \* the project's schema.graphql
    \* the database: the project's schema, and the types beside it
    tables,      \* entity -> the columns of its table
    foreignKeys, \* constraints [table, field]
    indexes,     \* [table, field, unique, using]
    comments,    \* constraint -> the name of the derived field
    enumTypes,   \* enum -> its values
    \* the indexer
    step,        \* where it is in its start
    running,     \* the version it read
    todo,        \* what is left of this step
    table,       \* the entity whose table is being synchronised, or Absent
    queryable,   \* modelIndexedFields
    exit,        \* why the last start ended
    \* the generator
    generating,  \* its next step
    models,      \* entity -> the version its class was generated from
    modelsIndex, \* the version models/index.ts lists the classes of, or Absent
    \* bounds, and the versions this schema's tables were made from
    touched, edits, starts

database  == <<tables, foreignKeys, indexes, comments, enumTypes>>
schema    == <<tables, foreignKeys, indexes, comments>>
indexer   == <<step, running, todo, table, queryable, exit>>
generator == <<generating, models, modelsIndex>>
vars      == <<file, database, indexer, generator, touched, edits, starts>>

Versions == DOMAIN Documents
Doc      == Documents[running]

Entity(doc, name) == CHOOSE e \in Range(doc.entities) : e.name = name

TableIndexes(doc, name) ==
    { [ table |-> name, field |-> i.field, unique |-> i.unique, using |-> i.using ] :
        i \in Indexes(doc, Entity(doc, name)) }

(* belongsTo, hasOne and hasMany alike put the constraint on the table with   *)
(* the column.                                                                *)
ForeignKeysOf(doc, name) ==
    { [ table |-> name, field |-> r.foreignKey ] :
        r \in { x \in Range(Relations(doc)) :
                  name = (IF x.kind = "belongsTo" THEN x.from ELSE x.to) } }

ReferredTo(doc, name) ==
    { IF r.kind = "belongsTo" THEN r.to ELSE r.from :
        r \in { x \in Range(Relations(doc)) :
                  name = (IF x.kind = "belongsTo" THEN x.from ELSE x.to) } }

(* The statements after the tables: for a field derived from another entity   *)
(* a comment on the constraint, and for one that holds a single entity a      *)
(* unique index.                                                              *)
CommentOn(r) == [ kind |-> "comment", table |-> r.to, field |-> r.foreignKey,
                  name |-> r.fieldName ]
UniqueOn(r) == [ kind |-> "unique", table |-> r.to, field |-> r.foreignKey,
                 name |-> r.fieldName ]

StatementsOf(r) ==
    CASE r.kind = "belongsTo" -> <<>>
      [] r.kind = "hasOne"    -> <<CommentOn(r), UniqueOn(r)>>
      [] OTHER                -> <<CommentOn(r)>>

(* A statement is told by its place: the relation it belongs to, and which of *)
(* its statements it is.                                                      *)
Statement(doc, place) == StatementsOf(Relations(doc)[place[1]])[place[2]]

BugExtraQueries(doc) ==
    { place \in (DOMAIN Relations(doc)) \X {1, 2} :
        /\ comments = [ e \in {} |-> Absent ]
        /\ place[2] \in DOMAIN StatementsOf(Relations(doc)[place[1]]) }

ExtraQueries(doc) ==
    { place \in (DOMAIN Relations(doc)) \X {1, 2} :
        place[2] \in DOMAIN StatementsOf(Relations(doc)[place[1]]) }

NotAfter(p, q) == p[1] < q[1] \/ (p[1] = q[1] /\ p[2] <= q[2])

(* A statement fails because the server or the connection does (~ok), or     *)
(* because what it asks for is refused.                                       *)
Refusal(ok) == IF ok THEN "refused" ELSE "failed"

(* The start ends with process.exit(1), or with an exception nobody catches.  *)
Exit(why) ==
    /\ step' = "down"
    /\ exit' = why
    /\ running' = running
    /\ todo' = <<>>
    /\ table' = Absent
    /\ queryable' = {}

(* --force-clean drops the schema with all it holds.  The enum types are      *)
(* created without a schema name, beside it, and stay.                        *)
DropSchema ==
    /\ tables' = [ e \in {} |-> {} ]
    /\ foreignKeys' = {}
    /\ indexes' = {}
    /\ comments' = [ e \in {} |-> Absent ]
    /\ touched' = {}

Launch(clean) ==
    /\ step = "down"
    /\ starts < MaxStarts
    /\ starts' = starts + 1
    /\ running' = file
    /\ IF clean THEN DropSchema ELSE UNCHANGED <<schema, touched>>
    /\ IF Accepted(Documents[file])
       THEN /\ step' = "enums"
            /\ todo' = Documents[file].enums
            /\ exit' = "none"
       ELSE /\ step' = "down"
            /\ todo' = <<>>
            /\ exit' = "schema"
    /\ table' = Absent
    /\ queryable' = {}
    /\ UNCHANGED <<file, enumTypes, generator, edits>>

BugSameEnum(enum) == Range(enumTypes[enum.name]) \subseteq Range(enum.values)

SameEnum(enum) == enumTypes[enum.name] = enum.values

(* An enum whose type exists has to have the same values in the same order.   *)
(* The comment that follows changes nothing a later start reads.              *)
SyncEnum(ok) ==
    /\ step = "enums" /\ todo # <<>>
    /\ LET enum == Head(todo)
       IN  IF enum.name \in DOMAIN enumTypes
           THEN /\ UNCHANGED enumTypes
                /\ IF SameEnum(enum) /\ ok
                   THEN /\ todo' = Tail(todo)
                        /\ UNCHANGED <<step, running, table, queryable, exit>>
                   ELSE Exit(IF SameEnum(enum) THEN "failed" ELSE "enum")
           ELSE IF ok
                THEN /\ enumTypes' = [ n \in DOMAIN enumTypes \cup {enum.name} |->
                                         IF n = enum.name THEN enum.values
                                                          ELSE enumTypes[n] ]
                     /\ todo' = Tail(todo)
                     /\ UNCHANGED <<step, running, table, queryable, exit>>
                ELSE /\ UNCHANGED enumTypes
                     /\ Exit("failed")
    /\ UNCHANGED <<file, schema, generator, touched, edits, starts>>

TooManyIndexes(doc) ==
    \E e \in Range(doc.entities) : Cardinality(Indexes(doc, e)) > IndexCountLimit

(* The models and their relations are defined in memory; then sequelize.sync  *)
(* goes through them.                                                         *)
DefineModels ==
    /\ step = "enums" /\ todo = <<>>
    /\ IF TooManyIndexes(Doc)
       THEN Exit("limit")
       ELSE /\ step' = "tables"
            /\ todo' = Doc.entities
            /\ UNCHANGED <<running, table, queryable, exit>>
    /\ UNCHANGED <<file, database, generator, touched, edits, starts>>

(* A reference kept in a list column cannot be a foreign key.                 *)
ColumnsFit(doc, name) ==
    \A k \in ForeignKeysOf(doc, name) :
        \A c \in Columns(doc, Entity(doc, name)) : c.name = k.field => ~c.list

(* One table: created if it is missing, with its columns and foreign keys;    *)
(* one that exists is left as it is.  The tables it refers to come before it. *)
CreateTable(ok) ==
    /\ step = "tables" /\ table = Absent
    /\ \E i \in DOMAIN todo :
          LET name == todo[i].name
          IN  /\ ReferredTo(Doc, name) \cap
                    (NamesOf(todo) \ {name}) = {}
              /\ IF ok /\ (name \in DOMAIN tables \/ ColumnsFit(Doc, name))
                 THEN /\ table' = name
                      /\ todo' = RemoveAt(todo, i)
                      /\ touched' = touched \cup {running}
                      /\ IF name \in DOMAIN tables
                         THEN UNCHANGED <<tables, foreignKeys>>
                         ELSE /\ tables' = [ n \in DOMAIN tables \cup {name} |->
                                               IF n = name
                                               THEN Columns(Doc, Entity(Doc, name))
                                               ELSE tables[n] ]
                              /\ foreignKeys' = foreignKeys \cup ForeignKeysOf(Doc, name)
                      /\ UNCHANGED <<step, running, queryable, exit>>
                 ELSE /\ Exit(Refusal(ok))
                      /\ UNCHANGED <<tables, foreignKeys, touched>>
    /\ UNCHANGED <<file, indexes, comments, enumTypes, generator, edits, starts>>

(* Indexes are told apart by their names, made from the table, the column and *)
(* whether they are unique.                                                   *)
BugNameTaken(index) ==
    \E i \in indexes : i.table = index.table /\ i.field = index.field

NameTaken(index) ==
    \E i \in indexes : i.table = index.table /\ i.field = index.field
                       /\ i.unique = index.unique

MissingIndexes(doc, name) == { i \in TableIndexes(doc, name) : ~NameTaken(i) }

(* The server refuses an index on a column the table does not have, one whose *)
(* name is taken, and a hash index that is unique.                            *)
IndexFits(index) ==
    /\ index.field \in { c.name : c \in tables[index.table] }
    /\ ~ (index.unique /\ index.using = "hash")
    /\ ~ NameTaken(index)

AddIndex(ok) ==
    /\ step = "tables" /\ table # Absent
    /\ \E index \in MissingIndexes(Doc, table) :
          IF ok /\ IndexFits(index)
          THEN /\ indexes' = indexes \cup {index}
               /\ UNCHANGED indexer
          ELSE /\ UNCHANGED indexes
               /\ Exit(Refusal(ok))
    /\ UNCHANGED <<file, tables, foreignKeys, comments, enumTypes, generator,
                   touched, edits, starts>>

TableDone ==
    /\ step = "tables"
    /\ IF table # Absent
       THEN MissingIndexes(Doc, table) = {}
       ELSE todo = <<>>
    /\ table' = Absent
    /\ IF todo = <<>>
       THEN /\ step' = "extra"
            /\ todo' = ExtraQueries(Doc)
       ELSE UNCHANGED <<step, todo>>
    /\ UNCHANGED <<running, queryable, exit>>
    /\ UNCHANGED <<file, database, generator, touched, edits, starts>>

(* A comment needs its constraint; the unique index is created if it does not *)
(* exist.                                                                     *)
QueryKey(query) == [ table |-> query.table, field |-> query.field ]
QueryIndex(query) == [ table |-> query.table, field |-> query.field,
                       unique |-> TRUE, using |-> "btree" ]

BugQueryFits(query) ==
    IF query.kind = "comment" THEN QueryKey(query) \in foreignKeys
                              ELSE ~NameTaken(QueryIndex(query))

QueryFits(query) == query.kind = "comment" => QueryKey(query) \in foreignKeys

ExtraQuery(ok) ==
    /\ step = "extra"
    /\ \E place \in todo :
          LET query == Statement(Doc, place)
          IN  /\ \A other \in todo : NotAfter(place, other)
              /\ IF ok /\ QueryFits(query)
                 THEN /\ todo' = todo \ {place}
                      /\ UNCHANGED <<step, running, table, queryable, exit>>
                      /\ IF query.kind = "comment"
                         THEN /\ comments' =
                                     [ k \in DOMAIN comments \cup {QueryKey(query)} |->
                                         IF k = QueryKey(query) THEN query.name
                                                                ELSE comments[k] ]
                              /\ UNCHANGED indexes
                         ELSE /\ indexes' = indexes \cup {QueryIndex(query)}
                              /\ UNCHANGED comments
                 ELSE /\ Exit(Refusal(ok))
                      /\ UNCHANGED <<indexes, comments>>
    /\ UNCHANGED <<file, tables, foreignKeys, enumTypes, generator, touched, edits, starts>>

(* The store reads the indexes of its tables back from the catalogue.  The    *)
(* query names the table but does not hold it to the project's schema.        *)
ReadIndexFields ==
    /\ step = "extra" /\ todo = {}
    /\ step' = "up"
    /\ queryable' = { [ entity |-> i.table, field |-> i.field, unique |-> i.unique ] :
                        i \in { x \in indexes \cup Neighbours :
                                  x.table \in NamesOf(Doc.entities) } }
    /\ UNCHANGED <<running, todo, table, exit>>
    /\ UNCHANGED <<file, database, generator, touched, edits, starts>>

Crash ==
    /\ step # "down"
    /\ Exit("failed")
    /\ UNCHANGED <<file, database, generator, touched, edits, starts>>

(* What getByField and getOneByField ask of the indexes before they query.    *)
BugCanGetByField(entity, field) == \E i \in queryable : FieldForm(i.field) = field

CanGetByField(entity, field) ==
    \E i \in queryable : EntityForm(i.entity) = entity /\ FieldForm(i.field) = field

CanGetOneByField(entity, field) ==
    \E i \in queryable :
        EntityForm(i.entity) = entity /\ FieldForm(i.field) = field /\ i.unique

(* The user writes another schema.graphql, at any time.                       *)
Edit(version) ==
    /\ edits < MaxEdits
    /\ version # file
    /\ file' = version
    /\ edits' = edits + 1
    /\ UNCHANGED <<database, indexer, generator, touched, starts>>

-----------------------------------------------------------------------------
(* The generator: the folder of the models and the interfaces are removed,    *)
(* then written anew, and each part reads schema.graphql again.  The files    *)
(* for interfaces, enums and the index of the types say no more than the      *)
(* document and are left out; that the interfaces can stop the run is not.    *)
NoModels == [ e \in {} |-> Absent ]

GenerateBegin ==
    /\ generating = "idle"
    /\ generating' = "interfaces"
    /\ models' = NoModels
    /\ modelsIndex' = Absent
    /\ UNCHANGED <<file, database, indexer, touched, edits, starts>>

GenerateInterfaces ==
    /\ generating = "interfaces"
    /\ generating' = IF InterfacesWritable(Documents[file]) THEN "models" ELSE "idle"
    /\ UNCHANGED <<models, modelsIndex>>
    /\ UNCHANGED <<file, database, indexer, touched, edits, starts>>

(* The classes one by one, in the order of the document that was read when    *)
(* the loop began.                                                            *)
LoopVersion == IF models = NoModels THEN file ELSE CHOOSE v \in Range(models) : TRUE

(* The places in the document of the entities without a class.                *)
ClassesLeft ==
    LET entities == Documents[LoopVersion].entities
    IN  { i \in DOMAIN entities : entities[i].name \notin DOMAIN models }

GenerateModel ==
    /\ generating = "models"
    /\ IF Accepted(Documents[LoopVersion])
       THEN \E i \in ClassesLeft :
               /\ \A j \in ClassesLeft : i <= j
               /\ models' = [ n \in DOMAIN models \cup
                                        {Documents[LoopVersion].entities[i].name} |->
                                IF n \in DOMAIN models THEN models[n] ELSE LoopVersion ]
               /\ UNCHANGED generating
       ELSE /\ generating' = "idle"
            /\ UNCHANGED models
    /\ UNCHANGED modelsIndex
    /\ UNCHANGED <<file, database, indexer, touched, edits, starts>>

(* Their index comes last, when there is any class.                           *)
BugGenerateIndex ==
    /\ generating = "models"
    /\ models # NoModels /\ ClassesLeft = {}
    /\ generating' = "idle"
    /\ modelsIndex' = file
    /\ UNCHANGED models
    /\ UNCHANGED <<file, database, indexer, touched, edits, starts>>

GenerateIndex ==
    /\ generating = "models"
    /\ models # NoModels /\ ClassesLeft = {}
    /\ generating' = "idle"
    /\ modelsIndex' = LoopVersion
    /\ UNCHANGED models
    /\ UNCHANGED <<file, database, indexer, touched, edits, starts>>

(* The generator is stopped, or a file cannot be written.                     *)
GenerateStops ==
    /\ generating # "idle"
    /\ generating' = "idle"
    /\ UNCHANGED <<models, modelsIndex>>
    /\ UNCHANGED <<file, database, indexer, touched, edits, starts>>

-----------------------------------------------------------------------------
Init ==
    /\ file \in Versions
    /\ tables = [ e \in {} |-> {} ]
    /\ foreignKeys = {} /\ indexes = {}
    /\ comments = [ e \in {} |-> Absent ]
    /\ enumTypes \in EarlierEnums
    /\ step = "down" /\ running = file /\ todo = <<>> /\ table = Absent
    /\ queryable = {} /\ exit = "none"
    /\ generating = "idle" /\ models = NoModels /\ modelsIndex = Absent
    /\ touched = {} /\ edits = 0 /\ starts = 0

Indexer ==
    \/ \E clean \in BOOLEAN : Launch(clean)
    \/ \E ok \in BOOLEAN :
          \/ SyncEnum(ok)
          \/ CreateTable(ok)
          \/ AddIndex(ok)
          \/ ExtraQuery(ok)
    \/ DefineModels \/ TableDone \/ ReadIndexFields \/ Crash

Generator ==
    \/ GenerateBegin \/ GenerateInterfaces
    \/ GenerateModel \/ GenerateIndex \/ GenerateStops

Next ==
    \/ Indexer
    \/ Generator
    \/ \E version \in Versions : Edit(version)

Spec == Init /\ [][Next]_vars

-----------------------------------------------------------------------------
Names == UNION { NamesOf(Documents[v].entities) : v \in Versions }

TypeOK ==
    /\ file \in Versions /\ running \in Versions
    /\ DOMAIN tables \subseteq Names
    /\ \A k \in foreignKeys : k.table \in DOMAIN tables
    /\ \A i \in indexes : i.table \in DOMAIN tables
    /\ DOMAIN comments \subseteq foreignKeys
    /\ step \in {"down", "enums", "tables", "extra", "up"}
    /\ table \in Names \cup {Absent}
    /\ exit \in {"none", "schema", "enum", "limit", "refused", "failed"}
    /\ generating \in {"idle", "interfaces", "models"}
    /\ \A n \in DOMAIN models : models[n] \in Versions
    /\ modelsIndex \in Versions \cup {Absent}
    /\ touched \subseteq Versions
    /\ edits \in 0..MaxEdits /\ starts \in 0..MaxStarts

(* A node that has started works with the enums of its schema: whatever was   *)
(* left by other releases, by other versions of the schema, by a start that   *)
(* died half way or by a forced clean, each type has exactly these values, in *)
(* this order (the comparison and the error of syncSchema, lines 95 to 112).  *)
EnumsAsInSchema ==
    step = "up" =>
        \A e \in Range(Doc.enums) :
            e.name \in DOMAIN enumTypes /\ enumTypes[e.name] = e.values

(* When the tables of a schema were never made from another document, a node  *)
(* that has started has all of it, however many starts died at whichever      *)
(* statement: every table with its columns, foreign keys and indexes, and the *)
(* name under which the query service offers every derived field.             *)
StartCompletesSchema ==
    (step = "up" /\ touched \subseteq {running}) =>
        /\ DOMAIN tables = NamesOf(Doc.entities)
        /\ \A e \in Range(Doc.entities) :
              /\ tables[e.name] = Columns(Doc, e)
              /\ ForeignKeysOf(Doc, e.name) \subseteq foreignKeys
              /\ \A i \in TableIndexes(Doc, e.name) : NameTaken(i)
        /\ \A r \in Range(Relations(Doc)) :
              /\ r.kind # "belongsTo" =>
                    [ table |-> r.to, field |-> r.foreignKey ] \in DOMAIN comments
              /\ r.kind = "hasOne" =>
                    \E i \in indexes : i.table = r.to /\ i.field = r.foreignKey /\ i.unique

(* A document some statement of which the server refuses in any database: a   *)
(* unique index on a reference is a unique hash index, and references in a    *)
(* list are no foreign keys.                                                  *)
Holdable(doc) ==
    \A e \in Range(doc.entities) :
        /\ ColumnsFit(doc, e.name)
        /\ \A i \in Indexes(doc, e) : ~ (i.unique /\ i.using = "hash")

(* What a start leaves behind when it dies never gets in the way of the next: *)
(* where no other version made tables, no statement is refused because part   *)
(* of the work has been done before.                                          *)
HalfStartsDoNotBlock ==
    (exit = "refused" /\ touched \subseteq {running}) => ~Holdable(Doc)

(* The names of the columns any version of the schema can give a table.       *)
ColumnsOf(doc) == UNION { Columns(doc, e) : e \in Range(doc.entities) }

ColumnNames == { c.name : c \in UNION { ColumnsOf(Documents[v]) : v \in Versions } }

PlainName(finder) ==
    /\ EntityForm(finder.entity) = finder.entity
    /\ FieldForm(finder.field) = finder.field

(* The finders of the generated classes can be used: when the classes are     *)
(* those of the document the node started with, also over tables that other   *)
(* versions of it left behind, the store finds the index it asks for, for     *)
(* every name that survives the way to a column and back (docs/create/        *)
(* graphql.md:61 promises the finders).                                       *)
FindersUsable ==
    (step = "up" /\ modelsIndex = running) =>
        \A e \in Range(Doc.entities) :
            \A f \in Finders(Documents[models[e.name]], e) :
                PlainName(f) =>
                    IF f.one THEN CanGetOneByField(f.entity, f.field)
                             ELSE CanGetByField(f.entity, f.field)

(* What the store lets a handler query by is indexed in the project's own     *)
(* table, and unique there when a single entity is asked for, unless a table  *)
(* of the same name in another schema of the database lends its index.        *)
QueriesAreIndexed ==
    \A e \in DOMAIN tables : \A c \in tables[e] :
        (\A i \in Neighbours : i.table # e) =>
            /\ CanGetByField(e, c.name) =>
                  \E i \in indexes : EntityForm(i.table) = e /\ i.field = c.name
            /\ CanGetOneByField(e, c.name) =>
                  \E i \in indexes : EntityForm(i.table) = e /\ i.field = c.name /\ i.unique

(* The names are told apart in the form a handler uses: what is a column by   *)
(* its name is no other column by its form, and likewise for a table of       *)
(* another schema.                                                            *)
FormsDistinct ==
    /\ \A form, name \in ColumnNames : FieldForm(form) = name => form = name
    /\ \A i \in Neighbours : \A name \in Names : EntityForm(i.table) = name => i.table = name

(* The index of the generated models never lists a class that is missing or   *)
(* comes from another version of the schema than the rest, wherever a run of  *)
(* the generator stopped and whatever was edited meanwhile.                   *)
ModelsBelongTogether ==
    modelsIndex # Absent =>
        /\ DOMAIN models = NamesOf(Documents[modelsIndex].entities)
        /\ \A n \in DOMAIN models : models[n] = modelsIndex
=============================================================================
