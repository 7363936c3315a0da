---------------------------- MODULE SchemaSyncProofs ----------------------------
(* What holds of the database, of the store and of the generated models after any *)
(* number of starts that die anywhere, for every sequence of versions of          *)
(* schema.graphql.  Each step of a start is followed by what it has behind: what  *)
(* is not left to do is in the database, whoever put it there.                    *)
EXTENDS SchemaSync, SequenceTheorems, TLAPS

-----------------------------------------------------------------------------
(* What is behind, for a set of things left to do                           *)

EnumThere(enum, types) == enum.name \in DOMAIN types /\ types[enum.name] = enum.values

EnumsDone(doc, left, types) ==
    \A e \in Range(doc.enums) : e \in left \/ EnumThere(e, types)

HasIndex(all, index) ==
    \E i \in all : i.table = index.table /\ i.field = index.field /\ i.unique = index.unique

IndexesThere(doc, name, all) == \A i \in TableIndexes(doc, name) : HasIndex(all, i)

\* current is the table whose indexes are being added.
TableThere(doc, name, current, tabs, all) ==
    name \in DOMAIN tabs /\ (name = current \/ IndexesThere(doc, name, all))

TablesDone(doc, left, current, tabs, all) ==
    \A e \in Range(doc.entities) : e \in left \/ TableThere(doc, e.name, current, tabs, all)

Executed(query, texts, all) ==
    IF query.kind = "comment" THEN QueryKey(query) \in DOMAIN texts
                              ELSE QueryIndex(query) \in all

ExtrasDone(doc, left, texts, all) ==
    \A place \in ExtraQueries(doc) : place \in left \/ Executed(Statement(doc, place), texts, all)

-----------------------------------------------------------------------------
(* The inductive invariant                                                  *)

StartInv ==
    /\ file \in Versions /\ running \in Versions
    /\ step \in {"down", "enums", "tables", "extra", "up"}
    /\ step # "down" => exit = "none" /\ Accepted(Doc)
    /\ step = "enums" =>
          /\ table = Absent
          /\ todo \in Seq(Range(Doc.enums))
          /\ EnumsDone(Doc, Range(todo), enumTypes)
    /\ step \in {"tables", "extra", "up"} => EnumsDone(Doc, {}, enumTypes)
    /\ step = "tables" =>
          /\ todo \in Seq(Range(Doc.entities))
          /\ table # Absent => table \in NamesOf(Doc.entities) /\ table \in DOMAIN tables
          /\ TablesDone(Doc, Range(todo), table, tables, indexes)
    /\ step \in {"extra", "up"} => TablesDone(Doc, {}, Absent, tables, indexes)
    /\ step = "extra" => todo \subseteq ExtraQueries(Doc) /\ ExtrasDone(Doc, todo, comments, indexes)
    /\ step = "up" => ExtrasDone(Doc, {}, comments, indexes)

\* Every table was made from a version that left its trace, with its foreign keys.
MadeFrom(version, name, columns, keys) ==
    /\ version \in Versions
    /\ name \in NamesOf(Documents[version].entities)
    /\ columns = Columns(Documents[version], Entity(Documents[version], name))
    /\ ForeignKeysOf(Documents[version], name) \subseteq keys

TablesInv ==
    \A name \in DOMAIN tables :
        \E version \in touched : MadeFrom(version, name, tables[name], foreignKeys)

\* An index is on a column of some version.
IndexesInv == \A i \in indexes : i.field \in ColumnNames

\* What the store may be asked was read from the catalogue.
AsField(index) == [ entity |-> index.table, field |-> index.field, unique |-> index.unique ]

QueryableInv ==
    /\ \A q \in queryable : \E i \in indexes \cup Neighbours : q = AsField(i)
    /\ step = "up" =>
          \A i \in indexes : i.table \in NamesOf(Doc.entities) => AsField(i) \in queryable

\* The classes are of one version until the next run of the generator.
ModelsInv ==
    /\ models = [ n \in DOMAIN models |-> models[n] ]
    /\ \A n \in DOMAIN models :
          /\ models[n] \in Versions
          /\ \A m \in DOMAIN models : models[m] = models[n]
          /\ n \in NamesOf(Documents[models[n]].entities)
    /\ generating = "interfaces" => models = NoModels
    /\ generating # "idle" => modelsIndex = Absent
    /\ ModelsBelongTogether

SyncInv ==
    StartInv /\ TablesInv /\ IndexesInv /\ HalfStartsDoNotBlock /\ QueryableInv /\ ModelsInv

-----------------------------------------------------------------------------
(* Sequences of things to do                                                *)

LEMMA HeadOrTail ==
    ASSUME NEW S, NEW s \in Seq(S), s # <<>>
    PROVE  /\ Head(s) \in Range(s)
           /\ Range(s) \subseteq {Head(s)} \cup Range(Tail(s))
           /\ Tail(s) \in Seq(S)
<1>1. Len(s) \in Nat \ {0} /\ DOMAIN s = 1 .. Len(s)
  BY EmptySeq, LenProperties
<1>2. Tail(s) \in Seq(S) /\ DOMAIN Tail(s) = 1 .. Len(s) - 1
  BY HeadTailProperties, LenProperties
<1>3. ASSUME NEW i \in 1 .. Len(s)
      PROVE  s[i] \in {Head(s)} \cup Range(Tail(s))
  <2>1. CASE i = 1
    BY <2>1
  <2>2. CASE i # 1
    <3>1. i - 1 \in 1 .. Len(s) - 1
      BY <1>1, <2>2
    <3>2. Tail(s)[i - 1] = s[i]
      BY <1>2, <3>1, HeadTailProperties, LenProperties
    <3>3. QED
      BY <1>2, <3>1, <3>2 DEF Range
  <2>3. QED
    BY <2>1, <2>2
<1>4. Head(s) = s[1]
  OBVIOUS
<1>5. QED
  BY <1>1, <1>2, <1>3, <1>4 DEF Range

LEMMA OneRemoved ==
    ASSUME NEW S, NEW s \in Seq(S), NEW i \in DOMAIN s
    PROVE  /\ RemoveAt(s, i) \in Seq(S)
           /\ Range(s) \subseteq {s[i]} \cup Range(RemoveAt(s, i))
<1> DEFINE before == SubSeq(s, 1, i - 1)
           after == SubSeq(s, i + 1, Len(s))
<1>1. /\ Len(s) \in Nat
      /\ DOMAIN s = 1 .. Len(s)
      /\ i \in 1 .. Len(s)
      /\ \A j \in 1 .. Len(s) : s[j] \in S
  BY LenProperties, ElementOfSeq
<1>2. /\ before \in Seq(S)
      /\ Len(before) = i - 1
      /\ \A j \in 1 .. i - 1 : before[j] = s[j]
  <2>1. \A j \in 1 .. i - 1 : s[j] \in S
    BY <1>1
  <2>2. i - 1 \in Int /\ 1 \in Int
    BY <1>1
  <2>3. /\ SubSeq(s, 1, i - 1) \in Seq(S)
        /\ Len(SubSeq(s, 1, i - 1)) = IF 1 <= i - 1 THEN i - 1 - 1 + 1 ELSE 0
        /\ \A j \in 1 .. i - 1 - 1 + 1 : SubSeq(s, 1, i - 1)[j] = s[1 + j - 1]
    BY <2>1, <2>2, SubSeqProperties
  <2>4. QED
    BY <1>1, <2>3
<1>3. /\ after \in Seq(S)
      /\ Len(after) = Len(s) - i
      /\ \A j \in 1 .. Len(s) - i : after[j] = s[i + j]
  <2>1. \A j \in i + 1 .. Len(s) : s[j] \in S
    BY <1>1
  <2>2. i + 1 \in Int /\ Len(s) \in Int
    BY <1>1
  <2>3. /\ SubSeq(s, i + 1, Len(s)) \in Seq(S)
        /\ Len(SubSeq(s, i + 1, Len(s))) =
              IF i + 1 <= Len(s) THEN Len(s) - (i + 1) + 1 ELSE 0
        /\ \A j \in 1 .. Len(s) - (i + 1) + 1 : SubSeq(s, i + 1, Len(s))[j] = s[i + 1 + j - 1]
    BY <2>1, <2>2, SubSeqProperties
  <2>4. after \in Seq(S) /\ Len(after) = Len(s) - i
    BY <1>1, <2>3
  <2>5. ASSUME NEW j \in 1 .. Len(s) - i
        PROVE  after[j] = s[i + j]
    <3>1. j \in 1 .. Len(s) - (i + 1) + 1 /\ i + 1 + j - 1 = i + j
      BY <1>1
    <3>2. after[j] = s[i + 1 + j - 1]
      BY <2>3, <3>1
    <3>3. QED
      BY <3>1, <3>2
  <2>6. QED
    BY <2>4, <2>5
<1> HIDE DEF before, after
<1>4. /\ before \o after \in Seq(S)
      /\ DOMAIN (before \o after) = 1 .. Len(s) - 1
      /\ \A j \in 1 .. Len(s) - 1 :
            (before \o after)[j] = IF j <= i - 1 THEN before[j] ELSE after[j - (i - 1)]
  <2>1. /\ before \o after \in Seq(S)
        /\ Len(before \o after) = Len(before) + Len(after)
        /\ \A j \in 1 .. Len(before) + Len(after) :
              (before \o after)[j] =
                  IF j <= Len(before) THEN before[j] ELSE after[j - Len(before)]
    BY <1>2, <1>3, ConcatProperties
  <2>2. Len(before) + Len(after) = Len(s) - 1
    BY <1>1, <1>2, <1>3
  <2>3. DOMAIN (before \o after) = 1 .. Len(before \o after)
    BY <2>1, LenProperties
  <2>4. Len(before) = i - 1
    BY <1>2
  <2>5. QED
    BY <2>1, <2>2, <2>3, <2>4
<1>5. RemoveAt(s, i) = before \o after
  BY DEF RemoveAt, before, after
<1>6. ASSUME NEW j \in 1 .. Len(s), j # i
      PROVE  s[j] \in Range(before \o after)
  <2>1. CASE j < i
    <3>1. j \in 1 .. Len(s) - 1 /\ j <= i - 1 /\ j \in 1 .. i - 1
      BY <1>1, <2>1
    <3>2. (before \o after)[j] = s[j]
      BY <1>2, <1>4, <3>1
    <3>3. QED
      BY <1>4, <3>1, <3>2 DEF Range
  <2>2. CASE i < j
    <3>1. j - 1 \in 1 .. Len(s) - 1 /\ ~ (j - 1 <= i - 1) /\ j - i \in 1 .. Len(s) - i
      BY <1>1, <2>2
    <3>2. (before \o after)[j - 1] = after[j - 1 - (i - 1)]
      BY <1>4, <3>1
    <3>3. j - 1 - (i - 1) = j - i /\ i + (j - i) = j
      BY <1>1
    <3>4. (before \o after)[j - 1] = s[j]
      BY <1>3, <3>1, <3>2, <3>3
    <3>5. QED
      BY <1>4, <3>1, <3>4 DEF Range
  <2>3. QED
    BY <1>1, <1>6, <2>1, <2>2
<1>7. Range(s) = { s[j] : j \in 1 .. Len(s) }
  BY <1>1 DEF Range
<1>8. QED
  BY <1>4, <1>5, <1>6, <1>7

-----------------------------------------------------------------------------
(* Documents                                                                *)

\* What is known of each version.
LEMMA OfVersion ==
    ASSUME NEW v \in Versions
    PROVE  /\ Documents[v].enums \in Seq(Range(Documents[v].enums))
           /\ Documents[v].entities \in Seq(Range(Documents[v].entities))
           /\ \A e \in Range(Documents[v].entities) : e.name # Absent
           /\ \A d, e \in Range(Documents[v].entities) : d.name = e.name => d = e
           /\ v # Absent
<1>1. Documents[v] \in Range(Documents)
  BY DEF Versions, Range
<1>2. v # Absent
  BY SchemaAssumption DEF Versions
<1>3. QED
  BY <1>1, <1>2, SchemaAssumption

LEMMA EntityIs ==
    ASSUME NEW v \in Versions, NEW e \in Range(Documents[v].entities)
    PROVE  Entity(Documents[v], e.name) = e
<1>1. \A d \in Range(Documents[v].entities) : d.name = e.name => d = e
  BY OfVersion
<1>2. QED
  BY <1>1 DEF Entity

LEMMA NamesAre ==
    ASSUME NEW definitions
    PROVE  NamesOf(definitions) = { e.name : e \in Range(definitions) }
  BY DEF NamesOf, Range

LEMMA EntityOfName ==
    ASSUME NEW v \in Versions, NEW name \in NamesOf(Documents[v].entities)
    PROVE  /\ Entity(Documents[v], name) \in Range(Documents[v].entities)
           /\ Entity(Documents[v], name).name = name
<1>1. PICK e \in Range(Documents[v].entities) : e.name = name
  BY NamesAre
<1>2. QED
  BY <1>1, EntityIs

\* An index is on a column.
LEMMA IndexOnColumn ==
    ASSUME NEW doc, NEW entity, NEW index \in Indexes(doc, entity)
    PROVE  index.field \in { c.name : c \in Columns(doc, entity) }
<1>1. PICK f \in FieldsOf(entity) :
          /\ FieldKind(doc, f) # "derived"
          /\ index = FieldIndex(doc, f)
  BY DEF Indexes
<1>2. Column(doc, f) \in Columns(doc, entity)
  BY <1>1 DEF Columns
<1>3. index.field = Column(doc, f).name
  BY <1>1 DEF FieldIndex
<1>4. QED
  BY <1>2, <1>3

LEMMA ColumnIsNamed ==
    ASSUME NEW v \in Versions, NEW e \in Range(Documents[v].entities),
           NEW c \in Columns(Documents[v], e)
    PROVE  c.name \in ColumnNames
<1>1. c \in ColumnsOf(Documents[v])
  BY DEF ColumnsOf
<1>2. QED
  BY <1>1 DEF ColumnNames

LEMMA TableIndexOnColumn ==
    ASSUME NEW v \in Versions, NEW name \in NamesOf(Documents[v].entities),
           NEW index \in TableIndexes(Documents[v], name)
    PROVE  /\ index.table = name
           /\ index.field \in { c.name : c \in Columns(Documents[v], Entity(Documents[v], name)) }
           /\ \E i \in Indexes(Documents[v], Entity(Documents[v], name)) :
                 i.field = index.field /\ i.unique = index.unique /\ i.using = index.using
  BY IndexOnColumn DEF TableIndexes

\* The relation a statement belongs to.
LEMMA StatementOf ==
    ASSUME NEW doc, NEW place \in ExtraQueries(doc)
    PROVE  \E r \in Range(Relations(doc)) :
               /\ r.kind # "belongsTo"
               /\ QueryKey(Statement(doc, place)) = [ table |-> r.to, field |-> r.foreignKey ]
<1> DEFINE r == Relations(doc)[place[1]]
<1>1. /\ place[1] \in DOMAIN Relations(doc)
      /\ place[2] \in {1, 2}
      /\ place[2] \in DOMAIN StatementsOf(r)
  BY DEF ExtraQueries
<1>2. r \in Range(Relations(doc))
  BY <1>1 DEF Range
<1>3. Statement(doc, place) = StatementsOf(r)[place[2]]
  BY DEF Statement
<1> HIDE DEF r
<1>4. r.kind # "belongsTo"
  BY <1>1 DEF StatementsOf
<1>5. Statement(doc, place) \in {CommentOn(r), UniqueOn(r)}
  BY <1>1, <1>3, <1>4 DEF StatementsOf
<1>6. QED
  BY <1>2, <1>4, <1>5 DEF QueryKey, CommentOn, UniqueOn

\* What a derived field refers to is a column of an entity of the document.
LEMMA DerivedOnColumn ==
    ASSUME NEW doc, Accepted(doc), NEW r \in Range(Relations(doc)), r.kind # "belongsTo"
    PROVE  \E e \in Range(doc.entities) :
               e.name = r.to /\ r.foreignKey \in { c.name : c \in Columns(doc, e) }
  BY DEF Accepted, RelationsValid

LEMMA DerivedKey ==
    ASSUME NEW doc, NEW r \in Range(Relations(doc)), r.kind # "belongsTo"
    PROVE  [ table |-> r.to, field |-> r.foreignKey ] \in ForeignKeysOf(doc, r.to)
  BY DEF ForeignKeysOf

-----------------------------------------------------------------------------
(* What is done stays done                                                  *)

LEMMA MoreEnums ==
    ASSUME NEW doc, NEW left, NEW enum, NEW types, NEW more,
           EnumsDone(doc, left, types),
           enum.name \notin DOMAIN types,
           more = [ n \in DOMAIN types \cup {enum.name} |->
                      IF n = enum.name THEN enum.values ELSE types[n] ]
    PROVE  EnumsDone(doc, left, more) /\ EnumThere(enum, more)
  BY DEF EnumsDone, EnumThere

LEMMA FewerEnums ==
    ASSUME NEW doc, NEW left, NEW enum, NEW types, NEW rest,
           EnumsDone(doc, left, types), EnumThere(enum, types),
           left \subseteq {enum} \cup rest
    PROVE  EnumsDone(doc, rest, types)
  BY DEF EnumsDone

LEMMA MoreTables ==
    ASSUME NEW doc, NEW left, NEW current, NEW tabs, NEW more, NEW all, NEW allMore,
           TablesDone(doc, left, current, tabs, all),
           DOMAIN tabs \subseteq DOMAIN more, all \subseteq allMore
    PROVE  TablesDone(doc, left, current, more, allMore)
  BY DEF TablesDone, TableThere, IndexesThere, HasIndex

LEMMA MoreExtras ==
    ASSUME NEW doc, NEW left, NEW texts, NEW more, NEW all, NEW allMore,
           ExtrasDone(doc, left, texts, all),
           DOMAIN texts \subseteq DOMAIN more, all \subseteq allMore
    PROVE  ExtrasDone(doc, left, more, allMore)
  BY DEF ExtrasDone, Executed

-----------------------------------------------------------------------------
(* A start follows what it has behind                                       *)

LEMMA StartDown ==
    ASSUME file' \in Versions, running' \in Versions, step' = "down"
    PROVE  StartInv'
  BY DEF StartInv

LEMMA StartLaunch ==
    ASSUME StartInv, NEW clean, Launch(clean)
    PROVE  StartInv'
<1>1. file \in Versions /\ file' = file /\ running' = file
  BY DEF Launch, StartInv
<1>2. CASE Accepted(Documents[file])
  <2>1. /\ step' = "enums"
        /\ exit' = "none"
        /\ todo' = Documents[file].enums
        /\ table' = Absent
    BY <1>2 DEF Launch
  <2>2. Documents[file].enums \in Seq(Range(Documents[file].enums))
    BY <1>1, OfVersion
  <2>3. Doc' = Documents[file]
    BY <1>1 DEF Doc
  <2>4. EnumsDone(Doc, Range(todo), enumTypes)'
    BY <2>1, <2>3 DEF EnumsDone
  <2>5. QED
    BY <1>1, <1>2, <2>1, <2>2, <2>3, <2>4 DEF StartInv
<1>3. CASE ~ Accepted(Documents[file])
  BY <1>1, <1>3, StartDown DEF Launch
<1>4. QED
  BY <1>2, <1>3

LEMMA StartSyncEnum ==
    ASSUME StartInv, NEW ok, SyncEnum(ok)
    PROVE  StartInv'
<1> DEFINE enum == Head(todo)
<1>1. /\ file \in Versions /\ file' = file
      /\ running \in Versions /\ running' = running
      /\ Doc' = Doc
  BY DEF SyncEnum, StartInv, Exit, Doc
<1>2. /\ step = "enums"
      /\ todo # <<>>
      /\ todo \in Seq(Range(Doc.enums))
      /\ EnumsDone(Doc, Range(todo), enumTypes)
      /\ exit = "none" /\ Accepted(Doc) /\ table = Absent
  BY DEF SyncEnum, StartInv
<1>3. CASE step' = "down"
  BY <1>1, <1>3, StartDown
<1>4. CASE step' # "down"
  <2>1. /\ todo' = Tail(todo)
        /\ UNCHANGED <<step, table, exit>>
        /\ \/ enumTypes' = enumTypes /\ EnumThere(enum, enumTypes)
           \/ /\ enum.name \notin DOMAIN enumTypes
              /\ enumTypes' = [ n \in DOMAIN enumTypes \cup {enum.name} |->
                                  IF n = enum.name THEN enum.values ELSE enumTypes[n] ]
    BY <1>4 DEF SyncEnum, Exit, SameEnum, EnumThere
  <2> HIDE DEF enum
  <2>2. EnumsDone(Doc, Range(todo), enumTypes') /\ EnumThere(enum, enumTypes')
    BY <1>2, <2>1, MoreEnums
  <2>3. Range(todo) \subseteq {enum} \cup Range(Tail(todo)) /\ Tail(todo) \in Seq(Range(Doc.enums))
    BY <1>2, HeadOrTail DEF enum
  <2>4. EnumsDone(Doc, Range(Tail(todo)), enumTypes')
    BY <2>2, <2>3, FewerEnums
  <2>5. QED
    BY <1>1, <1>2, <2>1, <2>3, <2>4 DEF StartInv
<1>5. QED
  BY <1>3, <1>4

LEMMA StartDefineModels ==
    ASSUME StartInv, DefineModels
    PROVE  StartInv'
<1>1. /\ file \in Versions /\ file' = file
      /\ running \in Versions /\ running' = running
      /\ Doc' = Doc /\ enumTypes' = enumTypes
  BY DEF DefineModels, StartInv, Exit, Doc, database
<1>2. /\ todo = <<>>
      /\ EnumsDone(Doc, Range(todo), enumTypes)
      /\ exit = "none" /\ Accepted(Doc) /\ table = Absent
  BY DEF DefineModels, StartInv
<1>3. CASE TooManyIndexes(Doc)
  BY <1>1, <1>3, StartDown DEF DefineModels, Exit
<1>4. CASE ~ TooManyIndexes(Doc)
  <2>1. step' = "tables" /\ todo' = Doc.entities /\ UNCHANGED <<table, exit>>
    BY <1>4 DEF DefineModels
  <2>2. Range(<<>>) = {}
    BY DEF Range
  <2>3. EnumsDone(Doc, {}, enumTypes)
    BY <1>2, <2>2
  <2>4. Doc.entities \in Seq(Range(Doc.entities))
    BY <1>1, OfVersion DEF Doc
  <2>5. TablesDone(Doc, Range(Doc.entities), Absent, tables', indexes')
    BY DEF TablesDone
  <2>6. TablesDone(Doc, Range(todo), table, tables, indexes)'
    BY <1>1, <1>2, <2>1, <2>5
  <2>7. /\ running' \in Versions /\ file' \in Versions
        /\ Accepted(Doc') /\ exit' = "none"
        /\ EnumsDone(Doc', {}, enumTypes')
        /\ todo' \in Seq(Range(Doc'.entities))
        /\ table' = Absent
    BY <1>1, <1>2, <2>1, <2>3, <2>4
  <2>8. QED
    BY <2>1, <2>6, <2>7 DEF StartInv
<1>5. QED
  BY <1>3, <1>4

LEMMA StartCreateTable ==
    ASSUME StartInv, NEW ok, CreateTable(ok)
    PROVE  StartInv'
<1>1. /\ file \in Versions /\ file' = file
      /\ running \in Versions /\ running' = running
      /\ Doc' = Doc /\ UNCHANGED <<enumTypes, indexes>>
  BY DEF CreateTable, StartInv, Exit, Doc
<1>2. /\ step = "tables" /\ table = Absent
      /\ EnumsDone(Doc, {}, enumTypes)
      /\ todo \in Seq(Range(Doc.entities))
      /\ TablesDone(Doc, Range(todo), Absent, tables, indexes)
      /\ exit = "none" /\ Accepted(Doc)
  BY DEF CreateTable, StartInv
<1>3. CASE step' = "down"
  BY <1>1, <1>3, StartDown
<1>4. CASE step' # "down"
  <2>1. PICK i \in DOMAIN todo :
            /\ table' = todo[i].name
            /\ todo' = RemoveAt(todo, i)
            /\ UNCHANGED <<step, exit>>
            /\ todo[i].name \in DOMAIN tables'
            /\ DOMAIN tables \subseteq DOMAIN tables'
    BY <1>4 DEF CreateTable, Exit
  <2> DEFINE e == todo[i]
  <2>2. /\ RemoveAt(todo, i) \in Seq(Range(Doc.entities))
        /\ Range(todo) \subseteq {e} \cup Range(RemoveAt(todo, i))
    BY <1>2, OneRemoved
  <2>3. e \in Range(Doc.entities)
    BY <1>2, LenProperties, ElementOfSeq
  <2> HIDE DEF e
  <2>4. \A d \in Range(Doc.entities) : d.name # Absent
    BY <1>1, OfVersion DEF Doc
  <2>5. TablesDone(Doc, Range(RemoveAt(todo, i)), e.name, tables', indexes)
    <3> SUFFICES ASSUME NEW d \in Range(Doc.entities), d \notin Range(RemoveAt(todo, i))
                 PROVE  TableThere(Doc, d.name, e.name, tables', indexes)
      BY DEF TablesDone
    <3>1. CASE d = e
      BY <2>1, <3>1 DEF TableThere, e
    <3>2. CASE d # e
      <4>1. TableThere(Doc, d.name, Absent, tables, indexes)
        BY <1>2, <2>2, <3>2 DEF TablesDone
      <4>2. QED
        BY <2>1, <2>4, <4>1 DEF TableThere
    <3>3. QED
      BY <3>1, <3>2
  <2>6. table' \in NamesOf(Doc.entities) /\ table' \in DOMAIN tables'
    BY <2>1, <2>3, NamesAre DEF e
  <2>7. table' = e.name
    BY <2>1 DEF e
  <2>8. QED
    BY <1>1, <1>2, <2>1, <2>2, <2>5, <2>6, <2>7 DEF StartInv
<1>5. QED
  BY <1>3, <1>4

LEMMA StartAddIndex ==
    ASSUME StartInv, NEW ok, AddIndex(ok)
    PROVE  StartInv'
<1>1. /\ file \in Versions /\ file' = file
      /\ running \in Versions /\ running' = running
      /\ Doc' = Doc /\ UNCHANGED <<enumTypes, tables>>
  BY DEF AddIndex, StartInv, Exit, Doc, indexer
<1>2. CASE step' = "down"
  BY <1>1, <1>2, StartDown
<1>3. CASE step' # "down"
  <2>1. UNCHANGED <<step, exit, todo, table>> /\ indexes \subseteq indexes' /\ step = "tables"
    BY <1>3 DEF AddIndex, Exit, indexer
  <2>2. TablesDone(Doc, Range(todo), table, tables, indexes)
    BY <2>1 DEF StartInv
  <2>3. TablesDone(Doc, Range(todo), table, tables', indexes')
    BY <1>1, <2>1, <2>2, MoreTables
  <2>4. QED
    BY <1>1, <2>1, <2>3 DEF StartInv
<1>4. QED
  BY <1>2, <1>3

LEMMA StartTableDone ==
    ASSUME StartInv, TableDone
    PROVE  StartInv'
<1>1. /\ file \in Versions /\ UNCHANGED <<file, running, exit, enumTypes, tables, indexes, comments>>
      /\ running \in Versions
      /\ Doc' = Doc
      /\ step = "tables" /\ table' = Absent
      /\ EnumsDone(Doc, {}, enumTypes)
      /\ todo \in Seq(Range(Doc.entities))
      /\ TablesDone(Doc, Range(todo), table, tables, indexes)
      /\ exit = "none" /\ Accepted(Doc)
  BY DEF TableDone, StartInv, Doc, database
<1>2. TablesDone(Doc, Range(todo), Absent, tables, indexes)
  <2>1. CASE table = Absent
    BY <1>1, <2>1
  <2>2. CASE table # Absent
    <3>1. MissingIndexes(Doc, table) = {}
      BY <2>2 DEF TableDone
    <3>2. IndexesThere(Doc, table, indexes)
      BY <3>1 DEF MissingIndexes, NameTaken, IndexesThere, HasIndex
    <3>3. QED
      BY <1>1, <3>2 DEF TablesDone, TableThere
  <2>3. QED
    BY <2>1, <2>2
<1>3. CASE todo = <<>>
  <2>1. step' = "extra" /\ todo' = ExtraQueries(Doc)
    BY <1>3 DEF TableDone
  <2>2. Range(<<>>) = {}
    BY DEF Range
  <2>3. TablesDone(Doc, {}, Absent, tables, indexes)
    BY <1>2, <1>3, <2>2
  <2>4. ExtrasDone(Doc, ExtraQueries(Doc), comments, indexes)
    BY DEF ExtrasDone
  <2>5. QED
    BY <1>1, <2>1, <2>3, <2>4 DEF StartInv
<1>4. CASE todo # <<>>
  BY <1>1, <1>2, <1>4 DEF StartInv, TableDone
<1>5. QED
  BY <1>3, <1>4

LEMMA StartExtraQuery ==
    ASSUME StartInv, NEW ok, ExtraQuery(ok)
    PROVE  StartInv'
<1>1. /\ file \in Versions /\ file' = file
      /\ running \in Versions /\ running' = running
      /\ Doc' = Doc /\ UNCHANGED <<enumTypes, tables>>
  BY DEF ExtraQuery, StartInv, Exit, Doc
<1>2. CASE step' = "down"
  BY <1>1, <1>2, StartDown
<1>3. CASE step' # "down"
  <2>1. PICK place \in todo :
            /\ todo' = todo \ {place}
            /\ UNCHANGED <<step, table, exit>>
            /\ step = "extra"
            /\ IF Statement(Doc, place).kind = "comment"
               THEN /\ DOMAIN comments' = DOMAIN comments \cup {QueryKey(Statement(Doc, place))}
                    /\ indexes' = indexes
               ELSE /\ indexes' = indexes \cup {QueryIndex(Statement(Doc, place))}
                    /\ comments' = comments
    BY <1>3 DEF ExtraQuery, Exit
  <2>2. /\ Executed(Statement(Doc, place), comments', indexes')
        /\ indexes \subseteq indexes'
        /\ DOMAIN comments \subseteq DOMAIN comments'
    BY <2>1 DEF Executed
  <2>3. /\ TablesDone(Doc, {}, Absent, tables, indexes)
        /\ EnumsDone(Doc, {}, enumTypes)
        /\ todo \subseteq ExtraQueries(Doc)
        /\ ExtrasDone(Doc, todo, comments, indexes)
        /\ exit = "none" /\ Accepted(Doc)
    BY <2>1 DEF StartInv
  <2>4. TablesDone(Doc, {}, Absent, tables', indexes')
    BY <1>1, <2>2, <2>3, MoreTables
  <2>5. ExtrasDone(Doc, todo, comments', indexes')
    BY <2>2, <2>3, MoreExtras
  <2>6. ExtrasDone(Doc, todo \ {place}, comments', indexes')
    BY <2>2, <2>5 DEF ExtrasDone
  <2>7. QED
    BY <1>1, <2>1, <2>3, <2>4, <2>6 DEF StartInv
<1>4. QED
  BY <1>2, <1>3

LEMMA StartReadIndexFields ==
    ASSUME StartInv, ReadIndexFields
    PROVE  StartInv'
<1>1. /\ UNCHANGED <<file, running, exit, enumTypes, tables, indexes, comments>>
      /\ Doc' = Doc
      /\ step = "extra" /\ step' = "up" /\ todo = {}
  BY DEF ReadIndexFields, Doc, database
<1>2. QED
  BY <1>1 DEF StartInv

\* The steps that leave the start alone.
LEMMA StartElsewhere ==
    ASSUME StartInv, Generator \/ (\E version \in Versions : Edit(version)) \/ UNCHANGED vars
    PROVE  StartInv'
<1>1. file' \in Versions /\ UNCHANGED <<database, indexer>>
  BY DEF StartInv, Generator, GenerateBegin, GenerateInterfaces, GenerateModel, GenerateIndex,
         GenerateStops, Edit, vars
<1>2. UNCHANGED <<running, step, todo, table, exit, tables, indexes, comments, enumTypes>> /\ Doc' = Doc
  BY <1>1 DEF database, indexer, Doc
<1>3. QED
  BY <1>1, <1>2 DEF StartInv

LEMMA StartInvStep ==
    ASSUME StartInv, [Next]_vars
    PROVE  StartInv'
<1>1. CASE Crash
  <2>1. file' \in Versions /\ running' \in Versions /\ step' = "down"
    BY <1>1 DEF Crash, Exit, StartInv
  <2>2. QED
    BY <2>1, StartDown
<1>2. CASE Indexer
  BY <1>1, <1>2, StartLaunch, StartSyncEnum, StartDefineModels, StartCreateTable, StartAddIndex,
     StartTableDone, StartExtraQuery, StartReadIndexFields DEF Indexer
<1>3. QED
  BY <1>2, StartElsewhere DEF Next

-----------------------------------------------------------------------------
(* Tables and indexes                                                       *)

LEMMA MadeWithMoreKeys ==
    ASSUME NEW version, NEW name, NEW columns, NEW keys, NEW more,
           MadeFrom(version, name, columns, keys), keys \subseteq more
    PROVE  MadeFrom(version, name, columns, more)
  BY DEF MadeFrom

LEMMA TablesInvStep ==
    ASSUME StartInv, TablesInv, [Next]_vars
    PROVE  TablesInv'
<1>1. CASE UNCHANGED <<tables, foreignKeys, touched>>
  BY <1>1 DEF TablesInv
<1>2. CASE \E clean \in BOOLEAN : Launch(clean)
  <2>1. PICK clean \in BOOLEAN : Launch(clean)
    BY <1>2
  <2>2. CASE clean
    BY <2>1, <2>2 DEF Launch, DropSchema, TablesInv
  <2>3. CASE ~ clean
    BY <1>1, <2>1, <2>3 DEF Launch, schema
  <2>4. QED
    BY <2>2, <2>3
<1>3. CASE \E ok \in BOOLEAN : CreateTable(ok)
  <2>1. PICK ok \in BOOLEAN : CreateTable(ok)
    BY <1>3
  <2>2. CASE step' = "down"
    BY <1>1, <2>1, <2>2 DEF CreateTable, StartInv
  <2>3. CASE step' # "down"
    <3>1. PICK i \in DOMAIN todo :
              /\ touched' = touched \cup {running}
              /\ IF todo[i].name \in DOMAIN tables
                 THEN UNCHANGED <<tables, foreignKeys>>
                 ELSE /\ tables' = [ n \in DOMAIN tables \cup {todo[i].name} |->
                                       IF n = todo[i].name
                                       THEN Columns(Doc, Entity(Doc, todo[i].name))
                                       ELSE tables[n] ]
                      /\ foreignKeys' = foreignKeys \cup ForeignKeysOf(Doc, todo[i].name)
      BY <2>1, <2>3 DEF CreateTable, Exit
    <3> DEFINE name == todo[i].name
    <3>2. name \in NamesOf(Doc.entities) /\ running \in Versions
      <4>1. todo \in Seq(Range(Doc.entities)) /\ running \in Versions
        BY <2>1 DEF CreateTable, StartInv
      <4>2. todo[i] \in Range(Doc.entities)
        BY <4>1, LenProperties, ElementOfSeq
      <4>3. QED
        BY <4>1, <4>2, NamesAre
    <3> HIDE DEF name
    <3>3. CASE name \in DOMAIN tables
      BY <3>1, <3>3 DEF TablesInv, name
    <3>4. CASE name \notin DOMAIN tables
      <4>1. /\ tables' = [ n \in DOMAIN tables \cup {name} |->
                             IF n = name THEN Columns(Doc, Entity(Doc, name)) ELSE tables[n] ]
            /\ foreignKeys' = foreignKeys \cup ForeignKeysOf(Doc, name)
        BY <3>1, <3>4 DEF name
      <4>2. SUFFICES ASSUME NEW n \in DOMAIN tables'
                     PROVE  \E version \in touched' :
                                MadeFrom(version, n, tables'[n], foreignKeys')
        BY DEF TablesInv
      <4>3. CASE n = name
        <5>1. tables'[n] = Columns(Doc, Entity(Doc, name))
          BY <4>1, <4>3
        <5>2. ForeignKeysOf(Doc, name) \subseteq foreignKeys'
          BY <4>1
        <5>3. MadeFrom(running, n, tables'[n], foreignKeys')
          BY <3>2, <4>3, <5>1, <5>2 DEF MadeFrom, Doc
        <5>4. QED
          BY <3>1, <5>3
      <4>4. CASE n # name
        <5>1. n \in DOMAIN tables /\ tables'[n] = tables[n]
          BY <4>1, <4>4
        <5>2. PICK version \in touched : MadeFrom(version, n, tables[n], foreignKeys)
          BY <5>1 DEF TablesInv
        <5>3. MadeFrom(version, n, tables[n], foreignKeys')
          BY <4>1, <5>2, MadeWithMoreKeys
        <5>4. QED
          BY <3>1, <5>1, <5>3
      <4>5. QED
        BY <4>3, <4>4
    <3>5. QED
      BY <3>3, <3>4
  <2>4. QED
    BY <2>2, <2>3
<1>4. QED
  BY <1>1, <1>2, <1>3 DEF Next, Indexer, SyncEnum, AddIndex, ExtraQuery, DefineModels, TableDone,
     ReadIndexFields, Crash, Generator, GenerateBegin, GenerateInterfaces, GenerateModel,
     GenerateIndex, GenerateStops, Edit, vars, schema, database

\* A table only one version may have touched is the table of that version.
LEMMA OwnTable ==
    ASSUME TablesInv, touched \subseteq {running}, NEW name \in DOMAIN tables
    PROVE  /\ name \in NamesOf(Doc.entities)
           /\ tables[name] = Columns(Doc, Entity(Doc, name))
           /\ ForeignKeysOf(Doc, name) \subseteq foreignKeys
  BY DEF TablesInv, MadeFrom, Doc

\* The column of an index a table of the running version lacks.
LEMMA MissingIndexIsOurs ==
    ASSUME StartInv, step = "tables", table # Absent,
           NEW index \in MissingIndexes(Doc, table)
    PROVE  /\ running \in Versions
           /\ table \in NamesOf(Doc.entities) /\ table \in DOMAIN tables
           /\ index \in TableIndexes(Doc, table)
           /\ ~ NameTaken(index)
  BY DEF StartInv, MissingIndexes

LEMMA IndexesInvStep ==
    ASSUME StartInv, IndexesInv, [Next]_vars
    PROVE  IndexesInv'
<1>1. CASE indexes' \subseteq indexes
  BY <1>1 DEF IndexesInv
<1>2. CASE \E ok \in BOOLEAN : AddIndex(ok)
  <2>1. PICK ok \in BOOLEAN, index \in MissingIndexes(Doc, table) :
            /\ indexes' \subseteq indexes \cup {index}
            /\ step = "tables" /\ table # Absent
    BY <1>2 DEF AddIndex
  <2>2. /\ running \in Versions /\ table \in NamesOf(Doc.entities)
        /\ index \in TableIndexes(Doc, table)
    BY <2>1, MissingIndexIsOurs
  <2>3. index.field \in { c.name : c \in Columns(Doc, Entity(Doc, table)) }
    BY <2>2, TableIndexOnColumn DEF Doc
  <2>4. Entity(Doc, table) \in Range(Doc.entities)
    BY <2>2, EntityOfName DEF Doc
  <2>5. index.field \in ColumnNames
    BY <2>2, <2>3, <2>4, ColumnIsNamed DEF Doc
  <2>6. QED
    BY <2>1, <2>5 DEF IndexesInv
<1>3. CASE \E ok \in BOOLEAN : ExtraQuery(ok)
  <2>1. PICK ok \in BOOLEAN, place \in todo :
            /\ indexes' \subseteq indexes \cup {QueryIndex(Statement(Doc, place))}
            /\ step = "extra"
    BY <1>3 DEF ExtraQuery
  <2>2. place \in ExtraQueries(Doc) /\ running \in Versions /\ Accepted(Doc)
    BY <2>1 DEF StartInv
  <2>3. PICK r \in Range(Relations(Doc)) :
            /\ r.kind # "belongsTo"
            /\ QueryKey(Statement(Doc, place)) = [ table |-> r.to, field |-> r.foreignKey ]
    BY <2>2, StatementOf
  <2>4. PICK e \in Range(Doc.entities) :
            r.foreignKey \in { c.name : c \in Columns(Doc, e) }
    BY <2>2, <2>3, DerivedOnColumn
  <2>5. r.foreignKey \in ColumnNames
    BY <2>2, <2>4, ColumnIsNamed DEF Doc
  <2>6. QueryIndex(Statement(Doc, place)).field = r.foreignKey
    BY <2>3 DEF QueryKey, QueryIndex
  <2>7. QED
    BY <2>1, <2>5, <2>6 DEF IndexesInv
<1>4. QED
  BY <1>1, <1>2, <1>3 DEF Next, Indexer, Launch, DropSchema, SyncEnum, CreateTable, DefineModels,
     TableDone, ReadIndexFields, Crash, Generator, GenerateBegin, GenerateInterfaces, GenerateModel,
     GenerateIndex, GenerateStops, Edit, vars, schema, database

-----------------------------------------------------------------------------
(* What a start that died leaves does not stop the next one                 *)

LEMMA CreationRefused ==
    ASSUME StartInv, NEW ok \in BOOLEAN, CreateTable(ok), exit' = "refused"
    PROVE  ~ Holdable(Doc) /\ Doc' = Doc
<1>1. /\ todo \in Seq(Range(Doc.entities))
      /\ exit = "none"
  BY DEF CreateTable, StartInv
<1>2. PICK i \in DOMAIN todo :
          /\ ~ (ok /\ (todo[i].name \in DOMAIN tables \/ ColumnsFit(Doc, todo[i].name)))
          /\ Exit(Refusal(ok))
  BY <1>1 DEF CreateTable
<1>3. ok
  BY <1>2 DEF Exit, Refusal
<1>4. ~ ColumnsFit(Doc, todo[i].name)
  BY <1>2, <1>3
<1>5. todo[i] \in Range(Doc.entities)
  BY <1>1, LenProperties, ElementOfSeq
<1>6. Doc' = Doc
  BY <1>2 DEF Exit, Doc
<1>7. QED
  BY <1>4, <1>5, <1>6 DEF Holdable

LEMMA IndexRefused ==
    ASSUME StartInv, TablesInv, NEW ok \in BOOLEAN, AddIndex(ok), exit' = "refused",
           touched \subseteq {running}
    PROVE  ~ Holdable(Doc) /\ Doc' = Doc
<1>1. exit = "none" /\ step = "tables" /\ table # Absent
  BY DEF AddIndex, StartInv
<1>2. PICK index \in MissingIndexes(Doc, table) :
          ~ (ok /\ IndexFits(index)) /\ Exit(Refusal(ok))
  BY <1>1 DEF AddIndex, indexer
<1>3. ok /\ ~ IndexFits(index)
  BY <1>2 DEF Exit, Refusal
<1>4. /\ running \in Versions
      /\ table \in NamesOf(Doc.entities) /\ table \in DOMAIN tables
      /\ index \in TableIndexes(Doc, table)
      /\ ~ NameTaken(index)
  BY <1>1, MissingIndexIsOurs
<1> DEFINE e == Entity(Doc, table)
<1>5. e \in Range(Doc.entities)
  BY <1>4, EntityOfName DEF Doc
<1>6. /\ index.table = table
      /\ index.field \in { c.name : c \in Columns(Doc, e) }
      /\ \E i \in Indexes(Doc, e) : i.unique = index.unique /\ i.using = index.using
  BY <1>4, TableIndexOnColumn DEF Doc
<1>7. tables[table] = Columns(Doc, e)
  BY <1>4, OwnTable
<1> HIDE DEF e
<1>8. index.unique /\ index.using = "hash"
  BY <1>3, <1>4, <1>6, <1>7 DEF IndexFits
<1>9. PICK i \in Indexes(Doc, e) : i.unique = index.unique /\ i.using = index.using
  BY <1>6
<1>10. ~ Holdable(Doc)
  BY <1>5, <1>8, <1>9 DEF Holdable
<1>11. Doc' = Doc
  BY <1>2 DEF Exit, Doc
<1>12. QED
  BY <1>10, <1>11

\* Every constraint a comment is put on is there.
LEMMA CommentNeverRefused ==
    ASSUME StartInv, TablesInv, step = "extra", touched \subseteq {running},
           NEW place \in todo
    PROVE  QueryFits(Statement(Doc, place))
<1>1. /\ place \in ExtraQueries(Doc)
      /\ Accepted(Doc)
      /\ TablesDone(Doc, {}, Absent, tables, indexes)
  BY DEF StartInv
<1>2. PICK r \in Range(Relations(Doc)) :
          /\ r.kind # "belongsTo"
          /\ QueryKey(Statement(Doc, place)) = [ table |-> r.to, field |-> r.foreignKey ]
  BY <1>1, StatementOf
<1>3. PICK e \in Range(Doc.entities) : e.name = r.to
  BY <1>1, <1>2, DerivedOnColumn
<1>4. r.to \in DOMAIN tables
  BY <1>1, <1>3 DEF TablesDone, TableThere
<1>5. ForeignKeysOf(Doc, r.to) \subseteq foreignKeys
  BY <1>4, OwnTable
<1>6. [ table |-> r.to, field |-> r.foreignKey ] \in ForeignKeysOf(Doc, r.to)
  BY <1>2, DerivedKey
<1>7. QED
  BY <1>2, <1>5, <1>6 DEF QueryFits

LEMMA HalfStartsStep ==
    ASSUME StartInv, TablesInv, HalfStartsDoNotBlock, [Next]_vars
    PROVE  HalfStartsDoNotBlock'
<1> SUFFICES ASSUME exit' = "refused", touched' \subseteq {running'}
             PROVE  ~ Holdable(Doc')
  BY DEF HalfStartsDoNotBlock
<1>1. CASE UNCHANGED <<exit, touched, running>>
  BY <1>1 DEF HalfStartsDoNotBlock, Doc
<1>2. CASE \E ok \in BOOLEAN : CreateTable(ok)
  BY <1>2, CreationRefused
<1>3. CASE \E ok \in BOOLEAN : AddIndex(ok)
  <2>1. PICK ok \in BOOLEAN : AddIndex(ok)
    BY <1>3
  <2>2. UNCHANGED <<touched, running>>
    BY <2>1 DEF AddIndex, Exit, indexer
  <2>3. QED
    BY <2>1, <2>2, IndexRefused
<1>4. CASE \E ok \in BOOLEAN : ExtraQuery(ok)
  <2>1. PICK ok \in BOOLEAN : ExtraQuery(ok)
    BY <1>4
  <2>2. UNCHANGED <<touched, running>> /\ step = "extra" /\ exit = "none"
    BY <2>1 DEF ExtraQuery, Exit, StartInv
  <2>3. PICK place \in todo :
            ~ (ok /\ QueryFits(Statement(Doc, place))) /\ exit' = Refusal(ok)
    BY <2>1, <2>2 DEF ExtraQuery, Exit
  <2>4. ~ QueryFits(Statement(Doc, place))
    BY <2>3 DEF Refusal
  <2>5. QED
    BY <2>2, <2>4, CommentNeverRefused
<1>5. CASE Launch(TRUE) \/ Launch(FALSE)
  BY <1>5 DEF Launch
<1>6. CASE \E ok \in BOOLEAN : SyncEnum(ok)
  <2>1. exit' # "refused"
    BY <1>6 DEF SyncEnum, Exit, StartInv
  <2>2. QED
    BY <2>1
<1>7. CASE DefineModels \/ Crash
  <2>1. exit' # "refused"
    BY <1>7 DEF DefineModels, Crash, Exit, StartInv
  <2>2. QED
    BY <2>1
<1>8. QED
  BY <1>1, <1>2, <1>3, <1>4, <1>5, <1>6, <1>7 DEF Next, Indexer, TableDone, ReadIndexFields,
     Generator, GenerateBegin, GenerateInterfaces, GenerateModel, GenerateIndex, GenerateStops,
     Edit, vars, indexer

-----------------------------------------------------------------------------
(* What the store lets a handler query                                      *)

LEMMA QueryableInvStep ==
    ASSUME StartInv, QueryableInv, [Next]_vars
    PROVE  QueryableInv'
<1>1. CASE UNCHANGED <<queryable, indexes, running, step>>
  BY <1>1 DEF QueryableInv, Doc
<1>2. CASE step' # "up" /\ (queryable' = {} \/ (queryable' = queryable /\ indexes \subseteq indexes'))
  BY <1>2 DEF QueryableInv
<1>3. CASE ReadIndexFields
  <2>1. /\ queryable' = { [ entity |-> i.table, field |-> i.field, unique |-> i.unique ] :
                            i \in { x \in indexes \cup Neighbours :
                                      x.table \in NamesOf(Doc.entities) } }
        /\ indexes' = indexes /\ running' = running
    BY <1>3 DEF ReadIndexFields, database
  <2>2. QED
    BY <2>1 DEF QueryableInv, AsField, Doc
<1>4. CASE \E clean \in BOOLEAN : Launch(clean)
  <2>1. PICK clean \in BOOLEAN : Launch(clean)
    BY <1>4
  <2>2. queryable' = {}
    BY <2>1 DEF Launch
  <2>3. step' = "enums" \/ step' = "down"
    BY <2>1 DEF Launch
  <2>4. QED
    BY <2>2, <2>3 DEF QueryableInv
<1>5. CASE \E ok \in BOOLEAN : SyncEnum(ok) \/ CreateTable(ok) \/ AddIndex(ok) \/ ExtraQuery(ok)
  <2>1. PICK ok \in BOOLEAN : SyncEnum(ok) \/ CreateTable(ok) \/ AddIndex(ok) \/ ExtraQuery(ok)
    BY <1>5
  <2>2. step' # "up" /\ (queryable' = {} \/ queryable' = queryable)
    BY <2>1 DEF SyncEnum, CreateTable, AddIndex, ExtraQuery, Exit, indexer
  <2>3. indexes \subseteq indexes'
    BY <2>1 DEF SyncEnum, CreateTable, AddIndex, ExtraQuery, schema
  <2>4. QED
    BY <1>2, <2>2, <2>3
<1>6. CASE DefineModels \/ TableDone \/ Crash
  <2>1. step' # "up" /\ (queryable' = {} \/ queryable' = queryable) /\ indexes' = indexes
    BY <1>6 DEF DefineModels, TableDone, Crash, Exit, database
  <2>2. QED
    BY <1>2, <2>1
<1>7. CASE Generator \/ (\E version \in Versions : Edit(version)) \/ UNCHANGED vars
  BY <1>1, <1>7 DEF Generator, GenerateBegin, GenerateInterfaces, GenerateModel, GenerateIndex,
     GenerateStops, Edit, vars, indexer, database
<1>8. QED
  BY <1>3, <1>4, <1>5, <1>6, <1>7 DEF Next, Indexer

-----------------------------------------------------------------------------
(* The generated models                                                     *)

\* The version the loop works with.
LEMMA LoopVersionIs ==
    ASSUME StartInv, ModelsInv
    PROVE  LoopVersion \in Versions /\ \A n \in DOMAIN models : models[n] = LoopVersion
<1>1. CASE models = NoModels
  <2>1. DOMAIN models = {}
    BY <1>1 DEF NoModels
  <2>2. QED
    BY <1>1, <2>1 DEF LoopVersion, StartInv
<1>2. CASE models # NoModels
  <2>1. PICK n \in DOMAIN models : TRUE
    <3>1. models = [ n \in DOMAIN models |-> models[n] ]
      BY DEF ModelsInv
    <3>2. DOMAIN models # {}
      BY <1>2, <3>1 DEF NoModels
    <3>3. QED
      BY <3>2
  <2>2. Range(models) = {models[n]}
    BY <2>1 DEF ModelsInv, Range
  <2>3. LoopVersion = models[n]
    BY <1>2, <2>2 DEF LoopVersion
  <2>4. QED
    BY <2>3 DEF ModelsInv
<1>3. QED
  BY <1>1, <1>2

LEMMA ModelsInvStep ==
    ASSUME StartInv, ModelsInv, [Next]_vars
    PROVE  ModelsInv'
<1>1. CASE UNCHANGED generator
  <2>1. UNCHANGED <<generating, models, modelsIndex>>
    BY <1>1 DEF generator
  <2>2. QED
    BY <2>1 DEF ModelsInv, ModelsBelongTogether
<1>2. CASE GenerateBegin
  <2>1. DOMAIN NoModels = {} /\ NoModels = [ n \in DOMAIN NoModels |-> NoModels[n] ]
    BY DEF NoModels
  <2>2. models' = NoModels /\ modelsIndex' = Absent
    BY <1>2 DEF GenerateBegin
  <2>3. QED
    BY <2>1, <2>2 DEF ModelsInv, ModelsBelongTogether
<1>3. CASE GenerateInterfaces \/ GenerateStops
  <2>1. /\ UNCHANGED <<models, modelsIndex>>
        /\ generating' # "interfaces"
        /\ generating # "idle"
    BY <1>3 DEF GenerateInterfaces, GenerateStops
  <2>2. QED
    BY <2>1 DEF ModelsInv, ModelsBelongTogether
<1>4. CASE GenerateModel
  <2>1. modelsIndex' = Absent /\ generating' # "interfaces"
    BY <1>4 DEF GenerateModel, ModelsInv
  <2>2. CASE models' = models
    BY <2>1, <2>2 DEF ModelsInv, ModelsBelongTogether
  <2>3. CASE models' # models
    <3>1. PICK i \in ClassesLeft :
              models' = [ n \in DOMAIN models \cup
                                  {Documents[LoopVersion].entities[i].name} |->
                            IF n \in DOMAIN models THEN models[n] ELSE LoopVersion ]
      BY <1>4, <2>3 DEF GenerateModel
    <3> DEFINE name == Documents[LoopVersion].entities[i].name
    <3>2. name \in NamesOf(Documents[LoopVersion].entities)
      BY DEF ClassesLeft, NamesOf
    <3> HIDE DEF name
    <3>3. models' = [ n \in DOMAIN models \cup {name} |->
                        IF n \in DOMAIN models THEN models[n] ELSE LoopVersion ]
      BY <3>1 DEF name
    <3>4. LoopVersion \in Versions /\ \A n \in DOMAIN models : models[n] = LoopVersion
      BY LoopVersionIs
    <3>5. \A n \in DOMAIN models' :
             models'[n] = LoopVersion /\ n \in NamesOf(Documents[LoopVersion].entities)
      BY <3>2, <3>3, <3>4 DEF ModelsInv
    <3>6. models' = [ n \in DOMAIN models' |-> models'[n] ]
      BY <3>3
    <3>7. QED
      BY <2>1, <3>4, <3>5, <3>6 DEF ModelsInv, ModelsBelongTogether
  <2>4. QED
    BY <2>2, <2>3
<1>5. CASE GenerateIndex
  <2>1. /\ models # NoModels /\ ClassesLeft = {}
        /\ generating' = "idle" /\ modelsIndex' = LoopVersion /\ models' = models
    BY <1>5 DEF GenerateIndex
  <2>2. LoopVersion \in Versions /\ \A n \in DOMAIN models : models[n] = LoopVersion
    BY LoopVersionIs
  <2>3. NamesOf(Documents[LoopVersion].entities) \subseteq DOMAIN models
    BY <2>1 DEF ClassesLeft, NamesOf
  <2>4. DOMAIN models \subseteq NamesOf(Documents[LoopVersion].entities)
    BY <2>2 DEF ModelsInv
  <2>5. ModelsBelongTogether'
    BY <2>1, <2>2, <2>3, <2>4 DEF ModelsBelongTogether
  <2>6. QED
    BY <2>1, <2>5 DEF ModelsInv
<1>6. QED
  BY <1>1, <1>2, <1>3, <1>4, <1>5 DEF Next, Indexer, Launch, SyncEnum, CreateTable, AddIndex,
     ExtraQuery, DefineModels, TableDone, ReadIndexFields, Crash, Generator, Edit, vars

-----------------------------------------------------------------------------
(* Types                                                                    *)

\* Keys, indexes and comments are those of tables that are there.
KeysInv ==
    /\ \A k \in foreignKeys : k.table \in DOMAIN tables
    /\ \A i \in indexes : i.table \in DOMAIN tables
    /\ DOMAIN comments \subseteq foreignKeys

LEMMA KeysInvStep ==
    ASSUME StartInv, KeysInv, [Next]_vars
    PROVE  KeysInv'
<1>1. CASE UNCHANGED schema
  BY <1>1 DEF KeysInv, schema
<1>2. CASE \E clean \in BOOLEAN : Launch(clean)
  <2>1. PICK clean \in BOOLEAN : Launch(clean)
    BY <1>2
  <2>2. CASE clean
    BY <2>1, <2>2 DEF Launch, DropSchema, KeysInv
  <2>3. CASE ~ clean
    BY <1>1, <2>1, <2>3 DEF Launch
  <2>4. QED
    BY <2>2, <2>3
<1>3. CASE \E ok \in BOOLEAN : CreateTable(ok)
  <2>1. UNCHANGED <<indexes, comments>>
    BY <1>3 DEF CreateTable
  <2>2. CASE UNCHANGED <<tables, foreignKeys>>
    BY <1>1, <2>1, <2>2 DEF schema
  <2>3. CASE ~ UNCHANGED <<tables, foreignKeys>>
    <3>1. PICK name :
              /\ DOMAIN tables' = DOMAIN tables \cup {name}
              /\ foreignKeys' = foreignKeys \cup ForeignKeysOf(Doc, name)
      BY <1>3, <2>3 DEF CreateTable
    <3>2. \A k \in ForeignKeysOf(Doc, name) : k.table = name
      BY DEF ForeignKeysOf
    <3>3. QED
      BY <2>1, <3>1, <3>2 DEF KeysInv
  <2>4. QED
    BY <2>2, <2>3
<1>4. CASE \E ok \in BOOLEAN : AddIndex(ok)
  <2>1. PICK ok \in BOOLEAN, index \in MissingIndexes(Doc, table) :
            /\ indexes' \subseteq indexes \cup {index}
            /\ step = "tables" /\ table # Absent
            /\ UNCHANGED <<tables, foreignKeys, comments>>
    BY <1>4 DEF AddIndex
  <2>2. index.table = table /\ table \in DOMAIN tables
    BY <2>1, MissingIndexIsOurs, TableIndexOnColumn DEF Doc
  <2>3. QED
    BY <2>1, <2>2 DEF KeysInv
<1>5. CASE \E ok \in BOOLEAN : ExtraQuery(ok)
  <2>1. PICK ok \in BOOLEAN, place \in todo :
            /\ step = "extra"
            /\ UNCHANGED <<tables, foreignKeys>>
            /\ \/ UNCHANGED <<indexes, comments>>
               \/ /\ indexes' = indexes
                  /\ DOMAIN comments' = DOMAIN comments \cup {QueryKey(Statement(Doc, place))}
                  /\ QueryKey(Statement(Doc, place)) \in foreignKeys
               \/ /\ indexes' = indexes \cup {QueryIndex(Statement(Doc, place))}
                  /\ comments' = comments
    BY <1>5 DEF ExtraQuery, QueryFits
  <2>2. /\ place \in ExtraQueries(Doc)
        /\ Accepted(Doc)
        /\ TablesDone(Doc, {}, Absent, tables, indexes)
    BY <2>1 DEF StartInv
  <2>3. PICK r \in Range(Relations(Doc)) :
            /\ r.kind # "belongsTo"
            /\ QueryKey(Statement(Doc, place)) = [ table |-> r.to, field |-> r.foreignKey ]
    BY <2>2, StatementOf
  <2>4. PICK e \in Range(Doc.entities) : e.name = r.to
    BY <2>2, <2>3, DerivedOnColumn
  <2>5. r.to \in DOMAIN tables
    BY <2>2, <2>4 DEF TablesDone, TableThere
  <2>6. QueryIndex(Statement(Doc, place)).table = r.to
    BY <2>3 DEF QueryKey, QueryIndex
  <2>7. QED
    BY <2>1, <2>5, <2>6 DEF KeysInv
<1>6. QED
  BY <1>1, <1>2, <1>3, <1>4, <1>5 DEF Next, Indexer, SyncEnum, DefineModels, TableDone,
     ReadIndexFields, Crash, Generator, GenerateBegin, GenerateInterfaces, GenerateModel,
     GenerateIndex, GenerateStops, Edit, vars, schema, database

\* What the indexer and the generator hold, and the bounds.
HeldInv ==
    /\ table \in Names \cup {Absent}
    /\ exit \in {"none", "schema", "enum", "limit", "refused", "failed"}
    /\ generating \in {"idle", "interfaces", "models"}
    /\ modelsIndex \in Versions \cup {Absent}
    /\ touched \subseteq Versions
    /\ edits \in 0..MaxEdits /\ starts \in 0..MaxStarts

LEMMA HeldInvStep ==
    ASSUME StartInv, ModelsInv, HeldInv, [Next]_vars
    PROVE  HeldInv'
<1>1. CASE UNCHANGED <<table, exit, generating, modelsIndex, touched, edits, starts>>
  BY <1>1 DEF HeldInv
<1>2. CASE \E clean \in BOOLEAN : Launch(clean)
  <2>1. PICK clean \in BOOLEAN : Launch(clean)
    BY <1>2
  <2>2. starts' \in 0 .. MaxStarts
    BY <2>1, SchemaAssumption DEF Launch, HeldInv
  <2>3. touched' \subseteq Versions /\ table' = Absent /\ exit' \in {"none", "schema"}
    BY <2>1 DEF Launch, DropSchema, HeldInv
  <2>4. UNCHANGED <<generating, modelsIndex, edits>>
    BY <2>1 DEF Launch, generator
  <2>5. QED
    BY <2>2, <2>3, <2>4 DEF HeldInv
<1>3. CASE \E ok \in BOOLEAN : SyncEnum(ok) \/ AddIndex(ok) \/ ExtraQuery(ok)
  <2>1. PICK ok \in BOOLEAN : SyncEnum(ok) \/ AddIndex(ok) \/ ExtraQuery(ok)
    BY <1>3
  <2>2. table' \in {table, Absent} /\ exit' \in {exit, "enum", "refused", "failed"}
    BY <2>1 DEF SyncEnum, AddIndex, ExtraQuery, Exit, Refusal, indexer
  <2>3. UNCHANGED <<generating, modelsIndex, touched, edits, starts>>
    BY <2>1 DEF SyncEnum, AddIndex, ExtraQuery, generator
  <2>4. QED
    BY <2>2, <2>3 DEF HeldInv
<1>4. CASE DefineModels \/ TableDone \/ Crash
  <2>1. table' \in {table, Absent} /\ exit' \in {exit, "limit", "failed"}
    BY <1>4 DEF DefineModels, TableDone, Crash, Exit
  <2>2. UNCHANGED <<generating, modelsIndex, touched, edits, starts>>
    BY <1>4 DEF DefineModels, TableDone, Crash, generator
  <2>3. QED
    BY <2>1, <2>2 DEF HeldInv
<1>5. CASE \E ok \in BOOLEAN : CreateTable(ok)
  <2>1. PICK ok \in BOOLEAN : CreateTable(ok)
    BY <1>5
  <2>2. UNCHANGED <<generating, modelsIndex, edits, starts>> /\ running \in Versions
    BY <2>1 DEF CreateTable, generator, StartInv
  <2>3. CASE step' = "down"
    <3>1. table' = Absent /\ exit' \in {"refused", "failed"} /\ touched' = touched
      BY <2>1, <2>3 DEF CreateTable, Exit, Refusal, StartInv
    <3>2. QED
      BY <2>2, <3>1 DEF HeldInv
  <2>4. CASE step' # "down"
    <3>1. exit' = exit /\ touched' = touched \cup {running} /\ step' = "tables"
      BY <2>1, <2>4 DEF CreateTable, Exit
    <3>2. StartInv'
      BY StartInvStep
    <3>3. table' \in Names \cup {Absent}
      BY <3>1, <3>2 DEF StartInv, Names, Doc
    <3>4. QED
      BY <2>2, <3>1, <3>3 DEF HeldInv
  <2>5. QED
    BY <2>3, <2>4
<1>6. CASE Generator
  <2>1. UNCHANGED <<table, exit, touched, edits, starts>>
    BY <1>6 DEF Generator, GenerateBegin, GenerateInterfaces, GenerateModel, GenerateIndex,
       GenerateStops, indexer
  <2>2. generating' \in {"idle", "interfaces", "models", generating}
    BY <1>6 DEF Generator, GenerateBegin, GenerateInterfaces, GenerateModel, GenerateIndex,
       GenerateStops
  <2>3. modelsIndex' \in {modelsIndex, Absent, LoopVersion}
    BY <1>6 DEF Generator, GenerateBegin, GenerateInterfaces, GenerateModel, GenerateIndex,
       GenerateStops
  <2>4. LoopVersion \in Versions
    BY LoopVersionIs
  <2>5. QED
    BY <2>1, <2>2, <2>3, <2>4 DEF HeldInv
<1>7. CASE \E version \in Versions : Edit(version)
  BY <1>7, SchemaAssumption DEF Edit, HeldInv, indexer, generator
<1>8. QED
  BY <1>1, <1>2, <1>3, <1>4, <1>5, <1>6, <1>7 DEF Next, Indexer, ReadIndexFields, vars, indexer,
     generator

-----------------------------------------------------------------------------
(* The theorems                                                             *)

\* The parts together are inductive: whatever is edited, dropped, started and killed.
THEOREM SyncInvariant == Spec => []SyncInv
<1>1. Init => SyncInv
  <2>1. ASSUME Init PROVE StartInv /\ TablesInv /\ IndexesInv /\ HalfStartsDoNotBlock /\ QueryableInv
    BY <2>1 DEF Init, StartInv, TablesInv, IndexesInv, HalfStartsDoNotBlock, QueryableInv
  <2>2. ASSUME Init PROVE ModelsInv
    <3>1. DOMAIN NoModels = {} /\ NoModels = [ n \in DOMAIN NoModels |-> NoModels[n] ]
      BY DEF NoModels
    <3>2. models = NoModels /\ modelsIndex = Absent /\ generating = "idle"
      BY <2>2 DEF Init
    <3>3. QED
      BY <3>1, <3>2 DEF ModelsInv, ModelsBelongTogether
  <2>3. QED
    BY <2>1, <2>2 DEF SyncInv
<1>2. SyncInv /\ [Next]_vars => SyncInv'
  BY StartInvStep, TablesInvStep, IndexesInvStep, HalfStartsStep, QueryableInvStep, ModelsInvStep
     DEF SyncInv
<1>3. QED
  BY <1>1, <1>2, PTL DEF Spec

\* Every variable has its type, and nothing in the database hangs in the air: keys, indexes
\* and comments belong to tables that are there.
THEOREM TypeCorrect == Spec => []TypeOK
<1>1. Init => KeysInv /\ HeldInv
  <2>1. ASSUME Init PROVE KeysInv
    BY <2>1 DEF Init, KeysInv
  <2>2. ASSUME Init PROVE HeldInv
    BY <2>2, SchemaAssumption DEF Init, HeldInv
  <2>3. QED
    BY <2>1, <2>2
<1>2. SyncInv /\ KeysInv /\ HeldInv /\ [Next]_vars => KeysInv' /\ HeldInv'
  BY KeysInvStep, HeldInvStep DEF SyncInv
<1>3. ASSUME SyncInv, KeysInv, HeldInv PROVE TypeOK
  <2>1. DOMAIN tables \subseteq Names
    BY <1>3 DEF SyncInv, TablesInv, MadeFrom, Names
  <2>2. \A n \in DOMAIN models : models[n] \in Versions
    BY <1>3 DEF SyncInv, ModelsInv
  <2>3. file \in Versions /\ running \in Versions /\ step \in {"down", "enums", "tables", "extra", "up"}
    BY <1>3 DEF SyncInv, StartInv
  <2>4. QED
    BY <1>3, <2>1, <2>2, <2>3 DEF TypeOK, KeysInv, HeldInv
<1>4. QED
  BY <1>1, <1>2, <1>3, SyncInvariant, PTL DEF Spec

\* A node that has started works with the enums of its schema, whatever types it found.
THEOREM EnumsMatch == Spec => []EnumsAsInSchema
<1>1. SyncInv => EnumsAsInSchema
  BY DEF SyncInv, StartInv, EnumsDone, EnumThere, EnumsAsInSchema
<1>2. QED
  BY <1>1, SyncInvariant, PTL

\* A start that ends well leaves the whole schema behind, however often it was begun.
THEOREM StartsComplete == Spec => []StartCompletesSchema
<1>1. ASSUME SyncInv PROVE StartCompletesSchema
  <2> SUFFICES ASSUME step = "up", touched \subseteq {running}
               PROVE  /\ DOMAIN tables = NamesOf(Doc.entities)
                      /\ \A e \in Range(Doc.entities) :
                            /\ tables[e.name] = Columns(Doc, e)
                            /\ ForeignKeysOf(Doc, e.name) \subseteq foreignKeys
                            /\ \A i \in TableIndexes(Doc, e.name) : NameTaken(i)
                      /\ \A r \in Range(Relations(Doc)) :
                            /\ r.kind # "belongsTo" =>
                                  [ table |-> r.to, field |-> r.foreignKey ] \in DOMAIN comments
                            /\ r.kind = "hasOne" =>
                                  \E i \in indexes :
                                      i.table = r.to /\ i.field = r.foreignKey /\ i.unique
    BY DEF StartCompletesSchema
  <2>1. /\ running \in Versions
        /\ TablesDone(Doc, {}, Absent, tables, indexes)
        /\ ExtrasDone(Doc, {}, comments, indexes)
        /\ TablesInv
    BY <1>1 DEF SyncInv, StartInv
  <2>2. ASSUME NEW e \in Range(Doc.entities)
        PROVE  /\ e.name \in DOMAIN tables
               /\ tables[e.name] = Columns(Doc, e)
               /\ ForeignKeysOf(Doc, e.name) \subseteq foreignKeys
               /\ \A i \in TableIndexes(Doc, e.name) : NameTaken(i)
    <3>1. e.name # Absent
      BY <2>1, OfVersion DEF Doc
    <3>2. e.name \in DOMAIN tables /\ IndexesThere(Doc, e.name, indexes)
      BY <2>1, <3>1 DEF TablesDone, TableThere
    <3>3. Entity(Doc, e.name) = e
      BY <2>1, EntityIs DEF Doc
    <3>4. QED
      BY <2>1, <3>2, <3>3, OwnTable DEF IndexesThere, HasIndex, NameTaken
  <2>3. DOMAIN tables = NamesOf(Doc.entities)
    BY <2>1, <2>2, OwnTable, NamesAre
  <2>4. ASSUME NEW r \in Range(Relations(Doc)), r.kind # "belongsTo"
        PROVE  [ table |-> r.to, field |-> r.foreignKey ] \in DOMAIN comments
    <3>1. PICK k \in DOMAIN Relations(Doc) : r = Relations(Doc)[k]
      BY DEF Range
    <3>2. 1 \in DOMAIN StatementsOf(r) /\ StatementsOf(r)[1] = CommentOn(r)
      BY <2>4 DEF StatementsOf
    <3>3. <<k, 1>> \in ExtraQueries(Doc) /\ Statement(Doc, <<k, 1>>) = CommentOn(r)
      BY <3>1, <3>2 DEF ExtraQueries, Statement
    <3>4. Executed(CommentOn(r), comments, indexes)
      BY <2>1, <3>3 DEF ExtrasDone
    <3>5. QED
      BY <3>4 DEF Executed, CommentOn, QueryKey
  <2>5. ASSUME NEW r \in Range(Relations(Doc)), r.kind = "hasOne"
        PROVE  \E i \in indexes : i.table = r.to /\ i.field = r.foreignKey /\ i.unique
    <3>1. PICK k \in DOMAIN Relations(Doc) : r = Relations(Doc)[k]
      BY DEF Range
    <3>2. 2 \in DOMAIN StatementsOf(r) /\ StatementsOf(r)[2] = UniqueOn(r)
      BY <2>5 DEF StatementsOf
    <3>3. <<k, 2>> \in ExtraQueries(Doc) /\ Statement(Doc, <<k, 2>>) = UniqueOn(r)
      BY <3>1, <3>2 DEF ExtraQueries, Statement
    <3>4. Executed(UniqueOn(r), comments, indexes)
      BY <2>1, <3>3 DEF ExtrasDone
    <3>5. QED
      BY <3>4 DEF Executed, UniqueOn, QueryIndex
  <2>6. QED
    BY <2>2, <2>3, <2>4, <2>5
<1>2. QED
  BY <1>1, SyncInvariant, PTL

\* No statement is refused because an earlier start has done part of the work.
THEOREM DeadStartsDoNotBlock == Spec => []HalfStartsDoNotBlock
<1>1. SyncInv => HalfStartsDoNotBlock
  BY DEF SyncInv
<1>2. QED
  BY <1>1, SyncInvariant, PTL

\* The finders of the classes generated from the schema of the node find their index.
THEOREM FindersFind == Spec => []FindersUsable
<1>1. ASSUME SyncInv PROVE FindersUsable
  <2> SUFFICES ASSUME step = "up", modelsIndex = running,
                      NEW e \in Range(Doc.entities),
                      NEW f \in Finders(Documents[models[e.name]], e),
                      PlainName(f)
               PROVE  IF f.one THEN CanGetOneByField(f.entity, f.field)
                               ELSE CanGetByField(f.entity, f.field)
    BY DEF FindersUsable
  <2>1. /\ running \in Versions
        /\ TablesDone(Doc, {}, Absent, tables, indexes)
        /\ QueryableInv /\ ModelsBelongTogether
    BY <1>1 DEF SyncInv, StartInv, ModelsInv
  <2>2. modelsIndex # Absent /\ modelsIndex = running
    BY <2>1, OfVersion
  <2>3. e.name \in DOMAIN models /\ models[e.name] = running
    BY <2>1, <2>2, NamesAre DEF ModelsBelongTogether, Doc
  <2>4. PICK i \in Indexes(Doc, e) : f = [ entity |-> e.name, field |-> i.field, one |-> i.unique ]
    BY <2>3 DEF Finders, Doc
  <2>5. Entity(Doc, e.name) = e /\ e.name # Absent
    BY <2>1, EntityIs, OfVersion DEF Doc
  <2> DEFINE index == [ table |-> e.name, field |-> i.field, unique |-> i.unique, using |-> i.using ]
  <2>6. index \in TableIndexes(Doc, e.name)
    BY <2>5 DEF TableIndexes
  <2>7. IndexesThere(Doc, e.name, indexes)
    BY <2>1, <2>5 DEF TablesDone, TableThere
  <2>8. PICK j \in indexes : j.table = e.name /\ j.field = i.field /\ j.unique = i.unique
    BY <2>6, <2>7 DEF IndexesThere, HasIndex
  <2>9. AsField(j) \in queryable
    BY <2>1, <2>8, NamesAre DEF QueryableInv
  <2>10. /\ AsField(j).entity = f.entity
         /\ AsField(j).field = f.field
         /\ AsField(j).unique = f.one
    BY <2>4, <2>8 DEF AsField
  <2>11. QED
    BY <2>9, <2>10 DEF PlainName, CanGetOneByField, CanGetByField
<1>2. QED
  BY <1>1, SyncInvariant, PTL

\* What the store offers to query by is indexed in the project's own table, as long as
\* different names have different forms.
THEOREM QueriesFindIndexes ==
    ASSUME FormsDistinct
    PROVE  Spec => []QueriesAreIndexed
<1>1. ASSUME SyncInv PROVE QueriesAreIndexed
  <2> SUFFICES ASSUME NEW e \in DOMAIN tables, NEW c \in tables[e],
                      \A i \in Neighbours : i.table # e
               PROVE  /\ CanGetByField(e, c.name) =>
                            \E i \in indexes : EntityForm(i.table) = e /\ i.field = c.name
                      /\ CanGetOneByField(e, c.name) =>
                            \E i \in indexes :
                                EntityForm(i.table) = e /\ i.field = c.name /\ i.unique
    BY DEF QueriesAreIndexed
  <2>1. TablesInv /\ IndexesInv /\ QueryableInv
    BY <1>1 DEF SyncInv
  <2>2. PICK version \in Versions : MadeFrom(version, e, tables[e], foreignKeys)
    BY <2>1 DEF TablesInv, MadeFrom
  <2>3. e \in Names
    BY <2>2 DEF MadeFrom, Names
  <2>4. c.name \in ColumnNames
    <3>1. Entity(Documents[version], e) \in Range(Documents[version].entities)
      BY <2>2, EntityOfName DEF MadeFrom
    <3>2. QED
      BY <2>2, <3>1, ColumnIsNamed DEF MadeFrom
  <2>5. ASSUME NEW q \in queryable, EntityForm(q.entity) = e, FieldForm(q.field) = c.name
        PROVE  \E i \in indexes : /\ EntityForm(i.table) = e /\ i.field = c.name
                                  /\ i.unique = q.unique
    <3>1. PICK i \in indexes \cup Neighbours : q = AsField(i)
      BY <2>1 DEF QueryableInv
    <3>2. q.entity = i.table /\ q.field = i.field /\ q.unique = i.unique
      BY <3>1 DEF AsField
    <3>3. i \in indexes
      BY <2>3, <2>5, <3>2 DEF FormsDistinct
    <3>4. i.field = c.name
      BY <2>1, <2>4, <2>5, <3>2, <3>3 DEF FormsDistinct, IndexesInv
    <3>5. QED
      BY <2>5, <3>2, <3>3, <3>4
  <2>6. QED
    BY <2>5 DEF CanGetByField, CanGetOneByField
<1>2. QED
  BY <1>1, SyncInvariant, PTL

\* The index of the models lists classes of one version, all of them.
THEOREM ModelsMatch == Spec => []ModelsBelongTogether
<1>1. SyncInv => ModelsBelongTogether
  BY DEF SyncInv, ModelsInv
<1>2. QED
  BY <1>1, SyncInvariant, PTL
=============================================================================
