--------------------------- MODULE GraphqlEntities ---------------------------
(* What the entities of a project's schema.graphql become                     *)
(* (packages/common/src/graphql/entities.ts): the models with their columns   *)
(* and indexes, the relations between them, the enums, and the documents that *)
(* are refused.  Both the node, which builds its tables from the result, and  *)
(* the generator of the project's model classes read a document this way.     *)
(*                                                                            *)
(* A document is a record                                                     *)
(*   entities   <<[name, fields]>>   object types marked @entity              *)
(*   jsons      <<[name, fields]>>   object types marked @jsonField           *)
(*   enums      <<[name, values]>>                                            *)
(*   others     names of its unions and interfaces                            *)
(* and a field is [name, type, list, nonNull, derivedFrom, index] with the    *)
(* name of its type, the argument of @derivedFrom or Absent, and the argument *)
(* of @index: "unique", "notUnique", "plain" (none given) or Absent.          *)
EXTENDS Integers, Sequences, FiniteSets, SequencesExt, Relation

Absent == "absent"

ScalarTypes ==
    {"ID", "Int", "BigInt", "String", "Date", "Boolean", "Bytes", "Float"}

NamesOf(definitions) == { definitions[i].name : i \in DOMAIN definitions }

FieldsOf(definition) == Range(definition.fields)

ForeignKey(name) == name \o "Id"

(* The chain of tests a field's type goes through, in their order: a union or *)
(* an interface is refused before any of them.                                *)
FieldKind(doc, field) ==
    CASE field.type \in doc.others           -> "invalid"
      [] field.type \in ScalarTypes          -> "scalar"
      [] field.type \in NamesOf(doc.enums)   -> "enum"
      [] field.type \in NamesOf(doc.entities)
                                             ->
           IF field.derivedFrom = Absent THEN "foreignKey" ELSE "derived"
      [] field.type \in NamesOf(doc.jsons)   -> "json"
      [] OTHER                               -> "invalid"

(* setJsonObjectType describes a JSON type field by field and calls itself    *)
(* for a field of a JSON type, so that a type that contains itself is never   *)
(* finished (the call stack overflows); it asks the same extractType for the  *)
(* type of every field.                                                       *)
JsonContains(doc) ==
    LET names == NamesOf(doc.jsons)
    IN  [ outer, inner \in names |->
            \E j \in Range(doc.jsons) :
                j.name = outer /\ \E f \in FieldsOf(j) : f.type = inner ]

JsonReaches(doc) == TransitiveClosure(JsonContains(doc), NamesOf(doc.jsons))

JsonDescribed(doc, name) ==
    \A j \in Range(doc.jsons) :
        (j.name = name \/ JsonReaches(doc)[name, j.name]) =>
            /\ ~ JsonReaches(doc)[j.name, j.name]
            /\ \A f \in FieldsOf(j) : f.type \notin doc.others

(* @index is for scalars other than ID and for fields whose type is an        *)
(* entity; on anything else it throws.                                        *)
IndexAllowed(doc, field) ==
    /\ field.type # "ID"
    /\ FieldKind(doc, field) \in {"scalar", "foreignKey", "derived"}

FieldAccepted(doc, field) ==
    /\ FieldKind(doc, field) # "invalid"
    /\ FieldKind(doc, field) = "json" => JsonDescribed(doc, field.type)
    /\ field.index # Absent => IndexAllowed(doc, field)

(* The columns of an entity.  A field derived from another entity has none; a *)
(* reference is the identifier of the entity referred to.                     *)
Column(doc, field) ==
    [ name     |-> IF FieldKind(doc, field) = "foreignKey"
                   THEN ForeignKey(field.name) ELSE field.name,
      type     |-> CASE FieldKind(doc, field) = "foreignKey" -> "String"
                     [] FieldKind(doc, field) = "json"       -> "Json"
                     [] OTHER                                -> field.type,
      list     |-> field.list,
      nullable |-> ~field.nonNull,
      isEnum   |-> FieldKind(doc, field) = "enum" ]

Columns(doc, entity) ==
    { Column(doc, f) : f \in { g \in FieldsOf(entity) : FieldKind(doc, g) # "derived" } }

(* The indexes: one on each @index scalar, a hash index on every reference,   *)
(* which @index(unique: true) turns into a unique one, a GIN index on every   *)
(* JSON column.                                                               *)
FieldIndex(doc, field) ==
    LET kind == FieldKind(doc, field)
    IN  [ field  |-> Column(doc, field).name,
          unique |-> field.index = "unique",
          using  |-> CASE kind = "foreignKey" -> "hash"
                       [] kind = "json"       -> "gin"
                       [] OTHER               -> "btree" ]

Indexes(doc, entity) ==
    { FieldIndex(doc, f) : f \in
        { g \in FieldsOf(entity) :
            \/ FieldKind(doc, g) \in {"foreignKey", "json"}
            \/ FieldKind(doc, g) = "scalar" /\ g.index # Absent } }

(* The relations, in the order of the document.                               *)
RelationOf(doc, entity, field) ==
    IF FieldKind(doc, field) = "foreignKey"
    THEN [ kind |-> "belongsTo", from |-> entity.name, to |-> field.type,
           foreignKey |-> ForeignKey(field.name), fieldName |-> Absent ]
    ELSE [ kind |-> IF field.list THEN "hasMany" ELSE "hasOne",
           from |-> entity.name, to |-> field.type,
           foreignKey |-> ForeignKey(field.derivedFrom), fieldName |-> field.name ]

RelationsOf(doc, entity) ==
    LET related == SelectSeq(entity.fields,
                             LAMBDA f : FieldKind(doc, f) \in {"foreignKey", "derived"})
    IN  [ i \in DOMAIN related |-> RelationOf(doc, entity, related[i]) ]

Relations(doc) ==
    FlattenSeq([ i \in DOMAIN doc.entities |-> RelationsOf(doc, doc.entities[i]) ])

(* Every field derived from another entity has to find its column there.      *)
RelationsValid(doc) ==
    \A r \in Range(Relations(doc)) :
        r.kind # "belongsTo" =>
            \E e \in Range(doc.entities) :
                /\ e.name = r.to
                /\ r.foreignKey \in { c.name : c \in Columns(doc, e) }

Accepted(doc) ==
    /\ \A e \in Range(doc.entities) : \A f \in FieldsOf(e) : FieldAccepted(doc, f)
    /\ RelationsValid(doc)

(* The interfaces the generator writes for the JSON types: all of them, used  *)
(* by an entity or not, and their fields are scalars or of a JSON type (for   *)
(* anything else there is no TypeScript type and the generator throws).       *)
InterfacesWritable(doc) ==
    \A j \in Range(doc.jsons) :
        /\ JsonDescribed(doc, j.name)
        /\ \A f \in FieldsOf(j) : f.type \in ScalarTypes \cup NamesOf(doc.jsons)

(* The class generated for an entity has one finder per indexed column that   *)
(* is not of a JSON type: one that returns a single entity when the index is  *)
(* unique, one that returns a list otherwise.                                 *)
Finders(doc, entity) ==
    { [ entity |-> entity.name, field |-> i.field, one |-> i.unique ] :
        i \in { x \in Indexes(doc, entity) :
                  \A c \in Columns(doc, entity) : c.name = x.field => c.type # "Json" } }
=============================================================================
