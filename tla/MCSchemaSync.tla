---------------------------- MODULE MCSchemaSync ----------------------------
(* Bounded instances of SchemaSync for TLC: versions of one project's schema. *)
EXTENDS SchemaSync

Plain(name, type) ==
    [ name |-> name, type |-> type, list |-> FALSE, nonNull |-> TRUE,
      derivedFrom |-> Absent, index |-> Absent ]
Indexed(name, type, index) == [ Plain(name, type) EXCEPT !.index = index ]
Derived(name, type, list, from) ==
    [ Plain(name, type) EXCEPT !.list = list, !.derivedFrom = from ]

Document(entities, jsons, enums) ==
    [ entities |-> entities, jsons |-> jsons, enums |-> enums, others |-> {"Either"} ]

Kinds(values) == <<[ name |-> "Kind", values |-> values ]>>

Title(fields) ==
    [ name |-> "Title", fields |-> <<Plain("id", "ID")>> \o fields ]
User(fields) ==
    [ name |-> "User", fields |-> <<Plain("id", "ID"), Plain("title", "Title")>> \o fields ]

\* one-to-many with its reverse field, an enum, an indexed name
First ==
    Document(<<User(<<Plain("kind", "Kind"), Indexed("name", "String", "plain")>>),
               Title(<<Plain("rank", "Int"), Derived("users", "User", TRUE, "title")>>)>>,
             <<>>, Kinds(<<"a", "b">>))

\* a value more in the enum, the name unique, a reverse field for one entity
Second ==
    Document(<<User(<<Plain("kind", "Kind"), Indexed("name", "String", "unique")>>),
               Title(<<Derived("user", "User", FALSE, "title")>>)>>,
             <<>>, Kinds(<<"a", "b", "c">>))

\* a JSON column and an entity whose name is not in camel case; no enum
Third ==
    Document(<<User(<<Plain("note", "Note"), Indexed("name", "String", "notUnique")>>),
               Title(<<>>),
               [ name |-> "spot_price", fields |->
                    <<Plain("id", "ID"), Indexed("amount", "BigInt", "plain")>> ]>>,
             <<[ name |-> "Note", fields |-> <<Plain("text", "String")>> ]>>, <<>>)

\* refused: a JSON type that contains itself
Knotted ==
    Document(<<User(<<Plain("note", "Note")>>), Title(<<>>)>>,
             <<[ name |-> "Note", fields |-> <<Plain("reply", "Note")>> ]>>, <<>>)

\* refused: a reverse field without its column, an index on the identifier,
\* one on an enum, a union
Unfounded ==
    Document(<<Title(<<Derived("users", "Title", TRUE, "owner")>>)>>, <<>>, <<>>)
OnIdentifier ==
    Document(<<[ name |-> "Title", fields |-> <<Indexed("id", "ID", "plain")>> ]>>, <<>>, <<>>)
OnEnum ==
    Document(<<Title(<<Indexed("kind", "Kind", "plain")>>)>>, <<>>, Kinds(<<"a">>))
OfUnion == Document(<<Title(<<Plain("either", "Either")>>)>>, <<>>, <<>>)

\* too many indexes; a unique index on a reference; references in a list
Crowded ==
    Document(<<User(<<Indexed("name", "String", "plain"), Indexed("age", "Int", "plain"),
                      Indexed("mail", "String", "unique")>>), Title(<<>>)>>, <<>>, <<>>)
UniqueReference ==
    Document(<<[ name |-> "User", fields |->
                    <<Plain("id", "ID"), Indexed("title", "Title", "unique")>> ],
               Title(<<>>)>>, <<>>, <<>>)
ListReference ==
    Document(<<[ name |-> "User", fields |->
                    <<Plain("id", "ID"), [ Plain("titles", "Title") EXCEPT !.list = TRUE ]>> ],
               Title(<<>>)>>, <<>>, <<>>)

MCDocuments ==
    [ v \in {"first", "second", "third", "knotted", "crowded",
            "uniqueReference", "listReference"} |->
        CASE v = "first"   -> First
          [] v = "second"  -> Second
          [] v = "third"   -> Third
          [] v = "knotted" -> Knotted
          [] v = "crowded" -> Crowded
          [] v = "listReference" -> ListReference
          [] OTHER         -> UniqueReference ]

\* what documents are refused, and which are not: evaluated once
ASSUME Refusals ==
    /\ \A d \in {Knotted, Unfounded, OnIdentifier, OnEnum, OfUnion} : ~Accepted(d)
    /\ \A d \in {First, Second, Third, Crowded, UniqueReference, ListReference} : Accepted(d)
    /\ ~InterfacesWritable(Knotted) /\ InterfacesWritable(Third)

NoTypes == [ e \in {} |-> <<>> ]
MCEarlierEnums == {NoTypes, [ e \in {"Kind"} |-> <<"a", "b">> ]}

MCNeighbours == {[ table |-> "Title", field |-> "rank", unique |-> TRUE, using |-> "btree" ]}

MCEntityForm(name) == IF name = "spot_price" THEN "SpotPrice" ELSE name
MCFieldForm(name) == name

ASSUME Forms == FormsDistinct
=============================================================================
