----------------------------- MODULE EntityStore -----------------------------
(* The operations of the store handed to the handlers (StoreService.getStore) *)
(* on the tables of a project, and the leaves StoreOperations makes of them.  *)
(* The tables are one function from ids to rows; hashes are injective.        *)
EXTENDS Naturals, Sequences, FiniteSets

CONSTANTS
    Ids,        \* the ids of the entities
    NoEntity

\* What the handlers of a block have read: a count in the store, and the block and
\* the runtime a query to the chain was answered at.
NothingRead == [count |-> 0, at |-> <<0, 0>>]

\* What they write: the count goes up by one; a field has the type of an enum.
Entity(read, kind) == [count |-> read.count + 1, at |-> read.at, kind |-> kind]

CountOf(entity) == IF entity = NoEntity THEN 0 ELSE entity.count

Written(op) == {op.ids[k] : k \in DOMAIN op.ids}

\* An insert of an id that is there violates the primary key.
Violates(op, entities) ==
    op.operation = "bulkCreate" /\ \E id \in Written(op) : entities[id] # NoEntity

\* set, bulkCreate, remove; a read leaves everything as it is.
Apply(op, entity, entities) ==
    IF op.operation \notin {"set", "bulkCreate", "remove"}
    THEN entities
    ELSE [id \in Ids |-> IF id \notin Written(op) THEN entities[id]
                         ELSE IF op.operation = "remove" THEN NoEntity ELSE entity]

\* What a handler knows after an operation; a query is answered at a block.
Read(op, read, entities, at) ==
    IF op.operation = "get"
    THEN [read EXCEPT !.count = CountOf(entities[op.ids[1]])]
    ELSE IF op.operation = "query" THEN [read EXCEPT !.at = at] ELSE read

\* operationEntityToUint8Array.  The hash of an enum is computed and not used.
Leaf(op, id, entity) ==
    IF op.operation = "remove"
    THEN [operation |-> "Remove", id |-> id, fields |-> <<>>]
    ELSE [operation |-> "Set", id |-> id, fields |-> <<entity.count, entity.at>>]

\* What the operation puts on the stack: one leaf for each item, none for a read.
Leaves(op, entity) ==
    IF op.operation \in {"set", "bulkCreate", "remove"}
    THEN [k \in DOMAIN op.ids |-> Leaf(op, op.ids[k], entity)]
    ELSE <<>>
=============================================================================
