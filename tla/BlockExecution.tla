--------------------------- MODULE BlockExecution ---------------------------
(* indexBlock from the inside: the handlers of a block in the sandbox, their  *)
(* reads and writes through the store, on the connection of the block's       *)
(* transaction, the api patched for the block, the stack of operations under  *)
(* the proof of index, the timer of each call, and the process that ends when *)
(* a block fails.  A handler the timer gave up on goes on running.            *)
(* Blocks arrive in order with the runtime they are executed with             *)
(* (FetchService); the process indexes with proof of index.                   *)
EXTENDS EntityStore

CONSTANTS
    MaxHeight,
    Program,        \* per block, the operations of its handlers in order: call
                    \* is the call they belong to, and operations of one step
                    \* are awaited together (Promise.all)
    Runtime,
    MaxRestarts     \* bound on the restarts of the process

OperationType ==
    [operation : {"get", "query", "set", "bulkCreate", "remove"},
     ids : Seq(Ids), kind : {"A", "B"}, call : Nat, step : Nat]

\* Steps follow each other, each within a call; reads are awaited before what is
\* made of them.
WellFormed(operations) ==
    \A i, j \in DOMAIN operations :
        /\ i < j => /\ operations[i].call <= operations[j].call
                    /\ operations[i].step <= operations[j].step
        /\ operations[i].step = operations[j].step /\ i # j =>
               /\ operations[i].call = operations[j].call
               /\ operations[i].operation \notin {"get", "query"}

ReadsOneId(operations) ==
    \A i \in DOMAIN operations :
        operations[i].operation = "get" => Len(operations[i].ids) = 1

ASSUME ProgramAssumption ==
    /\ MaxHeight \in Nat /\ MaxRestarts \in Nat
    /\ \A h \in 1 .. MaxHeight :
        /\ Runtime[h] \in Nat \ {0}
        /\ Program[h] \in Seq(OperationType)
        /\ WellFormed(Program[h]) /\ ReadsOneId(Program[h])

VARIABLES
    \* the database
    entities, lastProcessedHeight, poi,
    txState,        \* of the transaction of the block
    draft,          \* the entities as the transaction sees them
    queue,          \* statements on their way, in the order they were issued
    \* the process
    phase,
    storeTx,        \* StoreService.tx is defined
    operationStack,
    currentBlockHash, currentRuntimeVersion,    \* of ApiService; 0 for undefined
    prevSpecVersion,
    issued, answered,   \* how many operations of the block were
    running,            \* a handler has not returned
    read,
    restarts

stored == <<entities, lastProcessedHeight, poi>>
transaction == <<txState, draft, queue>>
api == <<currentBlockHash, currentRuntimeVersion, prevSpecVersion>>
handler == <<issued, answered, running, read>>
vars == <<stored, transaction, phase, storeTx, operationStack, api, handler, restarts>>

height == lastProcessedHeight + 1

Operations == Program[height]

----------------------------------------------------------------------------

Init ==
    /\ entities = [id \in Ids |-> NoEntity]
    /\ lastProcessedHeight = 0
    /\ poi = [h \in {} |-> <<>>]
    /\ txState = "none" /\ draft = entities /\ queue = <<>>
    /\ phase = "idle"
    /\ storeTx = FALSE
    /\ operationStack = <<>>
    /\ currentBlockHash = 0 /\ currentRuntimeVersion = 0 /\ prevSpecVersion = 0
    /\ issued = 0 /\ answered = 0 /\ running = FALSE /\ read = NothingRead
    /\ restarts = 0

\* A transaction, setTransaction, and getPatchedApi up to its first await.
BeginBlock ==
    /\ phase = "idle"
    /\ height <= MaxHeight
    /\ phase' = "api"
    /\ txState' = "open" /\ draft' = entities
    /\ storeTx' = TRUE
    /\ operationStack' = <<>>
    /\ currentBlockHash' = height
    /\ UNCHANGED <<stored, queue, currentRuntimeVersion, prevSpecVersion, handler, restarts>>

\* Only a block with another runtime than the one before asks for the runtime.
PatchedApi ==
    /\ phase = "api"
    /\ phase' = "handlers"
    /\ currentRuntimeVersion' = IF Runtime[height] # prevSpecVersion
                                THEN Runtime[height]
                                ELSE currentRuntimeVersion
    /\ UNCHANGED <<stored, transaction, storeTx, operationStack, currentBlockHash,
                   prevSpecVersion, handler, restarts>>

\* Variant with a bug: the store forgets a transaction that was rolled back, too.
BugTransactionAfter(end) == FALSE

\* setTransaction registers afterCommit only.
TransactionAfter(end) == storeTx /\ end # "commit"

\* The catch of indexBlock calls rollback: from then on sequelize takes no
\* statement for the transaction any more.
RollBack ==
    /\ phase' = "rollback"
    /\ txState' = "finished"
    /\ storeTx' = TransactionAfter("rollback")

ApiFails ==
    /\ phase = "api"
    /\ RollBack
    /\ UNCHANGED <<stored, draft, queue, operationStack, api, handler, restarts>>

----------------------------------------------------------------------------
(* The handlers                                                             *)

\* The operations after the last issued one, up to the next await.
StepEndsAt(last) ==
    /\ \A i \in issued + 1 .. last : Operations[i].step = Operations[issued + 1].step
    /\ last < Len(Operations) => Operations[last + 1].step # Operations[last].step

\* What comes next is in a call that is running.
SameCall ==
    issued > 0 /\ running /\ Operations[issued + 1].call = Operations[issued].call

Statements(last) ==
    [k \in 1 .. last - issued |->
        [index |-> issued + k, inTx |-> storeTx,
         entity |-> Entity(read, Operations[issued + k].kind)]]

\* sequelize takes no statement for a transaction that is finished.
Refused ==
    Operations[issued + 1].operation # "query" /\ storeTx /\ txState = "finished"

\* A statement is sent with StoreService.tx as it is now.
IssueStep ==
    /\ phase \in {"handlers", "rollback", "rejected"}
    /\ answered = issued /\ issued < Len(Operations)
    /\ phase = "handlers" \/ SameCall
    /\ IF Refused
       THEN running' = FALSE /\ UNCHANGED <<queue, issued>>
       ELSE \E last \in issued + 1 .. Len(Operations) :
                /\ StepEndsAt(last)
                /\ queue' = queue \o Statements(last)
                /\ issued' = last
                /\ running' = TRUE
    /\ UNCHANGED <<stored, txState, draft, phase, storeTx, operationStack, api,
                   answered, read, restarts>>

\* The head of the queue is a statement for the database.
AtDatabase == queue # <<>> /\ Operations[Head(queue).index].operation # "query"

Answered(statement) ==
    LET op == Operations[statement.index]
    IN  /\ answered' = answered + 1
        /\ running' = (answered' < Len(Operations) /\ Operations[answered' + 1].call = op.call)
        /\ operationStack' = operationStack \o Leaves(op, statement.entity)

\* The oldest statement is executed, and the handler told.
StatementDone ==
    /\ AtDatabase
    /\ LET statement == Head(queue)
           op == Operations[statement.index]
       IN  /\ ~Violates(op, IF statement.inTx THEN draft ELSE entities)
           /\ txState # "aborted" \/ ~statement.inTx
           /\ IF statement.inTx
              THEN draft' = Apply(op, statement.entity, draft) /\ UNCHANGED entities
              ELSE entities' = Apply(op, statement.entity, entities) /\ UNCHANGED draft
           /\ read' = Read(op, read, draft, <<>>)
           /\ Answered(statement)
    /\ queue' = Tail(queue)
    /\ UNCHANGED <<lastProcessedHeight, poi, txState, phase, storeTx, api, issued, restarts>>

\* A failed statement aborts its transaction in the database.  The handler may
\* catch the error; if not, indexBlock does.
StatementFails ==
    /\ AtDatabase
    /\ queue' = Tail(queue)
    /\ answered' = answered + 1
    /\ \/ /\ txState' = IF txState = "open" THEN "aborted" ELSE txState
          /\ running' = (running /\ answered' < Len(Operations)
                         /\ Operations[answered' + 1].call = Operations[answered'].call)
          /\ UNCHANGED <<phase, storeTx>>
       \/ /\ phase = "handlers"
          /\ RollBack
          /\ running' = FALSE
    /\ UNCHANGED <<stored, draft, operationStack, api, issued, read, restarts>>

\* api.rpc asks at the current block of ApiService.
QueryAnswered ==
    /\ queue # <<>> /\ ~AtDatabase
    /\ read' = Read(Operations[Head(queue).index], read, draft,
                    <<currentBlockHash, currentRuntimeVersion>>)
    /\ Answered(Head(queue))
    /\ queue' = Tail(queue)
    /\ UNCHANGED <<stored, txState, draft, phase, storeTx, api, issued, restarts>>

QueryFails ==
    /\ queue # <<>> /\ ~AtDatabase
    /\ phase = "handlers"
    /\ RollBack
    /\ running' = FALSE
    /\ queue' = Tail(queue)
    /\ UNCHANGED <<stored, draft, operationStack, api, issued, answered, read, restarts>>

\* Variant with a bug: the timer only runs while the database is at work.
BugDuringCall == AtDatabase

DuringCall == answered < issued

\* securedExec gives up; the promise it raced against does not know.
Timeout ==
    /\ phase = "handlers" /\ DuringCall
    /\ RollBack
    /\ UNCHANGED <<stored, draft, queue, operationStack, api, handler, restarts>>

----------------------------------------------------------------------------
(* The end of a block                                                       *)

\* The upsert of the height, the first statement after the handlers.
UpsertMetadata ==
    /\ phase = "handlers" /\ answered = Len(Operations) /\ queue = <<>>
    /\ IF txState = "open"
       THEN phase' = "poi" /\ UNCHANGED <<txState, storeTx>>
       ELSE RollBack
    /\ UNCHANGED <<stored, draft, queue, operationStack, api, handler, restarts>>

UpsertFails ==
    /\ phase \in {"handlers", "poi"} /\ answered = Len(Operations) /\ queue = <<>>
    /\ RollBack
    /\ UNCHANGED <<stored, draft, queue, operationStack, api, handler, restarts>>

\* The root of no operation is the null root, which is not stored.
PoiWithBlock ==
    IF operationStack = <<>>
    THEN poi
    ELSE [h \in DOMAIN poi \cup {height} |-> IF h = height THEN operationStack ELSE poi[h]]

\* The proof of index and the commit, after which nothing of the block is left.
Commit ==
    /\ phase = "poi"
    /\ entities' = draft
    /\ poi' = PoiWithBlock
    /\ lastProcessedHeight' = height
    /\ txState' = "none" /\ queue' = <<>> /\ draft' = entities'
    /\ storeTx' = TransactionAfter("commit")
    /\ prevSpecVersion' = Runtime[height]
    /\ issued' = 0 /\ answered' = 0 /\ running' = FALSE /\ read' = NothingRead
    /\ phase' = "idle"
    /\ UNCHANGED <<operationStack, currentBlockHash, currentRuntimeVersion, restarts>>

\* ROLLBACK waits its turn on the connection.
RolledBack ==
    /\ phase = "rollback" /\ ~AtDatabase
    /\ phase' = "rejected"
    /\ UNCHANGED <<stored, transaction, storeTx, operationStack, api, handler, restarts>>

ProcessGone ==
    /\ txState' = "none" /\ draft' = entities /\ queue' = <<>>
    /\ phase' = "exited"
    /\ storeTx' = FALSE
    /\ operationStack' = <<>>
    /\ currentBlockHash' = 0 /\ currentRuntimeVersion' = 0 /\ prevSpecVersion' = 0
    /\ issued' = 0 /\ answered' = 0 /\ running' = FALSE /\ read' = NothingRead
    /\ UNCHANGED <<stored, restarts>>

\* register ends the process on a failed block.
Exit == phase = "rejected" /\ ProcessGone

\* It may also end at any time; the database rolls back what was not committed.
Crash == phase \notin {"rejected", "exited"} /\ ProcessGone

Restart ==
    /\ phase = "exited" /\ restarts < MaxRestarts
    /\ phase' = "idle"
    /\ restarts' = restarts + 1
    /\ UNCHANGED <<stored, transaction, storeTx, operationStack, api, handler>>

Handle ==
    IssueStep \/ StatementDone \/ StatementFails \/ QueryAnswered \/ QueryFails \/ Timeout

Next ==
    \/ BeginBlock \/ PatchedApi \/ ApiFails \/ Handle
    \/ UpsertMetadata \/ UpsertFails \/ Commit \/ RolledBack \/ Exit \/ Crash \/ Restart

Spec == Init /\ [][Next]_vars

\* The database answers, timers fire, and a step of the process that is due is
\* taken; a query to the chain may never be answered.
Fairness ==
    /\ WF_vars(PatchedApi \/ ApiFails) /\ WF_vars(IssueStep)
    /\ WF_vars(StatementDone \/ StatementFails) /\ WF_vars(Timeout)
    /\ WF_vars(UpsertMetadata) /\ WF_vars(Commit) /\ WF_vars(RolledBack) /\ WF_vars(Exit)

FairSpec == Spec /\ Fairness

----------------------------------------------------------------------------
(* Properties                                                               *)

EntityType == [count : Nat, at : Nat \X Nat, kind : {"A", "B"}]

TypeOK ==
    /\ entities \in [Ids -> {NoEntity} \cup EntityType]
    /\ lastProcessedHeight \in 0 .. MaxHeight
    /\ DOMAIN poi \subseteq 1 .. lastProcessedHeight
    /\ txState \in {"none", "open", "aborted", "finished"}
    /\ draft \in [Ids -> {NoEntity} \cup EntityType]
    /\ queue \in Seq([index : Nat, inTx : BOOLEAN, entity : EntityType])
    /\ phase \in {"idle", "api", "handlers", "poi", "rollback", "rejected", "exited"}
    /\ storeTx \in BOOLEAN /\ running \in BOOLEAN
    /\ currentBlockHash \in 0 .. MaxHeight
    /\ currentRuntimeVersion \in Nat /\ prevSpecVersion \in Nat
    /\ issued \in Nat /\ answered \in 0 .. issued
    /\ read \in [count : Nat, at : Nat \X Nat]
    /\ \A k \in DOMAIN queue : queue[k].index = answered + k
    /\ restarts \in 0 .. MaxRestarts

\* A transaction with a failed statement in it, or that is to be rolled back, is
\* as good as none.
live == txState = "open"

Abstract == INSTANCE AtomicBlocks WITH
    done <- IF live THEN answered ELSE 0,
    draft <- IF live THEN draft ELSE entities,
    read <- IF live THEN read ELSE NothingRead,
    leaves <- IF live THEN operationStack ELSE <<>>

\* Whatever fails, hangs, is caught or crashes, the database only ever holds what
\* the operations of whole blocks leave behind, in order, each with its height and
\* a proof of index over exactly these operations (store.service.ts, indexBlock).
BlocksAreAtomic == Abstract!Spec

\* A block that was begun is over one day: a handler that never returns is given
\* up on (sandbox.service.ts, securedExec).
EveryBlockEnds == phase = "handlers" ~> phase \in {"idle", "exited"}
=============================================================================
