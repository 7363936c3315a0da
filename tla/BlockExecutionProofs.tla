------------------------ MODULE BlockExecutionProofs ------------------------
(* Type correctness of BlockExecution, and that it implements AtomicBlocks:   *)
(* any handlers, any number of blocks and of restarts.                        *)
EXTENDS BlockExecution, TLAPS

\* What each phase of a block can rely on.
PhaseInv ==
    /\ phase \in {"idle", "exited", "api"} =>
          /\ issued = 0 /\ answered = 0 /\ queue = <<>>
          /\ prevSpecVersion # 0 => currentRuntimeVersion = prevSpecVersion
    /\ phase \in {"idle", "exited"} => txState = "none"
    /\ phase \notin {"idle", "exited"} =>
          storeTx /\ height <= MaxHeight /\ currentBlockHash = height
    /\ phase = "api" =>
          txState = "open" /\ draft = entities /\ read = NothingRead /\ operationStack = <<>>
    /\ phase \in {"handlers", "poi"} =>
          txState \in {"open", "aborted"} /\ currentRuntimeVersion = Runtime[height]
    /\ phase = "poi" =>
          txState = "open" /\ queue = <<>> /\ answered = Len(Operations)
    /\ phase \in {"rollback", "rejected"} => txState = "finished"

\* The statements on their way are of one step, and were made of what is read now.
QueueInv ==
    /\ issued > 0 => issued <= Len(Operations)
    /\ \A k \in DOMAIN queue :
          /\ queue[k].inTx
          /\ queue[k].index \in 1 .. issued
          /\ queue[k].entity = Entity(read, Operations[queue[k].index].kind)
    /\ \A k, l \in DOMAIN queue :
          Operations[queue[k].index].step = Operations[queue[l].index].step

\* Nothing is read between blocks.
ReadOfBlock == phase \in {"idle", "exited"} => read = NothingRead

ExecutionInv == TypeOK /\ PhaseInv /\ QueueInv /\ ReadOfBlock

StatementType == [index : Nat, inTx : BOOLEAN, entity : EntityType]

----------------------------------------------------------------------------
(* Operations and what they do to typed tables                              *)

LEMMA OperationTyped ==
    ASSUME NEW h \in 1 .. MaxHeight, NEW i \in 1 .. Len(Program[h])
    PROVE  /\ Len(Program[h]) \in Nat /\ DOMAIN Program[h] = 1 .. Len(Program[h])
           /\ Program[h][i].kind \in {"A", "B"}
           /\ Program[h][i].ids \in Seq(Ids)
           /\ Program[h][i].operation = "get" => Program[h][i].ids[1] \in Ids
<1>1. Program[h] \in Seq(OperationType) /\ ReadsOneId(Program[h])
  BY ProgramAssumption
<1>2. /\ Len(Program[h]) \in Nat /\ DOMAIN Program[h] = 1 .. Len(Program[h])
      /\ Program[h][i] \in OperationType
  BY <1>1
<1>3. Program[h][i].operation = "get" => Len(Program[h][i].ids) = 1
  BY <1>1, <1>2 DEF ReadsOneId
<1>4. Program[h][i].kind \in {"A", "B"} /\ Program[h][i].ids \in Seq(Ids)
  BY <1>2 DEF OperationType
<1>5. Len(Program[h][i].ids) = 1 => Program[h][i].ids[1] \in Ids
  BY <1>4
<1> QED
  BY <1>2, <1>3, <1>4, <1>5

LEMMA LengthsAreNat ==
    ASSUME NEW h \in 1 .. MaxHeight
    PROVE  Len(Program[h]) \in Nat /\ DOMAIN Program[h] = 1 .. Len(Program[h])
<1>1. Program[h] \in Seq(OperationType)
  BY ProgramAssumption
<1> QED
  BY <1>1

LEMMA EntityTyped ==
    ASSUME NEW r \in [count : Nat, at : Nat \X Nat], NEW kind \in {"A", "B"}
    PROVE  Entity(r, kind) \in EntityType
  BY DEF Entity, EntityType

LEMMA ApplyTyped ==
    ASSUME NEW table \in [Ids -> {NoEntity} \cup EntityType], NEW e \in EntityType, NEW op
    PROVE  Apply(op, e, table) \in [Ids -> {NoEntity} \cup EntityType]
  BY DEF Apply

LEMMA ReadTyped ==
    ASSUME NEW table \in [Ids -> {NoEntity} \cup EntityType], NEW op,
           NEW r \in [count : Nat, at : Nat \X Nat],
           op.operation = "get" => op.ids[1] \in Ids,
           NEW at, op.operation = "query" => at \in Nat \X Nat
    PROVE  Read(op, r, table, at) \in [count : Nat, at : Nat \X Nat]
<1>1. CASE op.operation = "get"
  <2>1. table[op.ids[1]] \in {NoEntity} \cup EntityType
    BY <1>1
  <2>2. CountOf(table[op.ids[1]]) \in Nat
    BY <2>1 DEF CountOf, EntityType
  <2> QED
    BY <1>1, <2>2 DEF Read
<1>2. CASE op.operation = "query"
  BY <1>2 DEF Read
<1>3. CASE op.operation \notin {"get", "query"}
  BY <1>3 DEF Read
<1> QED
  BY <1>1, <1>2, <1>3

\* A read is alone in its step, so it is alone in the queue.
LEMMA ReadIsAlone ==
    ASSUME ExecutionInv, queue # <<>>,
           Operations[Head(queue).index].operation \in {"get", "query"}
    PROVE  Tail(queue) = <<>>
<1>1. height \in 1 .. MaxHeight
  BY DEF ExecutionInv, PhaseInv, TypeOK, height
<1>2. queue \in Seq(StatementType) /\ Len(queue) \in Nat \ {0}
      /\ Head(queue) = queue[1] /\ DOMAIN queue = 1 .. Len(queue)
  BY DEF ExecutionInv, TypeOK, StatementType
<1>3. ASSUME Len(queue) > 1 PROVE FALSE
  <2>1. 1 \in DOMAIN queue /\ 2 \in DOMAIN queue
    BY <1>2, <1>3
  <2>2. /\ queue[1].index = answered + 1 /\ queue[2].index = answered + 2
        /\ answered \in Nat
    BY <2>1 DEF ExecutionInv, TypeOK
  <2>3. issued <= Len(Program[height]) /\ issued \in Nat
        /\ queue[1].index \in 1 .. issued /\ queue[2].index \in 1 .. issued
    <3>1. queue[1].index \in 1 .. issued /\ queue[2].index \in 1 .. issued
      BY <2>1 DEF ExecutionInv, QueueInv, TypeOK
    <3>2. issued \in Nat /\ issued > 0
      BY <3>1 DEF ExecutionInv, TypeOK
    <3>3. issued <= Len(Program[height])
      BY <3>2 DEF ExecutionInv, QueueInv, Operations
    <3> QED
      BY <3>1, <3>2, <3>3
  <2>4. /\ queue[1].index \in DOMAIN Program[height]
        /\ queue[2].index \in DOMAIN Program[height]
    BY <1>1, <2>3, LengthsAreNat
  <2>5. Program[height][queue[1].index].step = Program[height][queue[2].index].step
    BY <2>1 DEF ExecutionInv, QueueInv, Operations
  <2>6. queue[1].index # queue[2].index
    BY <2>2
  <2>7. Program[height][queue[1].index].operation \notin {"get", "query"}
    <3>1. WellFormed(Program[height])
      BY <1>1, ProgramAssumption
    <3> QED
      BY <2>4, <2>5, <2>6, <3>1 DEF WellFormed
  <2> QED
    BY <1>2, <2>7 DEF Operations
<1> QED
  BY <1>2, <1>3

----------------------------------------------------------------------------
(* The invariant                                                            *)

LEMMA InitEstablishes == Init => ExecutionInv
<1> SUFFICES ASSUME Init PROVE ExecutionInv
  OBVIOUS
<1>1. TypeOK
  <2>1. entities \in [Ids -> {NoEntity} \cup EntityType] /\ draft = entities
    BY DEF Init
  <2>2. queue \in Seq([index : Nat, inTx : BOOLEAN, entity : EntityType])
        /\ \A k \in DOMAIN queue : queue[k].index = answered + k
    BY DEF Init
  <2>3. read \in [count : Nat, at : Nat \X Nat]
    BY DEF Init, NothingRead
  <2>4. MaxHeight \in Nat /\ MaxRestarts \in Nat
    BY ProgramAssumption
  <2>5. /\ lastProcessedHeight \in 0 .. MaxHeight /\ currentBlockHash \in 0 .. MaxHeight
        /\ restarts \in 0 .. MaxRestarts /\ issued \in Nat /\ answered \in 0 .. issued
        /\ currentRuntimeVersion \in Nat /\ prevSpecVersion \in Nat
    BY <2>4 DEF Init
  <2>6. DOMAIN poi \subseteq 1 .. lastProcessedHeight
    BY DEF Init
  <2>7. /\ txState \in {"none", "open", "aborted", "finished"}
        /\ phase \in {"idle", "api", "handlers", "poi", "rollback", "rejected", "exited"}
        /\ storeTx \in BOOLEAN /\ running \in BOOLEAN
    BY DEF Init
  <2> QED
    BY <2>1, <2>2, <2>3, <2>5, <2>6, <2>7 DEF TypeOK
<1>2. PhaseInv
  BY DEF Init, PhaseInv
<1>3. QueueInv
  BY DEF Init, QueueInv
<1>4. ReadOfBlock
  BY DEF Init, ReadOfBlock
<1> QED
  BY <1>1, <1>2, <1>3, <1>4 DEF ExecutionInv

LEMMA HeightBound ==
    ASSUME ExecutionInv, phase \notin {"idle", "exited"}
    PROVE  /\ height \in 1 .. MaxHeight /\ height = lastProcessedHeight + 1
           /\ Len(Operations) \in Nat /\ Operations = Program[height]
  BY LengthsAreNat, ProgramAssumption DEF ExecutionInv, PhaseInv, TypeOK, height, Operations

\* A statement leaves the queue from the front.
LEMMA PopKeeps ==
    ASSUME ExecutionInv, queue # <<>>, queue' = Tail(queue), answered' = answered + 1,
           UNCHANGED <<issued, stored>>,
           Tail(queue) # <<>> => read' = read
    PROVE  /\ answered' \in 0 .. issued' /\ issued' \in Nat
           /\ queue' \in Seq(StatementType)
           /\ \A k \in DOMAIN queue' : queue'[k].index = answered' + k
           /\ QueueInv'
<1>1. /\ queue \in Seq(StatementType) /\ answered \in Nat /\ issued \in Nat
      /\ Len(queue) \in Nat \ {0} /\ DOMAIN queue = 1 .. Len(queue)
  BY DEF ExecutionInv, TypeOK, StatementType
<1>2. /\ queue' \in Seq(StatementType) /\ DOMAIN queue' = 1 .. Len(queue) - 1
      /\ \A k \in 1 .. Len(queue) - 1 : queue'[k] = queue[k + 1] /\ k + 1 \in DOMAIN queue
  BY <1>1
<1>3. \A k \in DOMAIN queue : queue[k].index = answered + k
  BY DEF ExecutionInv, TypeOK
<1>4. \A k \in DOMAIN queue' : queue'[k].index = answered' + k
  <2> SUFFICES ASSUME NEW k \in 1 .. Len(queue) - 1 PROVE queue'[k].index = answered' + k
    BY <1>2
  <2>1. queue'[k].index = answered + (k + 1)
    BY <1>2, <1>3
  <2> QED
    BY <1>1, <2>1
<1>5. answered + 1 <= issued
  <2>1. 1 \in DOMAIN queue
    BY <1>1
  <2>2. queue[1].index \in 1 .. issued /\ queue[1].index = answered + 1
    BY <1>3, <2>1 DEF ExecutionInv, QueueInv
  <2> QED
    BY <1>1, <2>2
<1>6. Operations' = Operations
  BY DEF Operations, height, stored
<1>7. QueueInv'
  <2>1. issued' > 0 => issued' <= Len(Operations')
    BY <1>6 DEF ExecutionInv, QueueInv
  <2>2. \A k \in DOMAIN queue' :
            /\ queue'[k].inTx /\ queue'[k].index \in 1 .. issued'
            /\ queue'[k].entity = Entity(read', Operations'[queue'[k].index].kind)
    <3> SUFFICES ASSUME NEW k \in DOMAIN queue'
                 PROVE  /\ queue'[k].inTx /\ queue'[k].index \in 1 .. issued'
                        /\ queue'[k].entity = Entity(read', Operations'[queue'[k].index].kind)
      OBVIOUS
    <3>1. Tail(queue) # <<>>
      BY <1>2
    <3>2. queue'[k] = queue[k + 1] /\ k + 1 \in DOMAIN queue
      BY <1>2
    <3> QED
      BY <1>6, <3>1, <3>2 DEF ExecutionInv, QueueInv
  <2>3. \A k, l \in DOMAIN queue' :
            Operations'[queue'[k].index].step = Operations'[queue'[l].index].step
    BY <1>2, <1>6 DEF ExecutionInv, QueueInv
  <2> QED
    BY <2>1, <2>2, <2>3 DEF QueueInv
<1> QED
  BY <1>1, <1>2, <1>4, <1>5, <1>7

\* The queue, the handler and the tables are left alone.
LEMMA QueueInvStays ==
    ASSUME QueueInv, UNCHANGED <<queue, issued, read, stored>>
    PROVE  QueueInv'
<1>1. Operations' = Operations
  BY DEF Operations, height, stored
<1> QED
  BY <1>1 DEF QueueInv

LEMMA RollBackKeeps ==
    ASSUME ExecutionInv, phase \notin {"idle", "exited"}, RollBack,
           UNCHANGED <<stored, draft, queue, operationStack, api, handler, restarts>>
    PROVE  ExecutionInv'
<1>1. phase' = "rollback" /\ txState' = "finished" /\ storeTx' = TRUE
  BY DEF ExecutionInv, PhaseInv, RollBack, TransactionAfter
<1>2. height' = height /\ height <= MaxHeight /\ currentBlockHash = height
  BY DEF stored, height, ExecutionInv, PhaseInv
<1>3. TypeOK'
  BY <1>1 DEF ExecutionInv, TypeOK, stored, api, handler
<1>4. PhaseInv'
  BY <1>1, <1>2 DEF PhaseInv, api
<1>5. QueueInv'
  BY QueueInvStays DEF ExecutionInv, handler
<1>6. ReadOfBlock'
  BY <1>1 DEF ReadOfBlock
<1> QED
  BY <1>3, <1>4, <1>5, <1>6 DEF ExecutionInv

LEMMA BeginBlockKeeps ==
    ASSUME ExecutionInv, BeginBlock PROVE ExecutionInv'
<1>1. /\ phase = "idle" /\ phase' = "api" /\ txState' = "open" /\ draft' = entities
      /\ storeTx' = TRUE /\ operationStack' = <<>> /\ currentBlockHash' = height
      /\ height <= MaxHeight
      /\ UNCHANGED <<stored, queue, currentRuntimeVersion, prevSpecVersion, handler, restarts>>
  BY DEF BeginBlock
<1>2. issued = 0 /\ answered = 0 /\ queue = <<>> /\ height' = height
      /\ (prevSpecVersion # 0 => currentRuntimeVersion = prevSpecVersion)
  BY <1>1 DEF ExecutionInv, PhaseInv, stored, height
<1>3. height \in 0 .. MaxHeight
  BY <1>1, ProgramAssumption DEF ExecutionInv, TypeOK, height
<1>4. TypeOK'
  BY <1>1, <1>3 DEF ExecutionInv, TypeOK, stored, handler
<1>5. PhaseInv'
  <2>1. read = NothingRead
    BY <1>1 DEF ExecutionInv, ReadOfBlock
  <2> QED
    BY <1>1, <1>2, <2>1 DEF PhaseInv, handler, stored
<1>6. QueueInv'
  BY <1>1, QueueInvStays DEF ExecutionInv, handler
<1>7. ReadOfBlock'
  BY <1>1 DEF ReadOfBlock
<1> QED
  BY <1>4, <1>5, <1>6, <1>7 DEF ExecutionInv

LEMMA PatchedApiKeeps ==
    ASSUME ExecutionInv, PatchedApi PROVE ExecutionInv'
<1>1. /\ phase = "api" /\ phase' = "handlers"
      /\ UNCHANGED <<stored, transaction, storeTx, operationStack, currentBlockHash,
                     prevSpecVersion, handler, restarts>>
      /\ currentRuntimeVersion' = IF Runtime[height] # prevSpecVersion
                                  THEN Runtime[height] ELSE currentRuntimeVersion
  BY DEF PatchedApi
<1>2. height \in 1 .. MaxHeight /\ height' = height
  BY <1>1, HeightBound DEF stored, height
<1>3. Runtime[height] \in Nat \ {0}
  BY <1>2, ProgramAssumption
<1>4. currentRuntimeVersion' = Runtime[height]
  BY <1>1, <1>3 DEF ExecutionInv, PhaseInv
<1>5. TypeOK'
  BY <1>1, <1>3, <1>4 DEF ExecutionInv, TypeOK, stored, transaction, handler
<1>6. PhaseInv'
  BY <1>1, <1>2, <1>4 DEF ExecutionInv, PhaseInv, transaction, handler, stored
<1>7. QueueInv'
  BY <1>1, QueueInvStays DEF ExecutionInv, handler, transaction
<1>8. ReadOfBlock'
  BY <1>1 DEF ReadOfBlock
<1> QED
  BY <1>5, <1>6, <1>7, <1>8 DEF ExecutionInv

LEMMA IssueStepKeeps ==
    ASSUME ExecutionInv, IssueStep PROVE ExecutionInv'
<1>1. /\ phase \in {"handlers", "rollback", "rejected"} /\ answered = issued
      /\ issued < Len(Operations)
      /\ UNCHANGED <<stored, txState, draft, phase, storeTx, operationStack, api,
                     answered, read, restarts>>
  BY DEF IssueStep
<1>2. /\ height \in 1 .. MaxHeight /\ Len(Operations) \in Nat /\ Operations = Program[height]
      /\ Operations' = Operations /\ height' = height
  BY <1>1, HeightBound DEF stored, height, Operations
<1>3. ReadOfBlock'
  BY <1>1 DEF ReadOfBlock
<1>4. CASE Refused
  <2>1. running' = FALSE /\ UNCHANGED <<queue, issued>>
    BY <1>4 DEF IssueStep
  <2>2. TypeOK'
    BY <1>1, <2>1 DEF ExecutionInv, TypeOK, stored, api
  <2>3. PhaseInv'
    BY <1>1, <1>2, <2>1 DEF ExecutionInv, PhaseInv, stored, api
  <2>4. QueueInv'
    BY <1>1, <2>1, QueueInvStays DEF ExecutionInv
  <2> QED
    BY <1>3, <2>2, <2>3, <2>4 DEF ExecutionInv
<1>5. CASE ~Refused
  <2>1. PICK last \in issued + 1 .. Len(Operations) :
            /\ StepEndsAt(last)
            /\ queue' = queue \o Statements(last) /\ issued' = last /\ running' = TRUE
    BY <1>5 DEF IssueStep
  <2>2. queue = <<>>
    <3>1. queue \in Seq(StatementType) /\ DOMAIN queue = 1 .. Len(queue) /\ Len(queue) \in Nat
      BY DEF ExecutionInv, TypeOK, StatementType
    <3>2. ASSUME Len(queue) > 0 PROVE FALSE
      <4>1. 1 \in DOMAIN queue
        BY <3>1, <3>2
      <4>2. queue[1].index = answered + 1 /\ queue[1].index \in 1 .. issued
            /\ answered \in Nat /\ issued \in Nat
        BY <4>1 DEF ExecutionInv, TypeOK, QueueInv
      <4> QED
        BY <1>1, <4>2
    <3> QED
      BY <3>1, <3>2
  <2>3. issued \in Nat /\ last \in Nat /\ last - issued \in Nat /\ last <= Len(Operations)
        /\ last > issued
    BY <1>2, <2>1 DEF ExecutionInv, TypeOK
  <2>4. storeTx = TRUE
    BY <1>1 DEF ExecutionInv, PhaseInv
  <2>5. \A k \in 1 .. last - issued :
            /\ Statements(last)[k] = [index |-> issued + k, inTx |-> TRUE,
                                      entity |-> Entity(read, Operations[issued + k].kind)]
            /\ issued + k \in issued + 1 .. last
            /\ issued + k \in 1 .. Len(Operations)
            /\ Entity(read, Operations[issued + k].kind) \in EntityType
    <3> SUFFICES ASSUME NEW k \in 1 .. last - issued
                 PROVE  /\ Statements(last)[k] = [index |-> issued + k, inTx |-> TRUE,
                                          entity |-> Entity(read, Operations[issued + k].kind)]
                        /\ issued + k \in issued + 1 .. last
                        /\ issued + k \in 1 .. Len(Operations)
                        /\ Entity(read, Operations[issued + k].kind) \in EntityType
      OBVIOUS
    <3>1. issued + k \in issued + 1 .. last /\ issued + k \in 1 .. Len(Operations)
      BY <1>2, <2>3
    <3>2. Operations[issued + k].kind \in {"A", "B"}
      BY <1>2, <3>1, OperationTyped
    <3>3. read \in [count : Nat, at : Nat \X Nat]
      BY DEF ExecutionInv, TypeOK
    <3> QED
      BY <2>4, <3>1, <3>2, <3>3, EntityTyped DEF Statements
  <2>6. /\ DOMAIN Statements(last) = 1 .. last - issued
        /\ Statements(last) \in Seq(StatementType)
    <3>1. \A k \in 1 .. last - issued : Statements(last)[k] \in StatementType
      <4> SUFFICES ASSUME NEW k \in 1 .. last - issued
                   PROVE  Statements(last)[k] \in StatementType
        OBVIOUS
      <4>1. issued + k \in Nat
        BY <2>3
      <4>2. Entity(read, Operations[issued + k].kind) \in EntityType
        BY <2>5
      <4>3. Statements(last)[k] = [index |-> issued + k, inTx |-> TRUE,
                                   entity |-> Entity(read, Operations[issued + k].kind)]
        BY <2>5
      <4> HIDE DEF Statements, Entity, EntityType
      <4> QED
        BY <4>1, <4>2, <4>3 DEF StatementType
    <3>2. DOMAIN Statements(last) = 1 .. last - issued
      BY DEF Statements
    <3>3. Statements(last) = [k \in 1 .. last - issued |-> Statements(last)[k]]
      BY DEF Statements
    <3> QED
      BY <2>3, <3>1, <3>2, <3>3
  <2>7. queue' = Statements(last)
    BY <2>1, <2>2, <2>6
  <2>8. \A k \in DOMAIN queue' :
            /\ queue'[k].index = issued + k /\ queue'[k].inTx
            /\ queue'[k].entity = Entity(read, Operations[issued + k].kind)
            /\ issued + k \in issued + 1 .. last
    BY <2>5, <2>6, <2>7
  <2>9. TypeOK'
    <3>1. queue' \in Seq([index : Nat, inTx : BOOLEAN, entity : EntityType])
      BY <2>6, <2>7 DEF StatementType
    <3>2. \A k \in DOMAIN queue' : queue'[k].index = answered' + k
      BY <1>1, <2>8
    <3>3. issued' \in Nat /\ answered' \in 0 .. issued' /\ running' \in BOOLEAN
      BY <1>1, <2>1, <2>3
    <3> QED
      BY <1>1, <3>1, <3>2, <3>3 DEF ExecutionInv, TypeOK, stored, api
  <2>10. PhaseInv'
    BY <1>1, <1>2 DEF ExecutionInv, PhaseInv, stored, api
  <2>11. QueueInv'
    <3>1. \A k \in DOMAIN queue' :
              /\ queue'[k].inTx /\ queue'[k].index \in 1 .. issued'
              /\ queue'[k].entity = Entity(read', Operations'[queue'[k].index].kind)
      <4> SUFFICES ASSUME NEW k \in DOMAIN queue'
                   PROVE  /\ queue'[k].inTx /\ queue'[k].index \in 1 .. issued'
                          /\ queue'[k].entity
                                 = Entity(read', Operations'[queue'[k].index].kind)
        OBVIOUS
      <4>1. /\ queue'[k].index = issued + k /\ queue'[k].inTx
            /\ queue'[k].entity = Entity(read, Operations[issued + k].kind)
            /\ issued + k \in issued + 1 .. last
        BY <2>8
      <4>2. queue'[k].index \in 1 .. issued'
        BY <2>1, <2>3, <4>1
      <4>3. read' = read /\ Operations' = Operations
        BY <1>1, <1>2
      <4> QED
        BY <4>1, <4>2, <4>3
    <3>2. \A k, l \in DOMAIN queue' :
              Operations'[queue'[k].index].step = Operations'[queue'[l].index].step
      <4>1. \A i \in issued + 1 .. last : Operations[i].step = Operations[issued + 1].step
        BY <2>1 DEF StepEndsAt
      <4> QED
        BY <1>2, <2>8, <4>1
    <3>3. issued' <= Len(Operations')
      BY <1>2, <2>1, <2>3
    <3> QED
      BY <3>1, <3>2, <3>3 DEF QueueInv
  <2> QED
    BY <1>3, <2>9, <2>10, <2>11 DEF ExecutionInv
<1> QED
  BY <1>4, <1>5

\* A statement on its way is of a block that is being indexed.
LEMMA HeadOfQueue ==
    ASSUME ExecutionInv, queue # <<>>
    PROVE  /\ phase \in {"handlers", "rollback", "rejected"}
           /\ Head(queue).inTx /\ Head(queue).entity \in EntityType
           /\ Head(queue).index = answered + 1
           /\ Head(queue).index \in 1 .. Len(Operations)
           /\ Head(queue).entity = Entity(read, Operations[Head(queue).index].kind)
<1>1. phase \in {"handlers", "rollback", "rejected"}
  BY DEF ExecutionInv, TypeOK, PhaseInv
<1>2. queue \in Seq(StatementType) /\ Head(queue) = queue[1] /\ 1 \in DOMAIN queue
  BY DEF ExecutionInv, TypeOK, StatementType
<1>3. /\ queue[1].inTx /\ queue[1].index \in 1 .. issued /\ queue[1].index = answered + 1
      /\ queue[1].entity = Entity(read, Operations[queue[1].index].kind)
  BY <1>2 DEF ExecutionInv, QueueInv, TypeOK
<1>4. queue[1].entity \in EntityType
  <2>1. queue[1] \in StatementType
    BY <1>2
  <2> QED
    BY <2>1 DEF StatementType
<1>5. issued \in Nat /\ issued <= Len(Operations) /\ Len(Operations) \in Nat
  BY <1>1, <1>3, HeightBound DEF ExecutionInv, QueueInv, TypeOK
<1> QED
  BY <1>1, <1>2, <1>3, <1>4, <1>5

LEMMA StatementDoneKeeps ==
    ASSUME ExecutionInv, StatementDone PROVE ExecutionInv'
<1> DEFINE op == Operations[Head(queue).index]
<1> USE DEF AtDatabase
<1>1. /\ queue # <<>> /\ queue' = Tail(queue) /\ answered' = answered + 1
      /\ UNCHANGED <<lastProcessedHeight, poi, txState, phase, storeTx, api, issued, restarts>>
      /\ running' \in BOOLEAN
      /\ read' = Read(op, read, draft, <<>>)
      /\ op.operation # "query"
  <2>1. running' = (answered' < Len(Operations) /\ Operations[answered' + 1].call = op.call)
    BY DEF StatementDone, Answered
  <2>2. running' \in BOOLEAN
    BY <2>1, Zenon
  <2> QED
    BY <2>2 DEF StatementDone, Answered
<1>2. draft' = Apply(op, Head(queue).entity, draft) /\ UNCHANGED entities
  BY <1>1, HeadOfQueue DEF StatementDone
<1>3. height \in 1 .. MaxHeight /\ Operations = Program[height]
  BY <1>1, HeadOfQueue, HeightBound
<1>4. op.operation = "get" => op.ids[1] \in Ids
  <2>1. Head(queue).index \in 1 .. Len(Program[height])
    BY <1>1, <1>3, HeadOfQueue
  <2> QED
    BY <1>3, <2>1, OperationTyped
<1>5. /\ draft \in [Ids -> {NoEntity} \cup EntityType]
      /\ read \in [count : Nat, at : Nat \X Nat]
  BY DEF ExecutionInv, TypeOK
<1>6. draft' \in [Ids -> {NoEntity} \cup EntityType]
  <2>1. Head(queue).entity \in EntityType
    BY <1>1, HeadOfQueue
  <2> HIDE DEF op
  <2> QED
    BY <1>2, <1>5, <2>1, ApplyTyped
<1>7. read' \in [count : Nat, at : Nat \X Nat]
  <2> HIDE DEF op
  <2> QED
    BY <1>1, <1>4, <1>5, ReadTyped
<1>8. Tail(queue) # <<>> => read' = read
  <2>1. CASE op.operation = "get"
    BY <1>1, <2>1, ReadIsAlone
  <2>2. CASE op.operation # "get"
    BY <1>1, <2>2 DEF Read
  <2> QED
    BY <2>1, <2>2
<1>9. /\ answered' \in 0 .. issued' /\ issued' \in Nat
      /\ queue' \in Seq(StatementType)
      /\ \A k \in DOMAIN queue' : queue'[k].index = answered' + k
      /\ QueueInv'
  BY <1>1, <1>2, <1>8, PopKeeps DEF stored
<1>10. TypeOK'
  BY <1>1, <1>2, <1>6, <1>7, <1>9 DEF ExecutionInv, TypeOK, StatementType, api
<1>11. PhaseInv'
  <2>1. phase \in {"handlers", "rollback", "rejected"}
    BY <1>1, HeadOfQueue
  <2> QED
    BY <1>1, <2>1 DEF ExecutionInv, PhaseInv, api, height
<1>12. ReadOfBlock'
  BY <1>1, HeadOfQueue DEF ReadOfBlock
<1> QED
  BY <1>9, <1>10, <1>11, <1>12 DEF ExecutionInv

LEMMA StatementFailsKeeps ==
    ASSUME ExecutionInv, StatementFails PROVE ExecutionInv'
<1>1. /\ queue # <<>> /\ queue' = Tail(queue) /\ answered' = answered + 1
      /\ UNCHANGED <<stored, draft, operationStack, api, issued, read, restarts>>
  BY DEF StatementFails, AtDatabase
<1>2. /\ phase \in {"handlers", "rollback", "rejected"}
      /\ running \in BOOLEAN /\ storeTx = TRUE
  BY <1>1, HeadOfQueue DEF ExecutionInv, TypeOK, PhaseInv
<1>3. /\ phase' \in {phase, "rollback"} /\ storeTx' = storeTx /\ running' \in BOOLEAN
      /\ phase' = "rollback" => txState' = "finished" \/ txState' = txState
      /\ txState' \in {"open", "aborted", "finished", "none"}
      /\ phase' = "handlers" => txState' \in {"open", "aborted"}
      /\ phase' \in {"rollback", "rejected"} => txState' = "finished"
  <2>1. CASE /\ txState' = IF txState = "open" THEN "aborted" ELSE txState
             /\ running' = (running /\ answered' < Len(Operations)
                         /\ Operations[answered' + 1].call = Operations[answered'].call)
             /\ UNCHANGED <<phase, storeTx>>
    BY <1>2, <2>1 DEF ExecutionInv, TypeOK, PhaseInv
  <2>2. CASE phase = "handlers" /\ RollBack /\ running' = FALSE
    BY <1>2, <2>2 DEF RollBack, TransactionAfter
  <2> QED
    BY <2>1, <2>2 DEF StatementFails
<1>4. /\ answered' \in 0 .. issued' /\ issued' \in Nat
      /\ queue' \in Seq(StatementType)
      /\ \A k \in DOMAIN queue' : queue'[k].index = answered' + k
      /\ QueueInv'
  BY <1>1, PopKeeps
<1>5. TypeOK'
  <2>1. phase' \in {"idle", "api", "handlers", "poi", "rollback", "rejected", "exited"}
    BY <1>2, <1>3
  <2> QED
    BY <1>1, <1>2, <1>3, <1>4, <2>1 DEF ExecutionInv, TypeOK, StatementType, api, stored
<1>6. PhaseInv'
  <2>1. phase' \in {"handlers", "rollback", "rejected"}
    BY <1>2, <1>3
  <2>2. phase' = "handlers" => phase = "handlers"
    BY <1>3
  <2> QED
    BY <1>1, <1>2, <1>3, <2>1, <2>2 DEF ExecutionInv, PhaseInv, api, height, stored
<1>7. ReadOfBlock'
  BY <1>2, <1>3 DEF ReadOfBlock
<1> QED
  BY <1>4, <1>5, <1>6, <1>7 DEF ExecutionInv

LEMMA QueryAnsweredKeeps ==
    ASSUME ExecutionInv, QueryAnswered PROVE ExecutionInv'
<1> DEFINE op == Operations[Head(queue).index]
           at == <<currentBlockHash, currentRuntimeVersion>>
<1>1. /\ queue # <<>> /\ queue' = Tail(queue) /\ answered' = answered + 1
      /\ UNCHANGED <<stored, txState, draft, phase, storeTx, api, issued, restarts>>
      /\ running' \in BOOLEAN
      /\ read' = Read(op, read, draft, at)
      /\ op.operation = "query"
  <2>1. running' = (answered' < Len(Operations) /\ Operations[answered' + 1].call = op.call)
    BY DEF QueryAnswered, Answered
  <2>2. running' \in BOOLEAN
    BY <2>1, Zenon
  <2> QED
    BY <2>2 DEF QueryAnswered, Answered, AtDatabase
<1>2. read' \in [count : Nat, at : Nat \X Nat]
  <2>1. /\ draft \in [Ids -> {NoEntity} \cup EntityType]
        /\ read \in [count : Nat, at : Nat \X Nat] /\ at \in Nat \X Nat
    BY DEF ExecutionInv, TypeOK
  <2> HIDE DEF op, at
  <2> QED
    BY <1>1, <2>1, ReadTyped
<1>3. Tail(queue) # <<>> => read' = read
  BY <1>1, ReadIsAlone
<1>4. /\ answered' \in 0 .. issued' /\ issued' \in Nat
      /\ queue' \in Seq(StatementType)
      /\ \A k \in DOMAIN queue' : queue'[k].index = answered' + k
      /\ QueueInv'
  BY <1>1, <1>3, PopKeeps
<1>5. TypeOK'
  BY <1>1, <1>2, <1>4 DEF ExecutionInv, TypeOK, StatementType, api, stored
<1>6. phase \in {"handlers", "rollback", "rejected"}
  BY <1>1, HeadOfQueue
<1>7. PhaseInv'
  BY <1>1, <1>6 DEF ExecutionInv, PhaseInv, api, height, stored
<1>8. ReadOfBlock'
  BY <1>1, <1>6 DEF ReadOfBlock
<1> QED
  BY <1>4, <1>5, <1>7, <1>8 DEF ExecutionInv

\* The promise of a query that failed takes its whole step, itself, from the queue.
LEMMA QueryFailsKeeps ==
    ASSUME ExecutionInv, QueryFails PROVE ExecutionInv'
<1>1. /\ queue # <<>> /\ queue' = Tail(queue) /\ phase = "handlers" /\ RollBack
      /\ running' = FALSE /\ Operations[Head(queue).index].operation = "query"
      /\ UNCHANGED <<stored, draft, operationStack, api, issued, answered, read, restarts>>
  BY DEF QueryFails, AtDatabase
<1>2. queue' = <<>>
  BY <1>1, ReadIsAlone
<1>3. phase' = "rollback" /\ txState' = "finished" /\ storeTx' = TRUE
  BY <1>1 DEF ExecutionInv, PhaseInv, RollBack, TransactionAfter
<1>4. TypeOK'
  <2>1. queue' \in Seq([index : Nat, inTx : BOOLEAN, entity : EntityType])
        /\ \A k \in DOMAIN queue' : queue'[k].index = answered' + k
    BY <1>2
  <2> QED
    BY <1>1, <1>3, <2>1 DEF ExecutionInv, TypeOK, stored, api
<1>5. PhaseInv'
  BY <1>1, <1>3 DEF ExecutionInv, PhaseInv, api, height, stored
<1>6. QueueInv'
  BY <1>1, <1>2 DEF ExecutionInv, QueueInv, Operations, height, stored
<1>7. ReadOfBlock'
  BY <1>3 DEF ReadOfBlock
<1> QED
  BY <1>4, <1>5, <1>6, <1>7 DEF ExecutionInv

LEMMA UpsertMetadataKeeps ==
    ASSUME ExecutionInv, UpsertMetadata PROVE ExecutionInv'
<1>1. /\ phase = "handlers" /\ answered = Len(Operations) /\ queue = <<>>
      /\ UNCHANGED <<stored, draft, queue, operationStack, api, handler, restarts>>
  BY DEF UpsertMetadata
<1>2. CASE txState = "open" /\ phase' = "poi" /\ UNCHANGED <<txState, storeTx>>
  <2>1. TypeOK'
    BY <1>1, <1>2 DEF ExecutionInv, TypeOK, stored, api, handler
  <2>2. PhaseInv'
    BY <1>1, <1>2 DEF ExecutionInv, PhaseInv, api, height, stored, handler, Operations
  <2>3. QueueInv'
    BY <1>1, QueueInvStays DEF ExecutionInv, handler
  <2>4. ReadOfBlock'
    BY <1>2 DEF ReadOfBlock
  <2> QED
    BY <2>1, <2>2, <2>3, <2>4 DEF ExecutionInv
<1>3. CASE RollBack
  BY <1>1, <1>3, RollBackKeeps
<1> QED
  BY <1>2, <1>3 DEF UpsertMetadata

LEMMA CommitKeeps ==
    ASSUME ExecutionInv, Commit PROVE ExecutionInv'
<1>1. /\ phase = "poi" /\ phase' = "idle" /\ entities' = draft /\ draft' = entities'
      /\ poi' = PoiWithBlock /\ lastProcessedHeight' = height
      /\ txState' = "none" /\ queue' = <<>> /\ storeTx' = FALSE
      /\ prevSpecVersion' = Runtime[height]
      /\ issued' = 0 /\ answered' = 0 /\ running' = FALSE /\ read' = NothingRead
      /\ UNCHANGED <<operationStack, currentBlockHash, currentRuntimeVersion, restarts>>
  BY DEF Commit, TransactionAfter
<1>2. height \in 1 .. MaxHeight /\ height = lastProcessedHeight + 1
  BY <1>1, HeightBound
<1>3. Runtime[height] \in Nat
  BY <1>2, ProgramAssumption
<1>4. currentRuntimeVersion = Runtime[height]
  BY <1>1 DEF ExecutionInv, PhaseInv
<1>5. DOMAIN poi' \subseteq 1 .. lastProcessedHeight'
  <2>1. DOMAIN poi' \subseteq DOMAIN poi \cup {height}
    BY <1>1 DEF PoiWithBlock
  <2>2. DOMAIN poi \subseteq 1 .. lastProcessedHeight /\ lastProcessedHeight \in Nat
    BY DEF ExecutionInv, TypeOK
  <2> QED
    BY <1>1, <1>2, <2>1, <2>2
<1>6. TypeOK'
  <2>1. queue' \in Seq([index : Nat, inTx : BOOLEAN, entity : EntityType])
        /\ \A k \in DOMAIN queue' : queue'[k].index = answered' + k
    BY <1>1
  <2>2. entities' \in [Ids -> {NoEntity} \cup EntityType] /\ draft' = entities'
    BY <1>1 DEF ExecutionInv, TypeOK
  <2>3. /\ lastProcessedHeight' \in 0 .. MaxHeight /\ currentBlockHash' \in 0 .. MaxHeight
        /\ restarts' \in 0 .. MaxRestarts /\ issued' \in Nat /\ answered' \in 0 .. issued'
        /\ currentRuntimeVersion' \in Nat /\ prevSpecVersion' \in Nat
    BY <1>1, <1>2, <1>3 DEF ExecutionInv, TypeOK
  <2>4. read' \in [count : Nat, at : Nat \X Nat]
    BY <1>1 DEF NothingRead
  <2>5. /\ txState' \in {"none", "open", "aborted", "finished"}
        /\ phase' \in {"idle", "api", "handlers", "poi", "rollback", "rejected", "exited"}
        /\ storeTx' \in BOOLEAN /\ running' \in BOOLEAN
    BY <1>1
  <2> QED
    BY <1>5, <2>1, <2>2, <2>3, <2>4, <2>5 DEF TypeOK
<1>7. PhaseInv'
  BY <1>1, <1>4 DEF PhaseInv
<1>8. QueueInv' /\ ReadOfBlock'
  BY <1>1 DEF QueueInv, ReadOfBlock
<1> QED
  BY <1>6, <1>7, <1>8 DEF ExecutionInv

LEMMA RolledBackKeeps ==
    ASSUME ExecutionInv, RolledBack PROVE ExecutionInv'
<1>1. /\ phase = "rollback" /\ phase' = "rejected"
      /\ UNCHANGED <<stored, transaction, storeTx, operationStack, api, handler, restarts>>
  BY DEF RolledBack
<1>2. TypeOK'
  BY <1>1 DEF ExecutionInv, TypeOK, stored, transaction, api, handler
<1>3. PhaseInv'
  BY <1>1 DEF ExecutionInv, PhaseInv, api, height, stored, transaction
<1>4. QueueInv'
  BY <1>1, QueueInvStays DEF ExecutionInv, handler, transaction
<1>5. ReadOfBlock'
  BY <1>1 DEF ReadOfBlock
<1> QED
  BY <1>2, <1>3, <1>4, <1>5 DEF ExecutionInv

LEMMA ProcessGoneKeeps ==
    ASSUME ExecutionInv, ProcessGone PROVE ExecutionInv'
<1>1. /\ txState' = "none" /\ draft' = entities /\ queue' = <<>> /\ phase' = "exited"
      /\ storeTx' = FALSE /\ operationStack' = <<>>
      /\ currentBlockHash' = 0 /\ currentRuntimeVersion' = 0 /\ prevSpecVersion' = 0
      /\ issued' = 0 /\ answered' = 0 /\ running' = FALSE /\ read' = NothingRead
      /\ UNCHANGED <<entities, lastProcessedHeight, poi, restarts>>
  BY DEF ProcessGone, stored
<1>2. TypeOK'
  <2>1. queue' \in Seq([index : Nat, inTx : BOOLEAN, entity : EntityType])
        /\ \A k \in DOMAIN queue' : queue'[k].index = answered' + k
    BY <1>1
  <2>2. entities' \in [Ids -> {NoEntity} \cup EntityType] /\ draft' = entities'
    BY <1>1 DEF ExecutionInv, TypeOK
  <2>3. /\ lastProcessedHeight' \in 0 .. MaxHeight /\ currentBlockHash' \in 0 .. MaxHeight
        /\ restarts' \in 0 .. MaxRestarts /\ issued' \in Nat /\ answered' \in 0 .. issued'
        /\ currentRuntimeVersion' \in Nat /\ prevSpecVersion' \in Nat
        /\ DOMAIN poi' \subseteq 1 .. lastProcessedHeight'
    BY <1>1, ProgramAssumption DEF ExecutionInv, TypeOK
  <2>4. read' \in [count : Nat, at : Nat \X Nat]
    BY <1>1 DEF NothingRead
  <2>5. /\ txState' \in {"none", "open", "aborted", "finished"}
        /\ phase' \in {"idle", "api", "handlers", "poi", "rollback", "rejected", "exited"}
        /\ storeTx' \in BOOLEAN /\ running' \in BOOLEAN
    BY <1>1
  <2> QED
    BY <2>1, <2>2, <2>3, <2>4, <2>5 DEF TypeOK
<1>3. PhaseInv' /\ QueueInv' /\ ReadOfBlock'
  BY <1>1 DEF PhaseInv, QueueInv, ReadOfBlock
<1> QED
  BY <1>2, <1>3 DEF ExecutionInv

LEMMA RestartKeeps ==
    ASSUME ExecutionInv, Restart PROVE ExecutionInv'
<1>1. /\ phase = "exited" /\ phase' = "idle" /\ restarts < MaxRestarts
      /\ restarts' = restarts + 1
      /\ UNCHANGED <<stored, transaction, storeTx, operationStack, api, handler>>
  BY DEF Restart
<1>2. restarts' \in 0 .. MaxRestarts
  BY <1>1, ProgramAssumption DEF ExecutionInv, TypeOK
<1>3. TypeOK'
  BY <1>1, <1>2 DEF ExecutionInv, TypeOK, stored, transaction, api, handler
<1>4. PhaseInv'
  BY <1>1 DEF ExecutionInv, PhaseInv, api, handler, transaction
<1>5. QueueInv'
  BY <1>1, QueueInvStays DEF ExecutionInv, handler, transaction
<1>6. ReadOfBlock'
  BY <1>1 DEF ExecutionInv, ReadOfBlock, handler
<1> QED
  BY <1>3, <1>4, <1>5, <1>6 DEF ExecutionInv

LEMMA NextPreserves ==
    ASSUME ExecutionInv, [Next]_vars PROVE ExecutionInv'
<1>1. CASE BeginBlock
  BY <1>1, BeginBlockKeeps
<1>2. CASE PatchedApi
  BY <1>2, PatchedApiKeeps
<1>3. CASE ApiFails \/ UpsertFails \/ Timeout
  <2>1. /\ phase \notin {"idle", "exited"} /\ RollBack
        /\ UNCHANGED <<stored, draft, queue, operationStack, api, handler, restarts>>
    BY <1>3 DEF ApiFails, UpsertFails, Timeout
  <2> QED
    BY <2>1, RollBackKeeps
<1>4. CASE IssueStep
  BY <1>4, IssueStepKeeps
<1>5. CASE StatementDone \/ StatementFails
  BY <1>5, StatementDoneKeeps, StatementFailsKeeps
<1>6. CASE QueryAnswered \/ QueryFails
  BY <1>6, QueryAnsweredKeeps, QueryFailsKeeps
<1>7. CASE UpsertMetadata \/ Commit \/ RolledBack
  BY <1>7, UpsertMetadataKeeps, CommitKeeps, RolledBackKeeps
<1>8. CASE Exit \/ Crash
  BY <1>8, ProcessGoneKeeps DEF Exit, Crash
<1>9. CASE Restart
  BY <1>9, RestartKeeps
<1>10. CASE UNCHANGED vars
  <2>1. TypeOK' /\ PhaseInv' /\ ReadOfBlock'
    BY <1>10 DEF ExecutionInv, TypeOK, PhaseInv, ReadOfBlock, vars, stored, transaction,
                 api, handler, height, Operations
  <2>2. QueueInv'
    BY <1>10, QueueInvStays DEF ExecutionInv, vars, transaction, handler
  <2> QED
    BY <2>1, <2>2 DEF ExecutionInv
<1> QED
  BY <1>1, <1>2, <1>3, <1>4, <1>5, <1>6, <1>7, <1>8, <1>9, <1>10 DEF Next, Handle

LEMMA ExecutionInvariant == Spec => []ExecutionInv
  BY InitEstablishes, NextPreserves, PTL DEF Spec

\* Type correctness: the statements on their way are the operations after the last
\* answered one, whatever fails, times out or crashes.
THEOREM TypeCorrect == Spec => []TypeOK
<1>1. ExecutionInv => TypeOK
  BY DEF ExecutionInv
<1> QED
  BY <1>1, ExecutionInvariant, PTL

----------------------------------------------------------------------------
(* The refinement                                                           *)

\* What a step does to the variables of AtomicBlocks.
LEMMA AbstractStutter ==
    ASSUME UNCHANGED stored,
           (IF live THEN answered ELSE 0)' = IF live THEN answered ELSE 0,
           (IF live THEN draft ELSE entities)' = IF live THEN draft ELSE entities,
           (IF live THEN read ELSE NothingRead)' = IF live THEN read ELSE NothingRead,
           (IF live THEN operationStack ELSE <<>>)' = IF live THEN operationStack ELSE <<>>
    PROVE  UNCHANGED Abstract!vars
  BY DEF Abstract!vars, Abstract!stored, Abstract!blockVars, stored

\* A transaction that is over, or that a statement failed in, keeps nothing.
LEMMA AbstractAbandon ==
    ASSUME UNCHANGED stored, ~live'
    PROVE  Abstract!Abandon
  BY DEF Abstract!Abandon, Abstract!Clean, Abstract!stored, Abstract!NothingRead,
         stored, live, NothingRead

LEMMA InitRefines == Init => Abstract!Init
  BY DEF Init, live, Abstract!Init, Abstract!Clean, Abstract!NothingRead, NothingRead

\* A statement or a query answered while the transaction lives is an operation of
\* the block, taken in its turn.
LEMMA AnswerRefines ==
    ASSUME ExecutionInv, StatementDone \/ QueryAnswered, live
    PROVE  Abstract!Execute
<1> DEFINE op == Program[height][answered + 1]
           entity == Entity(read, op.kind)
<1>1. /\ queue # <<>> /\ answered' = answered + 1
      /\ UNCHANGED <<lastProcessedHeight, poi, txState, phase, storeTx, api, issued, restarts>>
  BY DEF StatementDone, QueryAnswered, Answered, AtDatabase, stored
<1>2. /\ Head(queue).index = answered + 1 /\ Head(queue).inTx
      /\ Head(queue).entity = entity /\ Operations[Head(queue).index] = op
      /\ answered + 1 \in 1 .. Len(Program[height])
      /\ phase \in {"handlers", "rollback", "rejected"}
  BY <1>1, HeadOfQueue DEF Operations
<1>3. /\ height \in 1 .. MaxHeight /\ Len(Program[height]) \in Nat /\ answered \in Nat
  BY <1>2, HeightBound DEF ExecutionInv, TypeOK
<1>4. phase = "handlers"
  BY <1>2 DEF live, ExecutionInv, PhaseInv
<1>5. <<currentBlockHash, currentRuntimeVersion>> = <<height, Runtime[height]>>
  BY <1>4 DEF ExecutionInv, PhaseInv
<1>6. live' /\ UNCHANGED entities
  BY <1>1, <1>2 DEF live, StatementDone, QueryAnswered, stored
<1>7. ~Violates(op, draft) /\ draft' = Apply(op, entity, draft)
  <2>1. CASE StatementDone
    BY <1>2, <2>1 DEF StatementDone
  <2>2. CASE QueryAnswered
    <3>1. op.operation = "query" /\ draft' = draft
      BY <1>2, <2>2 DEF QueryAnswered, AtDatabase
    <3> QED
      BY <3>1 DEF Violates, Apply
  <2> QED
    BY <2>1, <2>2
<1>8. read' = Read(op, read, draft, <<height, Runtime[height]>>)
  <2>1. CASE StatementDone
    <3>1. read' = Read(op, read, draft, <<>>) /\ op.operation # "query"
      BY <1>2, <2>1 DEF StatementDone, AtDatabase
    <3> QED
      BY <3>1 DEF Read
  <2>2. CASE QueryAnswered
    BY <1>2, <1>5, <2>2 DEF QueryAnswered
  <2> QED
    BY <2>1, <2>2
<1>9. operationStack' = operationStack \o Leaves(op, entity)
  BY <1>2 DEF StatementDone, QueryAnswered, Answered
<1>10. answered < Len(Program[height])
  BY <1>2, <1>3
<1>11. Abstract!height = height /\ UNCHANGED Abstract!stored
  BY <1>1, <1>6 DEF Abstract!height, height, Abstract!stored
<1>12. /\ (IF live THEN answered ELSE 0) = answered
       /\ (IF live THEN draft ELSE entities) = draft
       /\ (IF live THEN read ELSE NothingRead) = read
       /\ (IF live THEN operationStack ELSE <<>>) = operationStack
       /\ (IF live THEN answered ELSE 0)' = answered'
       /\ (IF live THEN draft ELSE entities)' = draft'
       /\ (IF live THEN read ELSE NothingRead)' = read'
       /\ (IF live THEN operationStack ELSE <<>>)' = operationStack'
  BY <1>6
<1>13. Abstract!Entity(read, op.kind) = entity
  BY DEF Abstract!Entity, Entity
<1>14. ~Abstract!Violates(op, draft)
  BY <1>7 DEF Abstract!Violates, Violates, Abstract!Written, Written
<1>15. draft' = Abstract!Apply(op, entity, draft)
  BY <1>7 DEF Abstract!Apply, Apply, Abstract!Written, Written
<1>16. read' = Abstract!Read(op, read, draft, <<height, Runtime[height]>>)
  BY <1>8 DEF Abstract!Read, Read, Abstract!CountOf, CountOf
<1>17. operationStack' = operationStack \o Abstract!Leaves(op, entity)
  BY <1>9 DEF Abstract!Leaves, Leaves, Abstract!Leaf, Leaf
<1>18. height <= MaxHeight
  BY <1>3
<1> QED
  BY <1>1, <1>10, <1>11, <1>12, <1>13, <1>14, <1>15, <1>16, <1>17, <1>18
     DEF Abstract!Execute

\* The commit moves the entities, the height and the proof of index together.
LEMMA CommitRefines ==
    ASSUME ExecutionInv, Commit
    PROVE  Abstract!Commit
<1>1. /\ phase = "poi" /\ entities' = draft /\ draft' = entities'
      /\ poi' = PoiWithBlock /\ lastProcessedHeight' = height
      /\ txState' = "none"
  BY DEF Commit
<1>2. live /\ ~live' /\ answered = Len(Program[height]) /\ height <= MaxHeight
  BY <1>1 DEF ExecutionInv, PhaseInv, live, Operations
<1>3. Abstract!Clean'
  BY <1>2 DEF Abstract!Clean, Abstract!NothingRead, NothingRead
<1>4. poi' = Abstract!ProofOfIndex(poi, height, operationStack)
  BY <1>1 DEF PoiWithBlock, Abstract!ProofOfIndex
<1> QED
  BY <1>1, <1>2, <1>3, <1>4 DEF Abstract!Commit, Abstract!height, height

LEMMA StepRefines ==
    ASSUME ExecutionInv, [Next]_vars
    PROVE  [Abstract!Next]_(Abstract!vars)
<1>1. CASE BeginBlock
  <2>1. ~live /\ live' /\ answered = 0 /\ read = NothingRead /\ draft' = entities
        /\ operationStack' = <<>> /\ UNCHANGED <<stored, answered, read>>
    BY <1>1 DEF BeginBlock, ExecutionInv, PhaseInv, ReadOfBlock, live, handler
  <2> QED
    BY <2>1, AbstractStutter DEF stored
<1>2. CASE PatchedApi \/ IssueStep \/ RolledBack \/ Restart
  <2>1. UNCHANGED <<stored, txState, draft, answered, read, operationStack>>
    BY <1>2 DEF PatchedApi, IssueStep, RolledBack, Restart, transaction, handler
  <2> QED
    BY <2>1, AbstractStutter DEF stored, live
<1>3. CASE ApiFails \/ UpsertFails \/ Timeout \/ QueryFails
  <2>1. UNCHANGED stored /\ ~live'
    BY <1>3 DEF ApiFails, UpsertFails, Timeout, QueryFails, RollBack, live
  <2> QED
    BY <2>1, AbstractAbandon DEF Abstract!Next
<1>4. CASE StatementDone \/ QueryAnswered
  <2>1. CASE live
    BY <1>4, <2>1, AnswerRefines DEF Abstract!Next
  <2>2. CASE ~live
    <3>1. queue # <<>>
      BY <1>4 DEF StatementDone, QueryAnswered, AtDatabase
    <3>2. UNCHANGED stored /\ ~live'
      BY <1>4, <2>2, <3>1, HeadOfQueue DEF StatementDone, QueryAnswered, live, stored
    <3> QED
      BY <3>2, AbstractAbandon DEF Abstract!Next
  <2> QED
    BY <2>1, <2>2
<1>5. CASE StatementFails
  <2>1. UNCHANGED stored /\ ~live'
    BY <1>5 DEF StatementFails, RollBack, live
  <2> QED
    BY <2>1, AbstractAbandon DEF Abstract!Next
<1>6. CASE UpsertMetadata
  <2>1. CASE RollBack
    <3>1. UNCHANGED stored /\ ~live'
      BY <1>6, <2>1 DEF UpsertMetadata, RollBack, live
    <3> QED
      BY <3>1, AbstractAbandon DEF Abstract!Next
  <2>2. CASE ~RollBack
    <3>1. UNCHANGED <<stored, txState, draft, answered, read, operationStack>>
      BY <1>6, <2>2 DEF UpsertMetadata, handler
    <3> QED
      BY <3>1, AbstractStutter DEF stored, live
  <2> QED
    BY <2>1, <2>2
<1>7. CASE Commit
  BY <1>7, CommitRefines DEF Abstract!Next
<1>8. CASE Exit \/ Crash
  <2>1. UNCHANGED stored /\ ~live'
    BY <1>8 DEF Exit, Crash, ProcessGone, live
  <2> QED
    BY <2>1, AbstractAbandon DEF Abstract!Next
<1>9. CASE UNCHANGED vars
  <2>1. UNCHANGED <<stored, txState, draft, answered, read, operationStack>>
    BY <1>9 DEF vars, transaction, handler
  <2> QED
    BY <2>1, AbstractStutter DEF stored, live
<1> QED
  BY <1>1, <1>2, <1>3, <1>4, <1>5, <1>6, <1>7, <1>8, <1>9 DEF Next, Handle

\* indexBlock with the store, the sandbox and the patched api implements the
\* indexing of whole blocks: the database moves from what one block leaves behind
\* to what the next one does, or not at all.
THEOREM ImplementsAtomicBlocks == Spec => BlocksAreAtomic
<1>1. Init => Abstract!Init
  BY InitRefines
<1>2. ExecutionInv /\ [Next]_vars => [Abstract!Next]_(Abstract!vars)
  BY StepRefines
<1> QED
  BY <1>1, <1>2, ExecutionInvariant, PTL DEF Spec, BlocksAreAtomic, Abstract!Spec
=============================================================================
