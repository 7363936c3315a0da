---------------------------- MODULE AtomicBlocks ----------------------------
(* What indexing a block promises whoever reads the database: the entities   *)
(* move from what one block left to what the next one leaves, the writes of  *)
(* the handlers taken one after the other in the order of the code, with the *)
(* height and the proof of index of the same block; or they do not move.     *)
EXTENDS EntityStore

CONSTANTS
    MaxHeight,
    Program,            \* the operations of the handlers in each block, in order
    Runtime             \* the runtime each block is executed with

VARIABLES
    entities,
    lastProcessedHeight,
    poi,                \* the leaves under the proof of index of each height
    done,               \* the operations of the next block taken so far,
    draft,              \* the entities after them,
    read,               \* what its handlers know by then,
    leaves              \* and what they put on the stack

stored == <<entities, lastProcessedHeight, poi>>
blockVars == <<done, draft, read, leaves>>
vars == <<stored, blockVars>>

height == lastProcessedHeight + 1

Clean == done = 0 /\ draft = entities /\ read = NothingRead /\ leaves = <<>>

Init ==
    /\ entities = [id \in Ids |-> NoEntity]
    /\ lastProcessedHeight = 0
    /\ poi = [h \in {} |-> <<>>]
    /\ Clean

Execute ==
    LET op == Program[height][done + 1]
        entity == Entity(read, op.kind)
    IN  /\ height <= MaxHeight
        /\ done < Len(Program[height])
        /\ ~Violates(op, draft)
        /\ done' = done + 1
        /\ draft' = Apply(op, entity, draft)
        /\ read' = Read(op, read, draft, <<height, Runtime[height]>>)
        /\ leaves' = leaves \o Leaves(op, entity)
        /\ UNCHANGED stored

\* A block without an operation that writes has no proof of index.
ProofOfIndex(proofs, h, blockLeaves) ==
    IF blockLeaves = <<>>
    THEN proofs
    ELSE [g \in DOMAIN proofs \cup {h} |-> IF g = h THEN blockLeaves ELSE proofs[g]]

Commit ==
    /\ height <= MaxHeight
    /\ done = Len(Program[height])
    /\ entities' = draft
    /\ lastProcessedHeight' = height
    /\ poi' = ProofOfIndex(poi, height, leaves)
    /\ Clean'

Abandon ==
    /\ UNCHANGED stored
    /\ Clean'

Next == Execute \/ Commit \/ Abandon

Spec == Init /\ [][Next]_vars
=============================================================================
