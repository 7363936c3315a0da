----------------------------- MODULE MmrService -----------------------------
(* The Merkle mountain range over the proof of index                         *)
(* (node/src/indexer/mmr.service.ts).  While the indexer inserts rows into     *)
(* the table _poi, a loop reads them in order of id, appends the hash of each  *)
(* to a file, with a default leaf for each block without a row, and stores the *)
(* root of the file up to that leaf in the row.  File and table are not        *)
(* written in one transaction, and the process may end between the two.        *)
(* The file is a sequence of leaves; a leaf is the id of its row, or           *)
(* DefaultLeaf; the root up to a leaf is as good as the leaves up to it.        *)
EXTENDS Integers, Sequences, FiniteSets

CONSTANTS
    BlockOffset,  \* metadata blockOffset: the first start block, less one
    PoiIds,       \* ids of the rows the indexer inserts, in ascending order
    FetchRange,   \* DEFAULT_FETCH_RANGE
    FileMayBeLost, \* the file may be gone when the process starts again
    MaxRestarts   \* bound: how often the process ends

ASSUME MmrAssumption ==
    /\ BlockOffset \in Nat
    /\ PoiIds \subseteq Nat /\ IsFiniteSet(PoiIds)
    /\ \A id \in PoiIds : id > BlockOffset
    /\ FetchRange \in Nat \ {0}
    /\ FileMayBeLost \in BOOLEAN
    /\ MaxRestarts \in Nat

VARIABLES
    inserted,       \* ids of the rows of _poi
    storedRoot,     \* mmrRoot of each row, NoRoot while it is null
    file,           \* the leaves of fileBasedMmr
    pc,             \* where syncFileBaseFromPoi awaits
    poiBlocks,      \* ids of the fetched rows not yet done, from the lowest on
    gap,            \* the variable of the loop that fills a gap
    mmrRoot,        \* the local of appendMmrNode; NoRoot is undefined
    nextMmrHeight,
    isShutdown,
    restarts

vars == <<inserted, storedRoot, file, pc, poiBlocks, gap, mmrRoot,
          nextMmrHeight, isShutdown, restarts>>

DefaultLeaf == 0
NoRoot == << >>   \* no root is without leaves

MinId(ids) == CHOOSE g \in ids : \A h \in ids : g <= h

\* Variant with a bug: the root before that leaf.
BugRootBefore(leafIndex) == SubSeq(file, 1, leafIndex)

\* getRoot(leafIndex): the root of the range as of that leaf.
RootAt(leafIndex) == SubSeq(file, 1, leafIndex + 1)

\* Variant with a bug: the offset is forgotten.
BugInitHeight(leaves) == Len(leaves)

\* nextMmrHeight as init() computes it.
InitHeight(leaves) == Len(leaves) + BlockOffset

Init ==
    /\ inserted = {}
    /\ storedRoot = [id \in PoiIds |-> NoRoot]
    /\ file = << >>
    /\ pc = "fetch"
    /\ poiBlocks = {}
    /\ gap = 0
    /\ mmrRoot = NoRoot
    /\ nextMmrHeight = InitHeight(file)
    /\ isShutdown = FALSE
    /\ restarts = 0

\* The indexer commits a block with operations.
PoiInserted ==
    /\ PoiIds \ inserted # {}
    /\ inserted' = inserted \cup {MinId(PoiIds \ inserted)}
    /\ UNCHANGED <<storedRoot, file, pc, poiBlocks, gap, mmrRoot,
                   nextMmrHeight, isShutdown, restarts>>

\* The process ends, by a crash or a shutdown or because the loop threw, and
\* is started again; ensureFileBasedMmr creates a file it does not find.
Restart ==
    /\ restarts < MaxRestarts
    /\ restarts' = restarts + 1
    /\ pc' = "fetch"
    /\ poiBlocks' = {}
    /\ gap' = 0
    /\ mmrRoot' = NoRoot
    /\ file' \in {file} \cup (IF FileMayBeLost THEN {<< >>} ELSE {})
    /\ nextMmrHeight' = InitHeight(file')
    /\ isShutdown' = FALSE
    /\ UNCHANGED <<inserted, storedRoot>>

OnApplicationShutdown ==
    /\ ~isShutdown
    /\ isShutdown' = TRUE
    /\ UNCHANGED <<inserted, storedRoot, file, pc, poiBlocks, gap, mmrRoot,
                   nextMmrHeight, restarts>>
-----------------------------------------------------------------------------
(* syncFileBaseFromPoi                                                      *)

\* Variant with a bug: the row at the start height is left out.
BugPoiBlocksAfter(startHeight) ==
    LET found == {id \in inserted : id > startHeight}
    IN  {id \in found : Cardinality({g \in found : g <= id}) <= FetchRange}

\* The first FetchRange rows from a height on.
PoiBlocksByRange(startHeight) ==
    LET found == {id \in inserted : id >= startHeight}
    IN  {id \in found : Cardinality({g \in found : g <= id}) <= FetchRange}

\* Where the loop body begins for a row: in the gap before it, if there is one
\* by nextMmrHeight + 1, or with the row itself.
Enter(blocks, height) ==
    /\ poiBlocks' = blocks
    /\ nextMmrHeight' = height
    /\ IF blocks = {}
       THEN pc' = "fetch" /\ gap' = 0
       ELSE IF height + 1 < MinId(blocks)
            THEN pc' = "gap" /\ gap' = height + 1
            ELSE pc' = "append" /\ gap' = 0

BlockInHand == MinId(poiBlocks)

FetchPoiBlocks ==
    /\ pc = "fetch"
    /\ ~isShutdown
    /\ PoiBlocksByRange(nextMmrHeight) # {}
    /\ Enter(PoiBlocksByRange(nextMmrHeight), nextMmrHeight)
    /\ UNCHANGED <<inserted, storedRoot, file, mmrRoot, isShutdown, restarts>>

AppendDefaultLeaf ==
    /\ pc = "gap"
    /\ file' = Append(file, DefaultLeaf)
    /\ nextMmrHeight' = gap + 1
    /\ IF gap + 1 < BlockInHand
       THEN gap' = gap + 1 /\ UNCHANGED pc
       ELSE gap' = 0 /\ pc' = "append"
    /\ UNCHANGED <<inserted, storedRoot, poiBlocks, mmrRoot, isShutdown, restarts>>

BlockLeafHeight(id) == id - BlockOffset - 1

\* appendMmrNode up to the root: append the leaf that comes next in the file,
\* read the root of a leaf already there, leave the root undefined beyond.
AppendLeaf ==
    /\ pc = "append"
    /\ BlockLeafHeight(BlockInHand) = Len(file)
    /\ file' = Append(file, BlockInHand)
    /\ mmrRoot' = Append(file, BlockInHand)
    /\ pc' = "save"
    /\ UNCHANGED <<inserted, storedRoot, poiBlocks, gap, nextMmrHeight,
                   isShutdown, restarts>>

ReadRoot ==
    /\ pc = "append"
    /\ BlockLeafHeight(BlockInHand) # Len(file)
    /\ mmrRoot' = IF BlockLeafHeight(BlockInHand) < Len(file)
                  THEN RootAt(BlockLeafHeight(BlockInHand)) ELSE NoRoot
    /\ pc' = "save"
    /\ UNCHANGED <<inserted, storedRoot, file, poiBlocks, gap, nextMmrHeight,
                   isShutdown, restarts>>

\* Variant with a bug: the stored root is not compared.
BugSameRoot(id) == TRUE

SameRoot(id) == storedRoot[id] \in {NoRoot, mmrRoot}

\* updatePoiMmrRoot and the end of appendMmrNode; on to the next row.
SaveRoot ==
    /\ pc = "save"
    /\ SameRoot(BlockInHand)
    /\ storedRoot' = [storedRoot EXCEPT ![BlockInHand] = mmrRoot]
    /\ mmrRoot' = NoRoot
    /\ Enter(poiBlocks \ {BlockInHand}, BlockInHand + 1)
    /\ UNCHANGED <<inserted, file, isShutdown, restarts>>

\* "not same as filebased mmr": the rejection ends the process.
RootMismatch ==
    /\ pc = "save"
    /\ ~SameRoot(BlockInHand)
    /\ pc' = "exited"
    /\ UNCHANGED <<inserted, storedRoot, file, poiBlocks, gap, mmrRoot,
                   nextMmrHeight, isShutdown, restarts>>

Sync == FetchPoiBlocks \/ AppendDefaultLeaf \/ AppendLeaf \/ ReadRoot \/ SaveRoot

Next ==
    \/ PoiInserted \/ Restart \/ OnApplicationShutdown
    \/ Sync \/ RootMismatch

Spec == Init /\ [][Next]_vars

(* The loop goes on after each await, and the indexer inserts its rows.       *)
Fairness == WF_vars(Sync) /\ WF_vars(PoiInserted)

FairSpec == Spec /\ Fairness
-----------------------------------------------------------------------------
(* Properties                                                               *)

Leaves == {DefaultLeaf} \cup PoiIds

\* Every variable has its type.
TypeOK ==
    /\ inserted \subseteq PoiIds
    /\ storedRoot \in [PoiIds -> Seq(Leaves)]
    /\ file \in Seq(Leaves)
    /\ pc \in {"fetch", "gap", "append", "save", "exited"}
    /\ poiBlocks \subseteq PoiIds
    /\ gap \in Nat
    /\ mmrRoot \in Seq(Leaves)
    /\ nextMmrHeight \in Nat
    /\ isShutdown \in BOOLEAN
    /\ restarts \in 0 .. MaxRestarts

\* The leaf a block is entitled to: its row's, or the default one.
LeafOf(id) == IF id \in PoiIds THEN id ELSE DefaultLeaf

\* No block without a row between the first row and this block.
NoGapUpTo(id) == \A k \in MinId(PoiIds) .. id : k \in PoiIds

\* Every leaf is in its block's place, wherever the process ended and started
\* again: the index of a leaf is the height of its block above the offset.  From
\* the first gap on the service counts wrong, one block too far at each gap.
LeavesInPlace ==
    \A k \in DOMAIN file :
        NoGapUpTo(BlockOffset + k) => file[k] = LeafOf(BlockOffset + k)

\* A stored root covers exactly the blocks up to its row, each in its place,
\* although leaf and root are written one after the other and read again after
\* a restart.
RootsRight ==
    \A id \in PoiIds : storedRoot[id] # NoRoot /\ NoGapUpTo(id) =>
        storedRoot[id] = [k \in 1 .. id - BlockOffset |-> LeafOf(BlockOffset + k)]

\* A root that a row has been given is never replaced, not even by those of a
\* file that was lost and built again in another shape.
RootsFinal ==
    [][\A id \in PoiIds :
           storedRoot[id] # NoRoot => storedRoot'[id] = storedRoot[id]]_vars

RootStored(id) == <>(storedRoot[id] # NoRoot \/ isShutdown \/ pc = "exited")

\* The rows up to the first gap get their roots, unless the node is shut down,
\* although a crash may leave a leaf without its root, or no file at all.
RootsStoredToFirstGap == \A id \in PoiIds : NoGapUpTo(id) => RootStored(id)
=============================================================================
