-------------------------- MODULE MmrServiceProofs --------------------------
(* Proofs about the service of the Merkle mountain range: for every set of   *)
(* rows, any number of restarts, and whether or not the file is lost in one. *)
EXTENDS MmrService, TLAPS, WellFoundedInduction, FiniteSetTheorems,
        SequenceTheorems

-----------------------------------------------------------------------------
(* The lowest of some ids, and the rows of a fetch                          *)

\* A set of heights has a lowest one.
LEMMA MinIdType ==
    ASSUME NEW ids \in SUBSET Nat, ids # {}
    PROVE  MinId(ids) \in ids /\ \A h \in ids : MinId(ids) <= h
<1>1. \E g \in ids : \A h \in ids : g <= h
  <2>1. PICK g \in ids : \A h \in ids : ~(<<h, g>> \in OpToRel(<, Nat))
    BY NatLessThanWellFounded, WFMin
  <2>2. \A h \in ids : h \in Nat /\ g \in Nat /\ ~(h < g)
    BY <2>1 DEF OpToRel
  <2> QED  BY <2>2
<1> QED  BY <1>1 DEF MinId

\* The first row is beyond the offset.
LEMMA FirstRow ==
    ASSUME PoiIds # {}
    PROVE  MinId(PoiIds) \in PoiIds /\ MinId(PoiIds) \in Nat /\ MinId(PoiIds) > BlockOffset
           /\ \A id \in PoiIds : id \in Nat /\ MinId(PoiIds) <= id
BY MinIdType, MmrAssumption DEF MmrAssumption

\* A fetch returns the rows from a height on up to one of them.
LEMMA RowsFetched ==
    ASSUME inserted \subseteq PoiIds, NEW height \in Nat
    PROVE  LET blocks == PoiBlocksByRange(height)
           IN  /\ blocks \subseteq inserted
               /\ \A b \in blocks : b >= height
               /\ \A b \in blocks, j \in inserted : height <= j /\ j < b => j \in blocks
<1> DEFINE found == {id \in inserted : id >= height}
           upTo(b) == {g \in found : g <= b}
<1>1. found \subseteq Nat /\ IsFiniteSet(found)
  BY FS_Subset, MmrAssumption DEF MmrAssumption
<1>2. PoiBlocksByRange(height) = {b \in found : Cardinality(upTo(b)) <= FetchRange}
  BY DEF PoiBlocksByRange
<1>3. ASSUME NEW b \in found, NEW j \in found, j < b,
             Cardinality(upTo(b)) <= FetchRange
      PROVE  Cardinality(upTo(j)) <= FetchRange
  <2>1. IsFiniteSet(upTo(b)) /\ upTo(j) \subseteq upTo(b)
    BY <1>1, <1>3, FS_Subset
  <2>2. /\ Cardinality(upTo(j)) <= Cardinality(upTo(b))
        /\ Cardinality(upTo(j)) \in Nat /\ Cardinality(upTo(b)) \in Nat
    BY <2>1, FS_Subset, FS_CardinalityType
  <2> QED  BY <1>3, <2>2, MmrAssumption DEF MmrAssumption
<1> HIDE DEF upTo
<1> QED  BY <1>1, <1>2, <1>3

\* Beyond a gap there is a gap.
LEMMA GapsStay ==
    ASSUME PoiIds # {}, NEW m \in Nat, NEW n \in Nat, m <= n, NoGapUpTo(n)
    PROVE  NoGapUpTo(m)
BY FirstRow DEF NoGapUpTo

\* A block between a row and a later block is itself a row, or makes a gap.
LEMMA RowOrGap ==
    ASSUME NEW id \in PoiIds, NEW n \in Nat, id <= n, NoGapUpTo(n)
    PROVE  n \in PoiIds
BY FirstRow DEF NoGapUpTo

\* The row in hand is one of the fetched rows, and the lowest.
LEMMA InHand ==
    ASSUME poiBlocks \subseteq PoiIds, poiBlocks # {}
    PROVE  /\ BlockInHand \in poiBlocks /\ BlockInHand \in PoiIds /\ PoiIds # {}
           /\ BlockInHand \in Nat /\ BlockInHand > BlockOffset
           /\ \A b \in poiBlocks : BlockInHand <= b
BY MinIdType, MmrAssumption DEF MmrAssumption, BlockInHand

-----------------------------------------------------------------------------
(* The inductive invariant                                                  *)

\* The rows come in ascending order.
Ascending == \A i \in inserted, j \in PoiIds : j < i => j \in inserted

\* A fetched batch leaves out no row between two of its rows.
Batch ==
    /\ poiBlocks \subseteq inserted
    /\ pc = "fetch" <=> poiBlocks = {}
    /\ \A b, c \in poiBlocks, j \in PoiIds : c < j /\ j < b => j \in poiBlocks

\* The block the next leaf of the file stands for.
NextBlock == BlockOffset + Len(file) + 1

\* The service knows where the next leaf belongs, until it comes to a gap.
Count ==
    \/ ~NoGapUpTo(NextBlock)
    \/ pc = "exited"
    \/ /\ pc = "fetch"
       /\ \/ nextMmrHeight = NextBlock - 1
          \/ nextMmrHeight = NextBlock /\ NextBlock - 1 \in PoiIds
    \/ /\ pc = "gap"
       /\ gap = NextBlock
       /\ \A j \in PoiIds : gap <= j => BlockInHand <= j
    \/ pc = "append" /\ BlockInHand \in {NextBlock, NextBlock - 1}
    \/ pc = "save" /\ BlockInHand = NextBlock - 1

GapInHand == pc = "gap" => gap < BlockInHand

\* The root that goes into the row in hand.
RootInHand ==
    pc = "save" /\ mmrRoot # NoRoot /\ NoGapUpTo(BlockInHand) =>
        mmrRoot = [k \in 1 .. BlockInHand - BlockOffset |-> LeafOf(BlockOffset + k)]

IInv ==
    /\ TypeOK /\ Ascending /\ Batch /\ GapInHand /\ Count
    /\ LeavesInPlace /\ RootInHand /\ RootsRight

-----------------------------------------------------------------------------
(* The first state, and the steps that touch neither batch nor file         *)

LEMMA IInvInit == Init => IInv
<1> SUFFICES ASSUME Init PROVE IInv
  OBVIOUS
<1>1. file = << >> /\ Len(file) = 0 /\ DOMAIN file = {} /\ << >> \in Seq(Leaves)
  BY DEF Init
<1>2. TypeOK
  <2>1. storedRoot \in [PoiIds -> Seq(Leaves)] /\ file \in Seq(Leaves) /\ mmrRoot \in Seq(Leaves)
    BY <1>1 DEF Init, NoRoot
  <2>2. nextMmrHeight \in Nat /\ restarts \in 0 .. MaxRestarts
    BY <1>1, MmrAssumption DEF MmrAssumption, Init, InitHeight
  <2> QED  BY <2>1, <2>2 DEF Init, TypeOK
<1>3. Ascending /\ Batch /\ GapInHand
  BY DEF Init, Ascending, Batch, GapInHand
<1>4. Count
  <2>1. nextMmrHeight = NextBlock - 1 /\ pc = "fetch"
    BY <1>1, MmrAssumption DEF MmrAssumption, Init, NextBlock, InitHeight
  <2> QED  BY <2>1 DEF Count
<1>5. LeavesInPlace /\ RootInHand /\ RootsRight
  BY <1>1 DEF Init, LeavesInPlace, RootInHand, RootsRight
<1> QED  BY <1>2, <1>3, <1>4, <1>5 DEF IInv

\* An empty file and an old one are both counted right.
LEMMA RestartStep ==
    ASSUME IInv, Restart
    PROVE  IInv'
<1> USE DEF IInv
<1>1. /\ file' \in Seq(Leaves)
      /\ file' = file \/ file' = << >>
      /\ Len(file') \in Nat
  <2>1. file' = file \/ file' = << >>
    BY DEF Restart
  <2>2. << >> \in Seq(Leaves) /\ file \in Seq(Leaves)
    BY DEF TypeOK
  <2>3. file' \in Seq(Leaves)
    BY <2>1, <2>2
  <2> QED  BY <2>1, <2>3
<1>2. TypeOK'
  <2>1. << >> \in Seq(Leaves)
    OBVIOUS
  <2>2. mmrRoot' \in Seq(Leaves) /\ file' \in Seq(Leaves)
    BY <1>1, <2>1 DEF Restart, NoRoot
  <2>3. nextMmrHeight' \in Nat /\ restarts' \in 0 .. MaxRestarts
    BY <1>1, MmrAssumption DEF MmrAssumption, Restart, TypeOK, InitHeight
  <2> QED  BY <2>2, <2>3 DEF Restart, TypeOK, Leaves
<1>3. Ascending' /\ Batch' /\ GapInHand'
  BY DEF Restart, Ascending, Batch, GapInHand
<1>4. Count'
  <2>1. nextMmrHeight' = NextBlock' - 1 /\ pc' = "fetch"
    BY <1>1, MmrAssumption DEF MmrAssumption, Restart, NextBlock, InitHeight
  <2> QED  BY <2>1 DEF Count
<1>5. LeavesInPlace'
  <2>1. CASE file' = file
    BY <2>1 DEF LeavesInPlace, NoGapUpTo, LeafOf
  <2>2. CASE file' = << >>
    <3>1. DOMAIN file' = {}
      BY <2>2
    <3> QED  BY <3>1 DEF LeavesInPlace
  <2> QED  BY <1>1, <2>1, <2>2
<1>6. RootInHand' /\ RootsRight'
  BY DEF Restart, RootInHand, RootsRight, NoGapUpTo, LeafOf
<1> QED  BY <1>2, <1>3, <1>4, <1>5, <1>6

LEMMA InsertStep ==
    ASSUME IInv, PoiInserted
    PROVE  IInv'
<1> USE DEF IInv
<1> DEFINE id == MinId(PoiIds \ inserted)
<1>1. /\ id \in PoiIds \ inserted
      /\ \A j \in PoiIds \ inserted : id <= j
  BY MinIdType, MmrAssumption DEF MmrAssumption, PoiInserted
<1>2. inserted' = inserted \cup {id}
  BY DEF PoiInserted
<1> HIDE DEF id
<1>3. TypeOK'
  BY <1>1, <1>2 DEF PoiInserted, TypeOK, Leaves
<1>4. Ascending'
  BY <1>1, <1>2, MmrAssumption DEF MmrAssumption, Ascending, TypeOK
<1>5. Batch' /\ GapInHand'
  BY <1>2 DEF PoiInserted, Batch, GapInHand, BlockInHand
<1>6. Count' /\ LeavesInPlace' /\ RootInHand' /\ RootsRight'
  BY DEF PoiInserted, Count, LeavesInPlace, RootInHand, RootsRight, BlockInHand, NextBlock,
         NoGapUpTo, LeafOf
<1> QED  BY <1>3, <1>4, <1>5, <1>6

LEMMA ShutdownStep ==
    ASSUME IInv, OnApplicationShutdown
    PROVE  IInv'
BY DEF IInv, OnApplicationShutdown, TypeOK, Leaves, Ascending, Batch, GapInHand, Count,
       LeavesInPlace, RootInHand, RootsRight, BlockInHand, NextBlock, NoGapUpTo, LeafOf

LEMMA MismatchStep ==
    ASSUME IInv, RootMismatch
    PROVE  IInv'
BY DEF IInv, RootMismatch, TypeOK, Leaves, Ascending, Batch, GapInHand, Count,
       LeavesInPlace, RootInHand, RootsRight, BlockInHand, NextBlock, NoGapUpTo, LeafOf

LEMMA StutterStep ==
    ASSUME IInv, UNCHANGED vars
    PROVE  IInv'
BY DEF IInv, vars, TypeOK, Leaves, Ascending, Batch, GapInHand, Count,
       LeavesInPlace, RootInHand, RootsRight, BlockInHand, NextBlock, NoGapUpTo, LeafOf

-----------------------------------------------------------------------------
(* The steps of the loop                                                    *)

\* The loop goes on with some of the rows, or for lack of rows fetches again.
LEMMA EnterType ==
    ASSUME NEW blocks, blocks \subseteq PoiIds, NEW height \in Nat, Enter(blocks, height)
    PROVE  /\ poiBlocks' \subseteq PoiIds /\ nextMmrHeight' \in Nat /\ gap' \in Nat
           /\ pc' \in {"fetch", "gap", "append"}
           /\ pc' = "fetch" <=> poiBlocks' = {}
           /\ pc' = "gap" => gap' < BlockInHand'
BY DEF Enter, BlockInHand

LEMMA FetchStep ==
    ASSUME IInv, FetchPoiBlocks
    PROVE  IInv'
<1> USE DEF IInv
<1> DEFINE blocks == PoiBlocksByRange(nextMmrHeight)
<1>1. /\ blocks \subseteq inserted /\ blocks # {}
      /\ \A b \in blocks : b >= nextMmrHeight
      /\ \A b \in blocks, j \in inserted : nextMmrHeight <= j /\ j < b => j \in blocks
  BY RowsFetched DEF FetchPoiBlocks, TypeOK
<1>2. Enter(blocks, nextMmrHeight) /\ pc = "fetch"
  BY DEF FetchPoiBlocks
<1>3. poiBlocks' = blocks /\ nextMmrHeight' = nextMmrHeight
  BY <1>2 DEF Enter
<1> HIDE DEF blocks
<1>4. inserted \subseteq PoiIds /\ nextMmrHeight \in Nat /\ PoiIds \subseteq Nat
  BY MmrAssumption DEF MmrAssumption, TypeOK
<1>5. /\ poiBlocks' \subseteq PoiIds /\ gap' \in Nat
      /\ pc' \in {"fetch", "gap", "append"}
      /\ pc' = "fetch" <=> poiBlocks' = {}
      /\ pc' = "gap" => gap' < BlockInHand'
  BY <1>1, <1>2, <1>4, EnterType
<1>6. TypeOK'
  BY <1>3, <1>5 DEF FetchPoiBlocks, TypeOK, Leaves
<1>7. Ascending' /\ GapInHand'
  BY <1>5 DEF FetchPoiBlocks, Ascending, GapInHand
<1>8. Batch'
  <2>1. \A b, c \in blocks, j \in PoiIds : c < j /\ j < b => j \in blocks
    BY <1>1, <1>4 DEF Ascending
  <2>2. inserted' = inserted
    BY DEF FetchPoiBlocks
  <2> QED  BY <1>1, <1>3, <1>5, <2>1, <2>2 DEF Batch
<1>9. Count'
  <2>1. NextBlock' = NextBlock /\ (NoGapUpTo(NextBlock))' = NoGapUpTo(NextBlock)
    BY DEF FetchPoiBlocks, NextBlock, NoGapUpTo
  <2>2. NextBlock \in Nat
    BY MmrAssumption DEF MmrAssumption, NextBlock, TypeOK
  <2>3. /\ MinId(blocks) \in blocks /\ MinId(blocks) \in Nat
        /\ MinId(blocks) >= nextMmrHeight
        /\ \A j \in inserted : nextMmrHeight <= j => MinId(blocks) <= j
    <3>1. blocks \in SUBSET Nat
      BY <1>1, <1>4
    <3>2. MinId(blocks) \in blocks /\ \A b \in blocks : MinId(blocks) <= b
      BY <1>1, <3>1, MinIdType
    <3>3. MinId(blocks) \in Nat /\ MinId(blocks) >= nextMmrHeight
      BY <1>1, <3>1, <3>2
    <3>4. ASSUME NEW j \in inserted, nextMmrHeight <= j PROVE MinId(blocks) <= j
      BY <1>1, <1>4, <3>2, <3>3, <3>4
    <3> QED  BY <3>2, <3>3, <3>4
  <2>4. \A j \in PoiIds : nextMmrHeight <= j => MinId(blocks) <= j
    <3> SUFFICES ASSUME NEW j \in PoiIds, nextMmrHeight <= j, ~(MinId(blocks) <= j)
                 PROVE  FALSE
      OBVIOUS
    <3>1. MinId(blocks) \in inserted /\ j < MinId(blocks)
      BY <1>1, <1>4, <2>3
    <3>2. j \in inserted
      BY <3>1 DEF Ascending
    <3> QED  BY <2>3, <3>2
  <2>5. BlockInHand' = MinId(blocks)
    BY <1>3 DEF BlockInHand
  <2>6. CASE ~NoGapUpTo(NextBlock)
    BY <2>1, <2>6 DEF Count
  <2>7. CASE nextMmrHeight = NextBlock - 1
    <3>1. CASE nextMmrHeight + 1 < MinId(blocks)
      <4>1. pc' = "gap" /\ gap' = nextMmrHeight + 1
        BY <1>1, <1>2, <3>1 DEF Enter
      <4>2. gap' = NextBlock'
        BY <2>1, <2>2, <2>7, <4>1
      <4>3. \A j \in PoiIds : gap' <= j => BlockInHand' <= j
        BY <1>4, <2>4, <2>5, <4>1
      <4> QED  BY <4>1, <4>2, <4>3 DEF Count
    <3>2. CASE ~(nextMmrHeight + 1 < MinId(blocks))
      <4>1. pc' = "append"
        BY <1>1, <1>2, <3>2 DEF Enter
      <4>2. BlockInHand' \in {NextBlock', NextBlock' - 1}
        BY <2>1, <2>2, <2>3, <2>5, <2>7, <3>2
      <4> QED  BY <4>1, <4>2 DEF Count
    <3> QED  BY <3>1, <3>2
  <2>8. CASE nextMmrHeight = NextBlock /\ NextBlock - 1 \in PoiIds /\ NoGapUpTo(NextBlock)
    <3>1. NextBlock \in PoiIds
      BY <2>2, <2>8, RowOrGap
    <3>2. MinId(blocks) = NextBlock
      BY <2>2, <2>3, <2>4, <2>8, <3>1
    <3>3. pc' = "append"
      BY <1>1, <1>2, <2>8, <2>2, <3>2 DEF Enter
    <3> QED  BY <2>1, <2>5, <3>2, <3>3 DEF Count
  <2> QED  BY <1>2, <2>6, <2>7, <2>8 DEF Count
<1>10. LeavesInPlace' /\ RootInHand' /\ RootsRight'
  BY <1>5 DEF FetchPoiBlocks, LeavesInPlace, RootInHand, RootsRight, NoGapUpTo, LeafOf
<1> QED  BY <1>6, <1>7, <1>8, <1>9, <1>10

\* A leaf that is the next block's, unless there is a gap, leaves all in place.
LEMMA LeafAppended ==
    ASSUME TypeOK, LeavesInPlace, PoiIds # {},
           NEW leaf \in Leaves, file' = Append(file, leaf),
           NoGapUpTo(NextBlock) => leaf = LeafOf(NextBlock)
    PROVE  /\ file' \in Seq(Leaves) /\ Len(file') = Len(file) + 1
           /\ NextBlock \in Nat /\ NextBlock' = NextBlock + 1
           /\ LeavesInPlace'
<1>1. /\ file \in Seq(Leaves) /\ file' \in Seq(Leaves)
      /\ Len(file) \in Nat /\ Len(file') = Len(file) + 1
      /\ \A k \in 1 .. Len(file) : file'[k] = file[k]
      /\ file'[Len(file) + 1] = leaf
  BY DEF TypeOK
<1>2. NextBlock \in Nat /\ NextBlock' = NextBlock + 1
  BY <1>1, MmrAssumption DEF MmrAssumption, NextBlock
<1>3. ASSUME NEW k \in DOMAIN file', NoGapUpTo(BlockOffset + k)
      PROVE  file'[k] = LeafOf(BlockOffset + k)
  <2>1. k \in 1 .. Len(file) + 1
    BY <1>1
  <2>2. CASE k = Len(file) + 1
    <3>1. BlockOffset + k = NextBlock
      BY <1>1, <2>2, MmrAssumption DEF MmrAssumption, NextBlock
    <3> QED  BY <1>1, <1>3, <2>2, <3>1
  <2>3. CASE k \in 1 .. Len(file)
    <3>1. k \in DOMAIN file
      BY <1>1, <2>3
    <3> QED  BY <1>1, <1>3, <2>3, <3>1 DEF LeavesInPlace
  <2> QED  BY <1>1, <2>1, <2>2, <2>3
<1>4. LeavesInPlace'
  BY <1>3 DEF LeavesInPlace, NoGapUpTo, LeafOf
<1> QED  BY <1>1, <1>2, <1>4

\* The first leaves of a file that are in place are the root of their last block.
LEMMA RootCovers ==
    ASSUME NEW leaves \in Seq(Leaves), NEW id \in PoiIds, NoGapUpTo(id),
           id - BlockOffset <= Len(leaves),
           \A k \in DOMAIN leaves :
               NoGapUpTo(BlockOffset + k) => leaves[k] = LeafOf(BlockOffset + k)
    PROVE  SubSeq(leaves, 1, id - BlockOffset) =
               [k \in 1 .. id - BlockOffset |-> LeafOf(BlockOffset + k)]
<1> DEFINE n == id - BlockOffset
<1>1. id \in Nat /\ BlockOffset \in Nat /\ n \in Nat /\ n >= 1 /\ Len(leaves) \in Nat
      /\ n <= Len(leaves)
  BY MmrAssumption DEF MmrAssumption
<1>2. ASSUME NEW k \in 1 .. n
      PROVE  leaves[k] = LeafOf(BlockOffset + k)
  <2>1. k \in DOMAIN leaves /\ BlockOffset + k \in Nat /\ BlockOffset + k <= id
    BY <1>1
  <2>2. NoGapUpTo(BlockOffset + k)
    BY <1>1, <2>1, GapsStay
  <2> QED  BY <2>1, <2>2
<1>3. SubSeq(leaves, 1, n) = [k \in 1 .. n |-> leaves[k]]
  BY <1>1
<1> QED  BY <1>2, <1>3

LEMMA AppendDefaultLeafStep ==
    ASSUME IInv, AppendDefaultLeaf
    PROVE  IInv'
<1> USE DEF IInv
<1>1. pc = "gap" /\ poiBlocks # {} /\ poiBlocks \subseteq PoiIds /\ gap < BlockInHand /\ gap \in Nat
  BY DEF AppendDefaultLeaf, Batch, GapInHand, TypeOK
<1>2. BlockInHand \in Nat /\ PoiIds # {} /\ BlockInHand' = BlockInHand
  BY <1>1, InHand DEF AppendDefaultLeaf, BlockInHand
<1>3. NoGapUpTo(NextBlock) => gap = NextBlock /\ NextBlock \notin PoiIds
  BY <1>1, <1>2 DEF Count
<1>4. /\ file' \in Seq(Leaves) /\ Len(file') = Len(file) + 1
      /\ NextBlock \in Nat /\ NextBlock' = NextBlock + 1
      /\ LeavesInPlace'
  <2>1. file' = Append(file, DefaultLeaf) /\ DefaultLeaf \in Leaves
    BY DEF AppendDefaultLeaf, Leaves
  <2>2. NoGapUpTo(NextBlock) => DefaultLeaf = LeafOf(NextBlock)
    BY <1>3 DEF LeafOf
  <2> QED  BY <1>2, <2>1, <2>2, LeafAppended
<1>5. TypeOK'
  <2>1. gap' \in Nat /\ nextMmrHeight' \in Nat /\ pc' \in {"gap", "append"}
    BY <1>1 DEF AppendDefaultLeaf
  <2> QED  BY <1>4, <2>1 DEF AppendDefaultLeaf, TypeOK, Leaves
<1>6. Ascending' /\ Batch' /\ GapInHand'
  <2>1. pc' \in {"gap", "append"} /\ pc' = "gap" => gap' < BlockInHand'
    BY <1>1, <1>2 DEF AppendDefaultLeaf
  <2> QED  BY <1>1, <2>1 DEF AppendDefaultLeaf, Ascending, Batch, GapInHand
<1>7. Count'
  <2>1. CASE ~NoGapUpTo(NextBlock)
    <3>1. ~NoGapUpTo(NextBlock + 1)
      BY <1>2, <1>4, <2>1, GapsStay
    <3>2. (~NoGapUpTo(NextBlock))'
      BY <1>4, <3>1 DEF NoGapUpTo
    <3> QED  BY <3>2 DEF Count
  <2>2. CASE NoGapUpTo(NextBlock)
    <3>1. gap = NextBlock /\ \A j \in PoiIds : gap <= j => BlockInHand <= j
      BY <1>1, <2>2 DEF Count
    <3>2. CASE gap + 1 < BlockInHand
      <4>1. pc' = "gap" /\ gap' = gap + 1 /\ gap' = NextBlock'
        BY <1>4, <3>1, <3>2 DEF AppendDefaultLeaf
      <4>2. \A j \in PoiIds : gap' <= j => BlockInHand' <= j
        BY <1>1, <1>2, <3>1, <4>1, MmrAssumption DEF MmrAssumption
      <4> QED  BY <4>1, <4>2 DEF Count
    <3>3. CASE ~(gap + 1 < BlockInHand)
      <4>1. pc' = "append" /\ BlockInHand' = NextBlock'
        BY <1>1, <1>2, <1>4, <3>1, <3>3 DEF AppendDefaultLeaf
      <4> QED  BY <4>1 DEF Count
    <3> QED  BY <3>2, <3>3
  <2> QED  BY <2>1, <2>2
<1>8. RootInHand' /\ RootsRight'
  <2>1. pc' \in {"gap", "append"}
    BY <1>1 DEF AppendDefaultLeaf
  <2> QED  BY <2>1 DEF AppendDefaultLeaf, RootInHand, RootsRight, NoGapUpTo, LeafOf
<1> QED  BY <1>4, <1>5, <1>6, <1>7, <1>8

LEMMA AppendLeafStep ==
    ASSUME IInv, AppendLeaf
    PROVE  IInv'
<1> USE DEF IInv
<1>1. pc = "append" /\ poiBlocks # {} /\ poiBlocks \subseteq PoiIds
  BY DEF AppendLeaf, Batch, TypeOK
<1>2. /\ BlockInHand \in Nat /\ BlockInHand \in PoiIds /\ PoiIds # {} /\ BlockInHand > BlockOffset
      /\ BlockInHand' = BlockInHand
  BY <1>1, InHand DEF AppendLeaf, BlockInHand
<1>3. BlockInHand = NextBlock
  BY <1>2, MmrAssumption DEF MmrAssumption, AppendLeaf, BlockLeafHeight, NextBlock, TypeOK
<1>4. /\ file' \in Seq(Leaves) /\ Len(file') = Len(file) + 1
      /\ NextBlock \in Nat /\ NextBlock' = NextBlock + 1
      /\ LeavesInPlace'
  <2>1. file' = Append(file, BlockInHand) /\ BlockInHand \in Leaves
    BY <1>2 DEF AppendLeaf, Leaves
  <2>2. BlockInHand = LeafOf(NextBlock)
    BY <1>2, <1>3 DEF LeafOf
  <2> QED  BY <1>2, <2>1, <2>2, LeafAppended
<1>5. mmrRoot' = file' /\ pc' = "save"
  BY DEF AppendLeaf
<1>6. TypeOK'
  BY <1>4, <1>5 DEF AppendLeaf, TypeOK, Leaves
<1>7. Ascending' /\ Batch' /\ GapInHand'
  BY <1>1, <1>5 DEF AppendLeaf, Ascending, Batch, GapInHand
<1>8. Count'
  BY <1>2, <1>3, <1>4, <1>5 DEF Count
<1>9. RootInHand'
  <2>1. ASSUME NoGapUpTo(BlockInHand)
        PROVE  file' = [k \in 1 .. BlockInHand - BlockOffset |-> LeafOf(BlockOffset + k)]
    <3>1. BlockInHand - BlockOffset = Len(file') /\ Len(file') \in Nat
      BY <1>2, <1>3, <1>4, MmrAssumption DEF MmrAssumption, NextBlock, TypeOK
    <3>2. \A k \in DOMAIN file' :
              NoGapUpTo(BlockOffset + k) => file'[k] = LeafOf(BlockOffset + k)
      BY <1>4 DEF LeavesInPlace, NoGapUpTo, LeafOf
    <3>3. SubSeq(file', 1, BlockInHand - BlockOffset) =
              [k \in 1 .. BlockInHand - BlockOffset |-> LeafOf(BlockOffset + k)]
      BY <1>2, <1>4, <2>1, <3>1, <3>2, RootCovers
    <3>4. SubSeq(file', 1, Len(file')) = file'
      BY <1>4
    <3> QED  BY <3>1, <3>3, <3>4
  <2> QED  BY <1>2, <1>5, <2>1 DEF RootInHand, NoGapUpTo, LeafOf
<1>10. RootsRight'
  BY DEF AppendLeaf, RootsRight, NoGapUpTo, LeafOf
<1> QED  BY <1>4, <1>6, <1>7, <1>8, <1>9, <1>10

LEMMA ReadRootStep ==
    ASSUME IInv, ReadRoot
    PROVE  IInv'
<1> USE DEF IInv
<1>1. /\ pc = "append" /\ pc' = "save" /\ poiBlocks # {} /\ poiBlocks \subseteq PoiIds
      /\ file \in Seq(Leaves) /\ Len(file) \in Nat
  BY DEF ReadRoot, Batch, TypeOK
<1>2. /\ BlockInHand \in Nat /\ BlockInHand \in PoiIds /\ PoiIds # {} /\ BlockInHand > BlockOffset
      /\ BlockInHand' = BlockInHand
  BY <1>1, InHand DEF ReadRoot, BlockInHand
<1>3. mmrRoot' = NoRoot
      \/ /\ BlockInHand - BlockOffset <= Len(file)
         /\ mmrRoot' = SubSeq(file, 1, BlockInHand - BlockOffset)
  BY <1>1, <1>2, MmrAssumption DEF MmrAssumption, ReadRoot, BlockLeafHeight, RootAt
<1>4. TypeOK'
  <2>1. mmrRoot' \in Seq(Leaves)
    <3>1. << >> \in Seq(Leaves)
      OBVIOUS
    <3>2. BlockInHand - BlockOffset <= Len(file) =>
              SubSeq(file, 1, BlockInHand - BlockOffset) \in Seq(Leaves)
      BY <1>1, <1>2, MmrAssumption DEF MmrAssumption
    <3> QED  BY <1>3, <3>1, <3>2 DEF NoRoot
  <2> QED  BY <1>1, <2>1 DEF ReadRoot, TypeOK, Leaves
<1>5. Ascending' /\ Batch' /\ GapInHand'
  BY <1>1 DEF ReadRoot, Ascending, Batch, GapInHand
<1>6. Count'
  <2>1. NextBlock' = NextBlock /\ (NoGapUpTo(NextBlock))' = NoGapUpTo(NextBlock)
    BY DEF ReadRoot, NextBlock, NoGapUpTo
  <2>2. BlockInHand # NextBlock
    BY <1>1, <1>2, MmrAssumption DEF MmrAssumption, ReadRoot, BlockLeafHeight, NextBlock
  <2>3. ~NoGapUpTo(NextBlock) \/ BlockInHand = NextBlock - 1
    BY <1>1, <2>2 DEF Count
  <2> QED  BY <1>1, <1>2, <2>1, <2>3 DEF Count
<1>7. RootInHand'
  <2>1. ASSUME NoGapUpTo(BlockInHand), BlockInHand - BlockOffset <= Len(file)
        PROVE  SubSeq(file, 1, BlockInHand - BlockOffset) =
                   [k \in 1 .. BlockInHand - BlockOffset |-> LeafOf(BlockOffset + k)]
    BY <1>1, <1>2, <2>1, RootCovers DEF LeavesInPlace
  <2> QED  BY <1>2, <1>3, <2>1 DEF RootInHand, NoGapUpTo, LeafOf
<1>8. LeavesInPlace' /\ RootsRight'
  BY DEF ReadRoot, LeavesInPlace, RootsRight, NoGapUpTo, LeafOf
<1> QED  BY <1>4, <1>5, <1>6, <1>7, <1>8

LEMMA SaveRootStep ==
    ASSUME IInv, SaveRoot
    PROVE  IInv'
<1> USE DEF IInv
<1> DEFINE blocks == poiBlocks \ {BlockInHand}
<1>1. /\ pc = "save" /\ poiBlocks # {} /\ poiBlocks \subseteq PoiIds
      /\ Enter(blocks, BlockInHand + 1)
  BY DEF SaveRoot, Batch, TypeOK
<1>2. /\ BlockInHand \in poiBlocks /\ BlockInHand \in Nat /\ BlockInHand \in PoiIds
      /\ PoiIds # {} /\ \A b \in poiBlocks : BlockInHand <= b
      /\ PoiIds \subseteq Nat
  BY <1>1, InHand, MmrAssumption DEF MmrAssumption
<1>3. /\ poiBlocks' = blocks /\ nextMmrHeight' = BlockInHand + 1
      /\ poiBlocks' \subseteq PoiIds /\ gap' \in Nat /\ nextMmrHeight' \in Nat
      /\ pc' \in {"fetch", "gap", "append"}
      /\ pc' = "fetch" <=> poiBlocks' = {}
      /\ pc' = "gap" => gap' < BlockInHand'
  <2>1. blocks \subseteq PoiIds /\ BlockInHand + 1 \in Nat
    BY <1>1, <1>2
  <2>2. poiBlocks' = blocks /\ nextMmrHeight' = BlockInHand + 1
    BY <1>1 DEF Enter
  <2> HIDE DEF blocks
  <2> QED  BY <1>1, <2>1, <2>2, EnterType
<1>4. TypeOK'
  <2>1. storedRoot' \in [PoiIds -> Seq(Leaves)]
    BY DEF SaveRoot, TypeOK
  <2>2. mmrRoot' \in Seq(Leaves)
    BY DEF SaveRoot, NoRoot
  <2> QED  BY <1>3, <2>1, <2>2 DEF SaveRoot, TypeOK, Leaves
<1>5. Ascending' /\ GapInHand'
  BY <1>3 DEF SaveRoot, Ascending, GapInHand
<1>6. Batch'
  <2>1. \A b, c \in blocks, j \in PoiIds : c < j /\ j < b => j \in blocks
    BY <1>1, <1>2 DEF Batch
  <2>2. blocks \subseteq inserted' /\ (pc' = "fetch" <=> poiBlocks' = {})
    BY <1>3 DEF SaveRoot, Batch
  <2> QED  BY <1>3, <2>1, <2>2 DEF Batch
<1>7. Count'
  <2>1. NextBlock' = NextBlock /\ NextBlock \in Nat
        /\ (NoGapUpTo(NextBlock))' = NoGapUpTo(NextBlock)
    BY MmrAssumption DEF MmrAssumption, SaveRoot, NextBlock, NoGapUpTo, TypeOK
  <2>2. CASE ~NoGapUpTo(NextBlock)
    BY <2>1, <2>2 DEF Count
  <2>3. CASE NoGapUpTo(NextBlock)
    <3>1. BlockInHand = NextBlock - 1
      BY <1>1, <2>3 DEF Count
    <3>2. NextBlock \in PoiIds
      BY <1>2, <2>1, <2>3, <3>1, RowOrGap
    <3>3. CASE blocks = {}
      <4>1. pc' = "fetch" /\ nextMmrHeight' = NextBlock' /\ NextBlock' - 1 \in PoiIds
        BY <1>2, <1>3, <2>1, <3>1, <3>3
      <4> QED  BY <4>1 DEF Count
    <3>4. CASE blocks # {}
      <4>1. MinId(blocks) \in blocks /\ MinId(blocks) \in Nat /\ MinId(blocks) > BlockInHand
            /\ \A b \in blocks : MinId(blocks) <= b
        <5>1. blocks \in SUBSET Nat
          BY <1>1, <1>2
        <5>2. MinId(blocks) \in blocks /\ \A b \in blocks : MinId(blocks) <= b
          BY <3>4, <5>1, MinIdType
        <5>3. MinId(blocks) \in Nat /\ MinId(blocks) \in poiBlocks /\ MinId(blocks) # BlockInHand
          BY <5>1, <5>2
        <5>4. MinId(blocks) > BlockInHand
          BY <1>2, <5>3
        <5> QED  BY <5>2, <5>3, <5>4
      <4>2. MinId(blocks) = NextBlock
        <5>1. CASE NextBlock < MinId(blocks)
          <6>1. NextBlock \in poiBlocks
            BY <1>2, <2>1, <3>1, <3>2, <4>1, <5>1 DEF Batch
          <6> QED  BY <1>2, <2>1, <3>1, <4>1, <5>1, <6>1
        <5> QED  BY <1>2, <2>1, <3>1, <4>1, <5>1
      <4>3. pc' = "append" /\ BlockInHand' = NextBlock'
        <5>1. BlockInHand' = MinId(blocks)
          BY <1>3 DEF BlockInHand
        <5>2. ~(BlockInHand + 1 + 1 < MinId(blocks))
          BY <1>2, <2>1, <3>1, <4>2
        <5>3. pc' = "append"
          BY <1>1, <3>4, <5>2 DEF Enter
        <5> QED  BY <2>1, <4>2, <5>1, <5>3
      <4> QED  BY <4>3 DEF Count
    <3> QED  BY <3>3, <3>4
  <2> QED  BY <2>2, <2>3
<1>8. RootInHand' /\ LeavesInPlace'
  BY <1>3 DEF SaveRoot, RootInHand, LeavesInPlace, NoGapUpTo, LeafOf
<1>9. RootsRight'
  <2> SUFFICES ASSUME NEW id \in PoiIds, storedRoot'[id] # NoRoot, NoGapUpTo(id)
               PROVE  storedRoot'[id] = [k \in 1 .. id - BlockOffset |-> LeafOf(BlockOffset + k)]
    BY DEF RootsRight, NoGapUpTo, LeafOf
  <2>1. storedRoot' = [storedRoot EXCEPT ![BlockInHand] = mmrRoot]
        /\ storedRoot \in [PoiIds -> Seq(Leaves)]
    BY DEF SaveRoot, TypeOK
  <2>2. CASE id = BlockInHand
    <3>1. storedRoot'[id] = mmrRoot
      BY <2>1, <2>2
    <3> QED  BY <1>1, <2>2, <3>1 DEF RootInHand
  <2>3. CASE id # BlockInHand
    BY <2>1, <2>3 DEF RootsRight
  <2> QED  BY <2>2, <2>3
<1> QED  BY <1>4, <1>5, <1>6, <1>7, <1>8, <1>9

-----------------------------------------------------------------------------
(* The theorems                                                             *)

LEMMA IInvStep == IInv /\ [Next]_vars => IInv'
BY InsertStep, RestartStep, ShutdownStep, FetchStep, AppendDefaultLeafStep, AppendLeafStep,
   ReadRootStep, SaveRootStep, MismatchStep, StutterStep
DEF Next, Sync

\* The inductive invariant holds from the first start on.
THEOREM Invariant == Spec => []IInv
BY IInvInit, IInvStep, PTL DEF Spec

\* Every variable keeps its type.
THEOREM TypeCorrect == Spec => []TypeOK
<1>1. IInv => TypeOK
  BY DEF IInv
<1> QED  BY <1>1, Invariant, PTL

\* Every leaf is in its block's place up to the first gap, for any rows, any size
\* of a fetch and any number of restarts (syncFileBaseFromPoi).
THEOREM LeavesAreInPlace == Spec => []LeavesInPlace
<1>1. IInv => LeavesInPlace
  BY DEF IInv
<1> QED  BY <1>1, Invariant, PTL

\* A stored root covers exactly the blocks up to its row, each in its place
\* (appendMmrNode, updatePoiMmrRoot).
THEOREM StoredRootsAreRight == Spec => []RootsRight
<1>1. IInv => RootsRight
  BY DEF IInv
<1> QED  BY <1>1, Invariant, PTL

\* A stored root is never replaced, not even after the file is lost
\* (updatePoiMmrRoot compares).
THEOREM RootsAreFinal == Spec => RootsFinal
<1> DEFINE Final == \A id \in PoiIds :
                        storedRoot[id] # NoRoot => storedRoot'[id] = storedRoot[id]
<1>1. ASSUME TypeOK, [Next]_vars
      PROVE  Final
  <2>1. CASE SaveRoot
    <3>1. storedRoot' = [storedRoot EXCEPT ![BlockInHand] = mmrRoot]
          /\ storedRoot[BlockInHand] \in {NoRoot, mmrRoot}
      BY <2>1 DEF SaveRoot, SameRoot
    <3> QED  BY <1>1, <3>1 DEF TypeOK
  <2>2. CASE storedRoot' = storedRoot
    BY <2>2
  <2>3. SaveRoot \/ storedRoot' = storedRoot
    BY <1>1 DEF Next, Sync, PoiInserted, Restart, OnApplicationShutdown, FetchPoiBlocks,
                AppendDefaultLeaf, AppendLeaf, ReadRoot, RootMismatch, vars
  <2> QED  BY <2>1, <2>2, <2>3
<1>2. TypeOK /\ [Next]_vars => [Final]_vars
  BY <1>1
<1> HIDE DEF Final
<1>3. Spec => [][Final]_vars
  BY <1>2, TypeCorrect, PTL DEF Spec
<1> QED  BY <1>3 DEF Final, RootsFinal
=============================================================================
