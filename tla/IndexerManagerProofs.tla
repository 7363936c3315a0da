----------------------- MODULE IndexerManagerProofs -----------------------
(* Proofs about the indexer manager, for every set of data sources, every    *)
(* stream of blocks and any number of restarts.                              *)
EXTENDS NodeHealth, TLAPS, WellFoundedInduction, NaturalsInduction,
        SequenceTheorems

-----------------------------------------------------------------------------
(* Type correctness                                                         *)

\* The first start block is a positive one, and no later than any other.
LEMMA FirstBlockType ==
    FirstBlock \in Nat \ {0} /\ \A ds \in DataSources : FirstBlock <= StartBlock[ds]
<1> DEFINE blocks == {StartBlock[ds] : ds \in DataSources}
<1>1. blocks \subseteq Nat \ {0} /\ blocks # {}
  BY IndexerAssumption DEF IndexerAssumption
<1> HIDE DEF blocks
<1>2. \E b \in blocks : \A c \in blocks : b <= c
  <2>1. PICK b \in blocks : \A c \in blocks : ~(<<c, b>> \in OpToRel(<, Nat))
    BY <1>1, NatLessThanWellFounded, WFMin
  <2>2. \A c \in blocks : c \in Nat /\ b \in Nat /\ ~(c < b)
    BY <1>1, <2>1 DEF OpToRel
  <2> QED  BY <2>2
<1>3. FirstBlock \in blocks /\ \A c \in blocks : FirstBlock <= c
  BY <1>2 DEF FirstBlock, blocks
<1> QED  BY <1>1, <1>3 DEF blocks

LEMMA FirstHeightType == FirstHeight \in Nat \ {0}
BY FirstBlockType, IndexerAssumption DEF IndexerAssumption, FirstHeight, NoRow

LEMMA StartHeightType ==
    ASSUME metadataHeight \in {NoRow} \cup Nat
    PROVE  /\ StartHeight \in Nat \ {0}
           /\ metadataHeight < StartHeight
           /\ StartHeight = FirstHeight \/ StartHeight = metadataHeight + 1
BY FirstHeightType DEF StartHeight, NoRow

LEMMA TypeInit == Init => TypeOK
BY IndexerAssumption
DEF IndexerAssumption, Init, TypeOK, Heights, NoRow, NoWrite, JournalType

LEMMA TypeStep ==
    ASSUME TypeOK, [Next]_vars
    PROVE  TypeOK'
<1> MaxHeight \in Nat /\ MaxRestarts \in Nat
  BY IndexerAssumption DEF IndexerAssumption
<1> USE DEF TypeOK, Heights
<1>1. CASE UNCHANGED vars
  BY <1>1 DEF vars, database, process
<1>2. CASE Start
  <2>1. StartHeight - 1 \in Nat
    BY StartHeightType
  <2>2. FilterDataSources(StartHeight) \subseteq DataSources
    BY DEF FilterDataSources
  <2> QED  BY <1>2, <2>1, <2>2 DEF Start, database
<1>3. CASE ProcessEnds
  BY <1>3 DEF ProcessEnds, database
<1>4. CASE BlockArrives
  BY <1>4 DEF BlockArrives, database
<1>5. CASE RunHandlers
  BY <1>5 DEF RunHandlers, database
<1>6. CASE CreatePoi
  BY <1>6 DEF CreatePoi, database
<1>7. CASE Commit
  <2>1. [height |-> block, sources |-> filteredDataSources] \in JournalType
    BY DEF JournalType
  <2>2. entities' \in Seq(JournalType)
    BY <1>7, <2>1 DEF Commit
  <2>3. DOMAIN poi' \subseteq Heights
    BY <1>7 DEF Commit
  <2> QED  BY <1>7, <2>2, <2>3 DEF Commit
<1>8. CASE AfterCommit
  BY <1>8 DEF AfterCommit, database
<1>9. CASE CheckHeight
  BY <1>9 DEF CheckHeight, database
<1>10. CASE SetMetadata
  BY <1>10 DEF SetMetadata, NoWrite, NoRow
<1> QED
  BY <1>1, <1>2, <1>3, <1>4, <1>5, <1>6, <1>7, <1>8, <1>9, <1>10
  DEF Next, IndexBlock

\* In every state of every behaviour the variables have their types.
THEOREM TypeCorrect == Spec => []TypeOK
<1>1. Init => TypeOK
  BY TypeInit
<1>2. TypeOK /\ [Next]_vars => TypeOK'
  BY TypeStep
<1> QED  BY <1>1, <1>2, PTL DEF Spec
-----------------------------------------------------------------------------
(* Nothing is lost, with or without an overlapping timer                    *)

Busy == pc \in {"handlers", "locked", "commit"}

Covered(height) ==
    \A h \in FirstHeight .. height : h \in Needed => IsJournaled(h)

\* Every height that is, or may become, the stored one is covered, and the block
\* in indexBlock is the next needed one.
CoverInv ==
    /\ Covered(metadataHeight)
    /\ Covered(reportedHeight)
    /\ Covered(pendingWrite)
    /\ pc # "down" => Covered(latestProcessedHeight)
    /\ Busy => /\ latestProcessedHeight < block
               /\ \A h \in latestProcessedHeight + 1 .. block - 1 : h \notin Needed
    /\ pc = "committed" => Covered(block)

\* Below the first height there is nothing to cover.
LEMMA NothingToCover ==
    ASSUME NEW x \in Int, x < FirstHeight
    PROVE  Covered(x)
<1>1. FirstHeight .. x = {}
  BY FirstHeightType
<1> QED  BY <1>1 DEF Covered

LEMMA CoverInit == Init => CoverInv
<1> SUFFICES ASSUME Init PROVE CoverInv
  OBVIOUS
<1>1. Covered(metadataHeight) /\ Covered(reportedHeight) /\ Covered(pendingWrite)
  <2>1. /\ metadataHeight \in Int /\ metadataHeight < FirstHeight
        /\ reportedHeight \in Int /\ reportedHeight < FirstHeight
        /\ pendingWrite \in Int /\ pendingWrite < FirstHeight
    BY FirstHeightType DEF Init, NoRow, NoWrite
  <2> QED  BY <2>1, NothingToCover
<1>2. pc = "down"
  BY DEF Init
<1> QED  BY <1>1, <1>2 DEF CoverInv, Busy

\* A commit covers the heights up to its block, and uncovers none.
LEMMA CommitCovers ==
    ASSUME TypeOK, CoverInv, Commit
    PROVE  /\ \A h \in Nat : IsJournaled(h) => IsJournaled(h)'
           /\ Covered(block)'
<1>1. /\ entities \in Seq(JournalType)
      /\ entities' = Append(entities, [height |-> block,
                                       sources |-> filteredDataSources])
  BY DEF TypeOK, Commit
<1>2. /\ DOMAIN entities = 1 .. Len(entities)
      /\ DOMAIN entities' = 1 .. Len(entities) + 1
      /\ \A i \in 1 .. Len(entities) : entities'[i] = entities[i]
      /\ entities'[Len(entities) + 1].height = block
      /\ Len(entities) \in Nat
  BY <1>1
<1>3. ASSUME NEW h, IsJournaled(h)
      PROVE  IsJournaled(h)'
  BY <1>2, <1>3 DEF IsJournaled
<1>4. IsJournaled(block)'
  <2>1. Len(entities) + 1 \in DOMAIN entities'
    BY <1>2
  <2>2. block' = block
    BY DEF Commit
  <2> QED  BY <1>2, <2>1, <2>2 DEF IsJournaled
<1>5. ASSUME NEW h \in FirstHeight .. block, h \in Needed
      PROVE  IsJournaled(h)'
  <2>1. /\ block \in Nat /\ latestProcessedHeight \in Nat /\ FirstHeight \in Nat
        /\ Covered(latestProcessedHeight)
        /\ \A g \in latestProcessedHeight + 1 .. block - 1 : g \notin Needed
    BY FirstHeightType DEF TypeOK, Heights, CoverInv, Busy, Commit
  <2>2. h = block \/ h \in FirstHeight .. latestProcessedHeight
    BY <1>5, <2>1
  <2> QED  BY <1>3, <1>4, <1>5, <2>1, <2>2 DEF Covered, Commit
<1>6. block' = block
  BY DEF Commit
<1> QED  BY <1>3, <1>5, <1>6 DEF Covered

LEMMA CoverStep ==
    ASSUME TypeOK, CoverInv, [Next]_vars
    PROVE  CoverInv'
<1>1. CASE UNCHANGED vars
  BY <1>1 DEF vars, database, process, CoverInv, Covered, IsJournaled, Busy
<1>2. CASE Start
  <2>1. StartHeight \in Nat \ {0} /\ (StartHeight = FirstHeight \/ StartHeight = metadataHeight + 1)
    BY StartHeightType DEF TypeOK, Heights
  <2>2. Covered(StartHeight - 1)
    <3>1. CASE StartHeight = FirstHeight
      BY <2>1, <3>1, NothingToCover
    <3>2. CASE StartHeight = metadataHeight + 1
      <4>1. StartHeight - 1 = metadataHeight
        BY <3>2, <2>1 DEF TypeOK, Heights, NoRow
      <4> QED  BY <4>1 DEF CoverInv
    <3> QED  BY <2>1, <3>1, <3>2
  <2> QED
    BY <1>2, <2>2 DEF Start, database, CoverInv, Covered, IsJournaled, Busy
<1>3. CASE ProcessEnds
  <2>1. Covered(0) /\ Covered(NoWrite)
    BY FirstHeightType, NothingToCover DEF NoWrite
  <2> QED
    BY <1>3, <2>1 DEF ProcessEnds, database, CoverInv, Covered, IsJournaled, Busy
<1>4. CASE BlockArrives
  <2>1. latestProcessedHeight < block'
    BY <1>4 DEF BlockArrives, TypeOK
  <2> QED
    BY <1>4, <2>1 DEF BlockArrives, database, CoverInv, Covered, IsJournaled, Busy
<1>5. CASE RunHandlers
  BY <1>5 DEF RunHandlers, database, CoverInv, Covered, IsJournaled, Busy
<1>6. CASE CreatePoi
  BY <1>6 DEF CreatePoi, database, CoverInv, Covered, IsJournaled, Busy
<1>7. CASE Commit
  <2>1. \A h \in Nat : IsJournaled(h) => IsJournaled(h)'
    BY <1>7, CommitCovers
  <2>2. ASSUME NEW x, Covered(x)
        PROVE  \A h \in FirstHeight .. x : h \in Needed => IsJournaled(h)'
    BY <2>1, <2>2, FirstHeightType DEF Covered
  <2>3. Covered(block)' /\ metadataHeight' = block /\ block' = block
    BY <1>7, CommitCovers DEF Commit
  <2>4. /\ UNCHANGED <<reportedHeight, pendingWrite, latestProcessedHeight>>
        /\ pc = "commit" /\ pc' = "committed"
    BY <1>7 DEF Commit
  <2>5. Covered(reportedHeight)' /\ Covered(pendingWrite)' /\ Covered(latestProcessedHeight)'
    BY <2>2, <2>4 DEF CoverInv, Covered
  <2>6. Covered(metadataHeight)'
    BY <2>3 DEF Covered
  <2> QED  BY <2>3, <2>4, <2>5, <2>6 DEF CoverInv, Busy
<1>8. CASE AfterCommit
  BY <1>8 DEF AfterCommit, database, CoverInv, Covered, IsJournaled, Busy
<1>9. CASE CheckHeight
  BY <1>9 DEF CheckHeight, database, CoverInv, Covered, IsJournaled, Busy
<1>10. CASE SetMetadata
  <2>1. Covered(NoWrite)
    BY FirstHeightType, NothingToCover DEF NoWrite
  <2>2. /\ metadataHeight' \in {metadataHeight, pendingWrite}
        /\ pendingWrite' = NoWrite
        /\ UNCHANGED <<entities, pc, block, latestProcessedHeight, reportedHeight>>
    BY <1>10 DEF SetMetadata
  <2> QED
    BY <2>1, <2>2 DEF CoverInv, Covered, IsJournaled, Busy
<1> QED
  BY <1>1, <1>2, <1>3, <1>4, <1>5, <1>6, <1>7, <1>8, <1>9, <1>10
  DEF Next, IndexBlock

\* Whenever the process ends and wherever the timer's statement lands, a node
\* that starts from the stored height leaves out no needed block.
THEOREM NothingEverLost == Spec => []NothingLost
<1> DEFINE Inv == TypeOK /\ CoverInv
<1>1. Init => Inv
  BY TypeInit, CoverInit
<1>2. Inv /\ [Next]_vars => Inv'
  BY TypeStep, CoverStep
<1>3. Inv => NothingLost
  BY DEF CoverInv, Covered, NothingLost
<1> HIDE DEF Inv
<1> QED  BY <1>1, <1>2, <1>3, PTL DEF Spec
-----------------------------------------------------------------------------
(* Data sources start where they should                                     *)

\* The process runs data sources that have started, and goes upwards.
SourceInv ==
    /\ NoSourceBeforeItsStart
    /\ \A i \in DOMAIN entities : entities[i].sources # {}
    /\ pc # "down" =>
           /\ filteredDataSources # {}
           /\ \A ds \in filteredDataSources :
                  StartBlock[ds] <= latestProcessedHeight + 1
    /\ Busy \/ pc = "committed" => latestProcessedHeight < block

\* The row a commit adds to the journal.
LEMMA CommitAppends ==
    ASSUME TypeOK, Commit
    PROVE  /\ Len(entities) \in Nat
           /\ DOMAIN entities = 1 .. Len(entities)
           /\ DOMAIN entities' = 1 .. Len(entities) + 1
           /\ \A i \in 1 .. Len(entities) : entities'[i] = entities[i]
           /\ entities'[Len(entities) + 1] = [height |-> block,
                                              sources |-> filteredDataSources]
           /\ \A i \in 1 .. Len(entities) : entities[i].height \in Nat
<1>1. /\ entities \in Seq(JournalType)
      /\ entities' = Append(entities, [height |-> block,
                                       sources |-> filteredDataSources])
  BY DEF TypeOK, Commit
<1>2. \A row \in JournalType : row.height \in Nat
  BY DEF JournalType, Heights
<1> QED  BY <1>1, <1>2

LEMMA SourceInit == Init => SourceInv
BY DEF Init, SourceInv, NoSourceBeforeItsStart, Busy

LEMMA SourceStep ==
    ASSUME TypeOK, SourceInv, [Next]_vars
    PROVE  SourceInv'
<1>1. /\ latestProcessedHeight \in Nat /\ block \in Nat
      /\ \A ds \in filteredDataSources : StartBlock[ds] \in Nat
  BY IndexerAssumption DEF TypeOK, Heights, IndexerAssumption
<1> USE DEF SourceInv, Busy, NoSourceBeforeItsStart
<1>2. CASE UNCHANGED vars
  BY <1>2 DEF vars, database, process
<1>3. CASE Start
  <2>1. StartHeight \in Nat
    BY StartHeightType DEF TypeOK, Heights
  <2>2. \A ds \in FilterDataSources(StartHeight) :
            StartBlock[ds] <= (StartHeight - 1) + 1
    BY <2>1 DEF FilterDataSources
  <2> QED  BY <1>3, <2>2 DEF Start, database
<1>4. CASE ProcessEnds
  BY <1>4 DEF ProcessEnds, database
<1>5. CASE BlockArrives
  BY <1>1, <1>5 DEF BlockArrives, database
<1>6. CASE RunHandlers
  BY <1>6 DEF RunHandlers, database
<1>7. CASE CreatePoi
  BY <1>7 DEF CreatePoi, database
<1>8. CASE Commit
  <2>1. /\ pc = "commit" /\ pc' = "committed"
        /\ UNCHANGED <<block, filteredDataSources, latestProcessedHeight>>
    BY <1>8 DEF Commit
  <2>2. \A ds \in filteredDataSources : StartBlock[ds] <= block
    BY <1>1, <2>1
  <2>3. NoSourceBeforeItsStart' /\ \A i \in DOMAIN entities' : entities'[i].sources # {}
    BY <1>8, <2>1, <2>2, CommitAppends
  <2> QED  BY <2>1, <2>3
<1>9. CASE AfterCommit
  BY <1>1, <1>9 DEF AfterCommit, database
<1>10. CASE CheckHeight
  BY <1>10 DEF CheckHeight, database
<1>11. CASE SetMetadata
  BY <1>11 DEF SetMetadata
<1> QED
  BY <1>2, <1>3, <1>4, <1>5, <1>6, <1>7, <1>8, <1>9, <1>10, <1>11
  DEF Next, IndexBlock

\* Whatever height the process starts from, and with or without an overlapping
\* timer, no handler has run on a block before the start of its data source.
THEOREM SourcesRunFromTheirStart == Spec => []NoSourceBeforeItsStart
<1> DEFINE Inv == TypeOK /\ SourceInv
<1>1. Init => Inv
  BY TypeInit, SourceInit
<1>2. Inv /\ [Next]_vars => Inv'
  BY TypeStep, SourceStep
<1>3. Inv => NoSourceBeforeItsStart
  BY DEF SourceInv
<1> HIDE DEF Inv
<1> QED  BY <1>1, <1>2, <1>3, PTL DEF Spec
-----------------------------------------------------------------------------
(* Order, without an overlapping timer                                      *)

\* The journal is in order and ends at the stored height.  The timer's statement
\* is under way only between two blocks, and then carries the stored height.
OrderInv ==
    /\ IndexedOnce
    /\ \A i \in DOMAIN entities : entities[i].height <= metadataHeight
    /\ pendingWrite # NoWrite => pc = "idle" /\ pendingWrite = reportedHeight
    /\ pc = "down" => reportedHeight = 0
    /\ pc = "idle" /\ reportedHeight # 0 => metadataHeight = reportedHeight
    /\ pc \notin {"down", "committed"} => metadataHeight <= latestProcessedHeight
    /\ Busy => latestProcessedHeight < block
    /\ pc = "committed" => metadataHeight = block

LEMMA OrderInit == Init => OrderInv
BY DEF Init, OrderInv, IndexedOnce, Busy, NoWrite

LEMMA OrderStep ==
    ASSUME ~WriteMayOverlap, TypeOK, OrderInv, [Next]_vars
    PROVE  OrderInv' /\ metadataHeight' >= metadataHeight
<1> /\ metadataHeight \in Int /\ latestProcessedHeight \in Nat /\ block \in Nat
    /\ reportedHeight \in Nat
  BY DEF TypeOK, Heights, NoRow
<1> USE DEF OrderInv, Busy, IndexedOnce
<1>1. CASE UNCHANGED vars
  BY <1>1 DEF vars, database, process
<1>2. CASE Start
  <2>1. StartHeight \in Nat /\ metadataHeight <= StartHeight - 1
    BY StartHeightType DEF TypeOK, Heights
  <2> QED  BY <1>2, <2>1 DEF Start, database
<1>3. CASE ProcessEnds
  BY <1>3 DEF ProcessEnds, database
<1>4. CASE BlockArrives
  BY <1>4 DEF BlockArrives, database
<1>5. CASE RunHandlers
  BY <1>5 DEF RunHandlers, database
<1>6. CASE CreatePoi
  BY <1>6 DEF CreatePoi, database
<1>7. CASE Commit
  <2>1. /\ metadataHeight' = block /\ pc' = "committed" /\ pc = "commit"
        /\ UNCHANGED <<block, pendingWrite, reportedHeight, latestProcessedHeight>>
    BY <1>7 DEF Commit
  <2>2. metadataHeight < block /\ pendingWrite = NoWrite
    BY <2>1
  <2>3. \A i \in 1 .. Len(entities) :
            entities[i].height \in Nat /\ entities[i].height < block
    BY <1>7, <2>2, CommitAppends
  <2>4. IndexedOnce'
    BY <1>7, <2>3, CommitAppends
  <2>5. \A i \in DOMAIN entities' : entities'[i].height <= block
    BY <1>7, <2>3, CommitAppends
  <2> QED  BY <2>1, <2>2, <2>4, <2>5
<1>8. CASE AfterCommit
  BY <1>8 DEF AfterCommit, database
<1>9. CASE CheckHeight
  BY <1>9 DEF CheckHeight, database
<1>10. CASE SetMetadata
  <2>1. /\ pc = "idle" /\ pc' = "idle" /\ pendingWrite = reportedHeight
        /\ pendingWrite' = NoWrite
        /\ UNCHANGED <<entities, reportedHeight, latestProcessedHeight>>
    BY <1>10 DEF SetMetadata
  <2>2. \/ metadataHeight' = metadataHeight
        \/ metadataHeight = NoRow /\ metadataHeight' = 0 /\ reportedHeight = 0
    BY <1>10, <2>1 DEF SetMetadata
  <2>3. CASE metadataHeight' = metadataHeight
    BY <2>1, <2>3
  <2>4. CASE metadataHeight = NoRow /\ metadataHeight' = 0 /\ reportedHeight = 0
    <3>1. \A i \in DOMAIN entities : entities[i].height \in Int
      <4>1. entities \in Seq(JournalType) /\ \A row \in JournalType : row.height \in Int
        BY DEF TypeOK, JournalType, Heights
      <4> QED  BY <4>1
    <3> QED  BY <2>1, <2>4, <3>1 DEF NoRow
  <2> QED  BY <2>2, <2>3, <2>4
<1> QED
  BY <1>1, <1>2, <1>3, <1>4, <1>5, <1>6, <1>7, <1>8, <1>9, <1>10
  DEF Next, IndexBlock

\* Without an overlapping timer no block's writes are committed twice or out of
\* order, over all restarts.
THEOREM IndexedExactlyOnce ==
    ASSUME ~WriteMayOverlap
    PROVE  Spec => []IndexedOnce
<1> DEFINE Inv == TypeOK /\ OrderInv
<1>1. Init => Inv
  BY TypeInit, OrderInit
<1>2. Inv /\ [Next]_vars => Inv'
  BY TypeStep, OrderStep
<1>3. Inv => IndexedOnce
  BY DEF OrderInv
<1> HIDE DEF Inv
<1> QED  BY <1>1, <1>2, <1>3, PTL DEF Spec

\* Nor does the stored height ever go back.
THEOREM StoredHeightGrows ==
    ASSUME ~WriteMayOverlap
    PROVE  Spec => HeightNeverRegresses
<1> DEFINE Inv == TypeOK /\ OrderInv
<1>1. Init => Inv
  BY TypeInit, OrderInit
<1>2. Inv /\ [Next]_vars => Inv'
  BY TypeStep, OrderStep
<1>3. Inv /\ [Next]_vars => [metadataHeight' >= metadataHeight]_vars
  BY OrderStep
<1> HIDE DEF Inv
<1> QED  BY <1>1, <1>2, <1>3, PTL DEF Spec, HeightNeverRegresses
-----------------------------------------------------------------------------
(* The journal implements the block stream                                  *)

\* The height of the last journaled block, and that it is the greatest.
LEMMA JournaledHeightType ==
    ASSUME TypeOK, OrderInv
    PROVE  /\ JournaledHeight \in Nat
           /\ \A h : IsJournaled(h) => h <= JournaledHeight
           /\ JournaledHeight = FirstHeight - 1 \/ IsJournaled(JournaledHeight)
<1>1. /\ entities \in Seq(JournalType)
      /\ Len(entities) \in Nat
      /\ DOMAIN entities = 1 .. Len(entities)
      /\ \A i \in 1 .. Len(entities) : entities[i].height \in Nat
  <2>1. entities \in Seq(JournalType) /\ \A row \in JournalType : row.height \in Nat
    BY DEF TypeOK, JournalType, Heights
  <2> QED  BY <2>1
<1>2. CASE entities = << >>
  BY <1>1, <1>2, FirstHeightType DEF JournaledHeight, IsJournaled
<1>3. CASE entities # << >>
  <2>1. Len(entities) \in 1 .. Len(entities)
    BY <1>1, <1>3
  <2>2. JournaledHeight = entities[Len(entities)].height
    BY <1>3 DEF JournaledHeight
  <2>3. \A i \in 1 .. Len(entities) :
            entities[i].height <= entities[Len(entities)].height
    <3> TAKE i \in 1 .. Len(entities)
    <3>1. CASE i = Len(entities)
      BY <1>1, <3>1
    <3>2. CASE i < Len(entities)
      BY <1>1, <2>1, <3>2 DEF OrderInv, IndexedOnce
    <3>3. i = Len(entities) \/ i < Len(entities)
      <4>1. Len(entities) \in Nat
        BY <1>1
      <4> QED  BY <4>1
    <3> QED  BY <3>1, <3>2, <3>3, Zenon
  <2> QED  BY <1>1, <2>1, <2>2, <2>3 DEF IsJournaled
<1> QED  BY <1>2, <1>3

\* Without the height of an old version, nothing below the first block is journaled.
LEMMA JournaledFromFirst ==
    ASSUME LegacyNextHeight = NoRow, TypeOK, SourceInv
    PROVE  \A h : IsJournaled(h) => FirstHeight <= h
<1> SUFFICES ASSUME NEW i \in DOMAIN entities
             PROVE  FirstHeight <= entities[i].height
  BY DEF IsJournaled
<1>1. /\ entities[i].height \in Nat
      /\ entities[i].sources \subseteq DataSources
  <2>1. entities \in Seq(JournalType)
        /\ \A row \in JournalType : row.height \in Nat /\ row.sources \subseteq DataSources
    BY DEF TypeOK, JournalType, Heights
  <2> QED  BY <2>1
<1>2. PICK ds \in entities[i].sources : StartBlock[ds] <= entities[i].height
  BY DEF SourceInv, NoSourceBeforeItsStart
<1>3. ds \in DataSources /\ StartBlock[ds] \in Nat /\ FirstHeight = FirstBlock
  BY <1>1, <1>2, IndexerAssumption DEF IndexerAssumption, FirstHeight
<1> QED  BY <1>1, <1>2, <1>3, FirstBlockType

\* What a commit adds to the journal is the next needed block of the stream.
LEMMA CommitDelivers ==
    ASSUME LegacyNextHeight = NoRow, TypeOK, CoverInv, SourceInv, OrderInv, Commit
    PROVE  Stream!Deliver
<1>1. /\ block \in 0 .. MaxHeight /\ latestProcessedHeight \in Nat
      /\ latestProcessedHeight < block
      /\ metadataHeight <= latestProcessedHeight /\ metadataHeight \in Int
      /\ Covered(latestProcessedHeight)
      /\ \A h \in latestProcessedHeight + 1 .. block - 1 : h \notin Needed
  BY DEF TypeOK, Heights, CoverInv, OrderInv, Busy, Commit, NoRow
<1>2. JournaledHeight' = block
  <2>1. entities' # << >> /\ Len(entities') = Len(entities) + 1
    <3>1. /\ entities \in Seq(JournalType)
          /\ entities' = Append(entities, [height |-> block,
                                           sources |-> filteredDataSources])
      BY DEF TypeOK, Commit
    <3> QED  BY <3>1
  <2>2. entities'[Len(entities')].height = block
    BY <2>1, CommitAppends
  <2> QED  BY <2>1, <2>2 DEF JournaledHeight
<1>3. JournaledHeight \in Nat /\ JournaledHeight < block
  <2>1. CASE JournaledHeight = FirstHeight - 1
    <3>1. FirstHeight <= block
      <4>1. /\ FirstHeight = FirstBlock
            /\ \E ds \in DataSources : /\ StartBlock[ds] \in Nat
                                       /\ StartBlock[ds] <= latestProcessedHeight + 1
        BY IndexerAssumption
        DEF IndexerAssumption, FirstHeight, SourceInv, Commit, TypeOK
      <4> QED  BY <1>1, <4>1, FirstBlockType
    <3> QED  BY <1>1, <2>1, <3>1, JournaledHeightType, FirstHeightType
  <2>2. CASE IsJournaled(JournaledHeight)
    <3>1. JournaledHeight <= metadataHeight
      BY <2>2 DEF IsJournaled, OrderInv
    <3> QED  BY <1>1, <3>1, JournaledHeightType
  <2>3. JournaledHeight = FirstHeight - 1 \/ IsJournaled(JournaledHeight)
    BY JournaledHeightType, Zenon
  <2> QED  BY <2>1, <2>2, <2>3, Zenon
<1>4. ASSUME NEW h \in JournaledHeight + 1 .. block - 1, h \in Needed
      PROVE  FALSE
  <2>1. h \in Int /\ JournaledHeight < h /\ h < block
    BY <1>1, <1>3
  <2>2. h <= latestProcessedHeight
    BY <1>1, <1>4, <2>1
  <2>3. CASE h < FirstHeight
    <3>1. FirstHeight <= JournaledHeight + 1
      BY JournaledFromFirst, JournaledHeightType, FirstHeightType
    <3> QED  BY <1>3, <2>1, <2>3, <3>1, FirstHeightType
  <2>4. CASE h >= FirstHeight
    <3>1. IsJournaled(h)
      BY <1>1, <1>4, <2>1, <2>2, <2>4, FirstHeightType DEF Covered
    <3> QED  BY <1>3, <2>1, <3>1, JournaledHeightType
  <2> QED  BY <2>1, <2>3, <2>4, FirstHeightType
<1> QED  BY <1>1, <1>2, <1>3, <1>4 DEF Stream!Deliver

\* Whatever restarts do, the journal of committed blocks is the block stream the
\* fetch service promises a process that never ends.
THEOREM JournalImplementsStream ==
    ASSUME ~WriteMayOverlap, LegacyNextHeight = NoRow
    PROVE  Spec => JournalIsStream
<1> DEFINE Inv == TypeOK /\ CoverInv /\ SourceInv /\ OrderInv
<1>1. Init => Inv
  BY TypeInit, CoverInit, SourceInit, OrderInit
<1>2. Inv /\ [Next]_vars => Inv'
  BY TypeStep, CoverStep, SourceStep, OrderStep
<1>3. Init => Stream!Init
  BY IndexerAssumption
  DEF IndexerAssumption, Init, Stream!Init, JournaledHeight
<1>4. Inv /\ [Next]_vars => [Stream!Next]_<<MaxHeight, JournaledHeight>>
  <2> SUFFICES ASSUME Inv, [Next]_vars
               PROVE  [Stream!Next]_<<MaxHeight, JournaledHeight>>
    OBVIOUS
  <2>1. CASE Commit
    BY <2>1, CommitDelivers DEF Stream!Next
  <2>2. CASE ~Commit
    <3>1. UNCHANGED entities
      BY <2>2
      DEF Next, IndexBlock, Start, ProcessEnds, BlockArrives, RunHandlers,
          CreatePoi, AfterCommit, CheckHeight, SetMetadata, database, vars
    <3> QED  BY <3>1 DEF JournaledHeight
  <2> QED  BY <2>1, <2>2
<1> HIDE DEF Inv
<1> QED  BY <1>1, <1>2, <1>3, <1>4, PTL DEF Spec, JournalIsStream, Stream!Spec
-----------------------------------------------------------------------------
(* The proof of index, without an overlapping timer                         *)

\* The row in the transaction, and the cached hash if there is one, continue the
\* chain of the table.
PoiInv ==
    /\ PoiChained
    /\ \A id \in DOMAIN poi : id <= metadataHeight
    /\ pc \notin {"commit", "committed"} => poiBlock = << >>
    /\ pc = "commit" /\ poiBlock # << >> => poiBlock[1].parentHash = PoiHashFromDb
    /\ pc = "committed" /\ poiBlock # << >> =>
           block \in DOMAIN poi /\ poi[block] = poiBlock[1]
    /\ pc \notin {"down", "committed"} /\ latestPoiBlockHash # NoHash =>
           latestPoiBlockHash = PoiHashFromDb

LEMMA MaxIdIs ==
    ASSUME NEW ids \in SUBSET Nat, NEW id \in ids, \A g \in ids : g <= id
    PROVE  MaxId(ids) = id
<1>1. ASSUME NEW k \in ids, \A h \in ids : h <= k
      PROVE  k = id
  <2>1. k <= id /\ id <= k /\ k \in Nat /\ id \in Nat
    BY <1>1
  <2> QED  BY <2>1
<1>2. MaxId(ids) \in ids /\ \A h \in ids : h <= MaxId(ids)
  BY DEF MaxId
<1> QED  BY <1>1, <1>2

\* A bounded set of heights has a greatest element.
LEMMA GreatestId ==
    ASSUME NEW n \in Nat, NEW ids \in SUBSET (0 .. n), ids # {}
    PROVE  MaxId(ids) \in ids
<1> DEFINE gaps == {n - g : g \in ids}
<1>1. gaps \subseteq Nat /\ gaps # {}
  <2>1. \A g \in ids : n - g \in Nat
    OBVIOUS
  <2> QED  BY <2>1
<1> HIDE DEF gaps
<1>2. PICK d \in gaps : \A e \in gaps : ~(<<e, d>> \in OpToRel(<, Nat))
  BY <1>1, NatLessThanWellFounded, WFMin
<1>3. d \in Nat /\ \A e \in gaps : e \in Nat /\ ~(e < d)
  BY <1>1, <1>2 DEF OpToRel
<1>4. PICK g \in ids : d = n - g
  BY DEF gaps
<1>5. \A h \in ids : h <= g
  <2> TAKE h \in ids
  <2>1. n - h \in gaps
    BY DEF gaps
  <2> QED  BY <1>3, <1>4, <2>1
<1> QED  BY <1>5, MaxIdIs

LEMMA PoiInit == Init => PoiInv
BY DEF Init, PoiInv, PoiChained

\* A committed row is the last of the table, and continues its chain.
LEMMA CommitChains ==
    ASSUME TypeOK, OrderInv, PoiInv, Commit, poiBlock # << >>
    PROVE  /\ DOMAIN poi' = DOMAIN poi \cup {block}
           /\ poi'[block] = poiBlock[1]
           /\ PoiChained'
<1>1. /\ DOMAIN poi' = DOMAIN poi \cup {block}
      /\ \A id \in DOMAIN poi' :
             poi'[id] = IF id = block THEN poiBlock[1] ELSE poi[id]
  BY DEF Commit
<1>2. /\ block \in Nat /\ \A id \in DOMAIN poi : id \in Nat /\ id < block
  <2>1. metadataHeight \in Int /\ latestProcessedHeight \in Nat /\ block \in Nat
        /\ metadataHeight <= latestProcessedHeight /\ latestProcessedHeight < block
    BY DEF TypeOK, Heights, OrderInv, Busy, Commit, NoRow
  <2>2. \A id \in DOMAIN poi : id \in Nat /\ id <= metadataHeight
    BY DEF TypeOK, Heights, PoiInv
  <2> QED  BY <2>1, <2>2
<1>3. ASSUME NEW id \in DOMAIN poi'
      PROVE  LET before == {g \in DOMAIN poi' : g < id}
             IN  poi'[id].parentHash =
                     IF before = {} THEN DefaultParent ELSE poi'[MaxId(before)].hash
  <2>1. CASE id = block
    <3>1. {g \in DOMAIN poi' : g < id} = DOMAIN poi
      <4>1. \A g \in DOMAIN poi' : g < id <=> g \in DOMAIN poi
        BY <1>1, <1>2, <2>1
      <4>2. DOMAIN poi \subseteq DOMAIN poi'
        BY <1>1
      <4> QED  BY <4>1, <4>2, Zenon
    <3>2. poi'[id].parentHash = PoiHashFromDb
      BY <1>1, <2>1 DEF PoiInv, Commit
    <3>3. ASSUME DOMAIN poi # {}
          PROVE  poi'[MaxId(DOMAIN poi)] = poi[MaxId(DOMAIN poi)]
      <4>1. MaxId(DOMAIN poi) \in DOMAIN poi
        <5>1. DOMAIN poi \subseteq 0 .. MaxHeight /\ MaxHeight \in Nat
          BY IndexerAssumption DEF TypeOK, Heights, IndexerAssumption
        <5> QED  BY <3>3, <5>1, GreatestId
      <4> QED  BY <1>1, <1>2, <4>1
    <3> QED  BY <3>1, <3>2, <3>3 DEF PoiHashFromDb
  <2>2. CASE id # block
    <3>1. id \in DOMAIN poi
      BY <1>1, <2>2
    <3>2. {g \in DOMAIN poi' : g < id} = {g \in DOMAIN poi : g < id}
      BY <1>1, <1>2, <3>1
    <3> DEFINE before == {g \in DOMAIN poi : g < id}
    <3>3. poi[id].parentHash =
              IF before = {} THEN DefaultParent ELSE poi[MaxId(before)].hash
      BY <3>1 DEF PoiInv, PoiChained
    <3>4. before # {} => MaxId(before) \in DOMAIN poi
      <4>1. before \subseteq 0 .. MaxHeight /\ MaxHeight \in Nat
        BY IndexerAssumption DEF TypeOK, Heights, IndexerAssumption
      <4> HIDE DEF before
      <4>2. before # {} => MaxId(before) \in before
        BY <4>1, GreatestId
      <4> QED  BY <4>2 DEF before
    <3>5. \A g \in DOMAIN poi : poi'[g] = poi[g]
      BY <1>1, <1>2
    <3> HIDE DEF before
    <3>6. poi'[id].parentHash =
              IF before = {} THEN DefaultParent ELSE poi'[MaxId(before)].hash
      BY <3>1, <3>3, <3>4, <3>5
    <3> QED  BY <3>2, <3>6 DEF before
  <2> QED  BY <2>1, <2>2
<1> QED  BY <1>1, <1>3 DEF PoiChained

LEMMA PoiStep ==
    ASSUME TypeOK, OrderInv, PoiInv, [Next]_vars,
           OrderInv', metadataHeight' >= metadataHeight
    PROVE  PoiInv'
<1>1. /\ metadataHeight \in Int /\ metadataHeight' \in Int
      /\ \A id \in DOMAIN poi : id \in Nat /\ id <= metadataHeight
  BY TypeStep DEF TypeOK, Heights, NoRow, PoiInv
<1> USE DEF PoiInv, PoiChained, PoiHashFromDb
<1>2. CASE UNCHANGED vars
  BY <1>2 DEF vars, database, process
<1>3. CASE Start
  BY <1>3 DEF Start, database
<1>4. CASE ProcessEnds
  BY <1>4 DEF ProcessEnds, database
<1>5. CASE BlockArrives
  BY <1>5 DEF BlockArrives, database
<1>6. CASE RunHandlers
  BY <1>6 DEF RunHandlers, database
<1>7. CASE CreatePoi
  <2>1. ParentHash = PoiHashFromDb
    BY <1>7 DEF CreatePoi, ParentHash
  <2>2. poiBlock = << >> /\ UNCHANGED database /\ pc' = "commit"
    BY <1>7 DEF CreatePoi
  <2>3. \/ UNCHANGED <<poiBlock, latestPoiBlockHash>>
        \/ /\ poiBlock'[1].parentHash = PoiHashFromDb
           /\ latestPoiBlockHash' = PoiHashFromDb
    BY <1>7, <2>1 DEF CreatePoi
  <2>4. UNCHANGED PoiHashFromDb /\ UNCHANGED PoiChained
    BY <2>2 DEF database
  <2>5. latestPoiBlockHash # NoHash => latestPoiBlockHash = PoiHashFromDb
    BY <1>7 DEF CreatePoi
  <2>6. \A id \in DOMAIN poi' : id <= metadataHeight'
    BY <1>1, <2>2 DEF database
  <2> QED  BY <2>2, <2>3, <2>4, <2>5, <2>6
<1>8. CASE Commit
  <2>1. pc = "commit" /\ pc' = "committed" /\ metadataHeight' = block
        /\ UNCHANGED <<block, poiBlock>>
    BY <1>8 DEF Commit
  <2>2. metadataHeight < block /\ block \in Nat
    BY <1>8 DEF Commit, OrderInv, Busy, TypeOK, Heights, NoRow
  <2>3. CASE poiBlock = << >>
    <3>1. UNCHANGED poi
      BY <1>8, <2>3 DEF Commit
    <3>2. \A id \in DOMAIN poi : id <= block
      BY <1>1, <2>2
    <3> QED  BY <2>1, <2>3, <3>1, <3>2
  <2>4. CASE poiBlock # << >>
    <3>1. /\ DOMAIN poi' = DOMAIN poi \cup {block}
          /\ poi'[block] = poiBlock[1]
          /\ PoiChained'
      BY <1>8, <2>4, CommitChains
    <3>2. \A id \in DOMAIN poi' : id <= block
      BY <1>1, <2>2, <3>1
    <3> QED  BY <2>1, <3>1, <3>2
  <2> QED  BY <2>3, <2>4
<1>9. CASE AfterCommit
  <2>1. /\ pc = "committed" /\ pc' = "idle" /\ poiBlock' = << >>
        /\ UNCHANGED <<poi, metadataHeight>>
        /\ latestPoiBlockHash' = IF poiBlock = << >> THEN NoHash ELSE poiBlock[1].hash
    BY <1>9 DEF AfterCommit, database
  <2>2. poiBlock # << >> => poiBlock[1].hash = PoiHashFromDb
    <3> SUFFICES ASSUME poiBlock # << >>
                 PROVE  poiBlock[1].hash = PoiHashFromDb
      OBVIOUS
    <3>1. block \in DOMAIN poi /\ poi[block] = poiBlock[1] /\ metadataHeight = block
      BY <2>1 DEF OrderInv
    <3>2. MaxId(DOMAIN poi) = block
      BY <1>1, <3>1, MaxIdIs
    <3> QED  BY <3>1, <3>2
  <2>3. UNCHANGED PoiHashFromDb /\ UNCHANGED PoiChained
    BY <2>1
  <2> QED  BY <2>1, <2>2, <2>3
<1>10. CASE CheckHeight
  BY <1>10 DEF CheckHeight, database
<1>11. CASE SetMetadata
  <2>1. UNCHANGED <<poi, pc, block, poiBlock, latestPoiBlockHash>>
    BY <1>11 DEF SetMetadata
  <2>2. \A id \in DOMAIN poi : id <= metadataHeight'
    BY <1>1
  <2> QED  BY <2>1, <2>2
<1> QED
  BY <1>2, <1>3, <1>4, <1>5, <1>6, <1>7, <1>8, <1>9, <1>10, <1>11
  DEF Next, IndexBlock

\* Over all restarts and all blocks without operations, the rows of _poi form
\* one chain of hashes.
THEOREM PoiIsOneChain ==
    ASSUME ~WriteMayOverlap
    PROVE  Spec => []PoiChained
<1> DEFINE Inv == TypeOK /\ OrderInv /\ PoiInv
<1>1. Init => Inv
  BY TypeInit, OrderInit, PoiInit
<1>2. Inv /\ [Next]_vars => Inv'
  BY TypeStep, OrderStep, PoiStep
<1>3. Inv => PoiChained
  BY DEF PoiInv
<1> HIDE DEF Inv
<1> QED  BY <1>1, <1>2, <1>3, PTL DEF Spec
-----------------------------------------------------------------------------
(* The proof of index is complete, with or without an overlapping timer      *)

\* The transaction has a row exactly when the block has operations.
CompleteInv ==
    /\ PoiComplete
    /\ pc \notin {"commit", "committed"} => poiBlock = << >>
    /\ pc = "commit" =>
           (poiBlock # << >> <=> OperationMerkleRoot(block, filteredDataSources) # {})

HasOperations(row) == OperationMerkleRoot(row.height, row.sources) # {}

LEMMA CompleteIff ==
    PoiComplete <=>
        \A h : h \in DOMAIN poi <=>
            \E i \in DOMAIN entities :
                HasOperations(entities[i]) /\ entities[i].height = h
BY DEF PoiComplete, HasOperations

LEMMA CompleteInit == Init => CompleteInv
BY DEF Init, CompleteInv, PoiComplete

LEMMA CompleteStep ==
    ASSUME ProofOfIndex, TypeOK, CompleteInv, [Next]_vars
    PROVE  CompleteInv'
<1> USE DEF CompleteInv, PoiComplete, OperationMerkleRoot
<1>1. CASE UNCHANGED vars
  BY <1>1 DEF vars, database, process
<1>2. CASE Start
  BY <1>2 DEF Start, database
<1>3. CASE ProcessEnds
  BY <1>3 DEF ProcessEnds, database
<1>4. CASE BlockArrives
  BY <1>4 DEF BlockArrives, database
<1>5. CASE RunHandlers
  BY <1>5 DEF RunHandlers, database
<1>6. CASE CreatePoi
  <2>1. poiBlock = << >> /\ pc' = "commit"
        /\ UNCHANGED <<poi, entities, block, filteredDataSources>>
    BY <1>6 DEF CreatePoi, database
  <2>2. poiBlock' # << >> <=> OperationMerkleRoot(block, filteredDataSources) # {}
    <3> HIDE DEF OperationMerkleRoot
    <3>1. \A row : << row >> # << >>
      OBVIOUS
    <3> QED  BY <1>6, <2>1, <3>1 DEF CreatePoi
  <2> QED  BY <2>1, <2>2
<1>7. CASE Commit
  <2> DEFINE n == Len(entities)
             row == [height |-> block, sources |-> filteredDataSources]
  <2>1. /\ pc = "commit" /\ pc' = "committed"
        /\ DOMAIN poi' = IF HasOperations(row) THEN DOMAIN poi \cup {block}
                         ELSE DOMAIN poi
    BY <1>7 DEF Commit, HasOperations
  <2>2. /\ DOMAIN entities = 1 .. n /\ n \in Nat
        /\ DOMAIN entities' = (1 .. n) \cup {n + 1} /\ n + 1 \notin 1 .. n
        /\ \A i \in 1 .. n : entities'[i] = entities[i]
        /\ entities'[n + 1] = row /\ row.height = block
    BY <1>7, CommitAppends
  <2>3. ASSUME NEW h
        PROVE  (\E j \in DOMAIN entities' :
                    HasOperations(entities'[j]) /\ entities'[j].height = h)
               <=> \/ \E i \in DOMAIN entities :
                          HasOperations(entities[i]) /\ entities[i].height = h
                   \/ HasOperations(row) /\ block = h
    <3> HIDE DEF n, row, OperationMerkleRoot
    <3> QED  BY <2>2
  <2>4. \A h : h \in DOMAIN poi <=>
            \E i \in DOMAIN entities :
                HasOperations(entities[i]) /\ entities[i].height = h
    BY CompleteIff
  <2>5. \A h : h \in DOMAIN poi' <=>
            \E j \in DOMAIN entities' :
                HasOperations(entities'[j]) /\ entities'[j].height = h
    <3> HIDE DEF row, OperationMerkleRoot, PoiComplete
    <3> QED  BY <2>1, <2>3, <2>4
  <2>6. PoiComplete'
    BY <2>5 DEF HasOperations
  <2> QED  BY <2>1, <2>6
<1>8. CASE AfterCommit
  BY <1>8 DEF AfterCommit, database
<1>9. CASE CheckHeight
  BY <1>9 DEF CheckHeight, database
<1>10. CASE SetMetadata
  BY <1>10 DEF SetMetadata
<1> QED
  BY <1>1, <1>2, <1>3, <1>4, <1>5, <1>6, <1>7, <1>8, <1>9, <1>10
  DEF Next, IndexBlock

\* Exactly the committed blocks with operations have a proof of index, even if
\* they are committed again after a restart.
THEOREM PoiCoversOperations ==
    ASSUME ProofOfIndex
    PROVE  Spec => []PoiComplete
<1> DEFINE Inv == TypeOK /\ CompleteInv
<1>1. Init => Inv
  BY TypeInit, CompleteInit
<1>2. Inv /\ [Next]_vars => Inv'
  BY TypeStep, CompleteStep
<1>3. Inv => PoiComplete
  BY DEF CompleteInv
<1> HIDE DEF Inv
<1> QED  BY <1>1, <1>2, <1>3, PTL DEF Spec
-----------------------------------------------------------------------------
(* The node around the indexer                                              *)

\* The health service and the query service only watch: a node is an indexer, so
\* what is proved of the indexer holds in it.
THEOREM NodeIsAnIndexer == NodeSpec => Spec
<1>1. NodeInit => Init
  BY DEF NodeInit
<1>2. [NodeNext]_nodeVars => [Next]_vars
  <2>1. NodeStart \/ NodeEnds \/ HandleProcessingBlock \/ IndexerGoesOn => Next
    BY DEF NodeStart, NodeEnds, HandleProcessingBlock, IndexerGoesOn, Next, IndexBlock
  <2>2. \/ HandleTargetBlock \/ TargetAges \/ ProcessingAges \/ CheckHealthStatus
        \/ WriteHealth \/ HealthWritten \/ HealthWriteFails
        \/ StartQuery \/ FetchMetaFromApi \/ FetchHealthFromApi
        => UNCHANGED vars
    BY DEF HandleTargetBlock, TargetAges, ProcessingAges, CheckHealthStatus, WriteHealth,
           HealthWritten, HealthWriteFails, StartQuery, FetchMetaFromApi, FetchHealthFromApi
  <2>3. UNCHANGED nodeVars => UNCHANGED vars
    BY DEF nodeVars
  <2> QED  BY <2>1, <2>2, <2>3 DEF NodeNext
<1> QED  BY <1>1, <1>2, PTL DEF NodeSpec, Spec

\* A write that was executed is in the row until its answer is heard or lost; with
\* none in that state, the row says what is remembered.
HealthInv ==
    /\ pc = "down" => indexerHealthy = "unset" /\ check = "none"
    /\ written => check # "none" /\ healthRow = check
    /\ ~written /\ ~unsure /\ indexerHealthy # "unset" => healthRow = indexerHealthy

LEMMA HealthInit == NodeInit => HealthInv
BY DEF NodeInit, HealthInv

LEMMA HealthStep ==
    ASSUME HealthInv, [NodeNext]_nodeVars
    PROVE  HealthInv'
<1> USE DEF HealthInv
<1>1. CASE NodeStart
  BY <1>1 DEF NodeStart, Start
<1>2. CASE NodeEnds
  BY <1>2 DEF NodeEnds
<1>3. CASE HandleProcessingBlock
  BY <1>3 DEF HandleProcessingBlock, BlockArrives
<1>4. CASE IndexerGoesOn
  <2>1. pc' = "down" => pc = "down"
    BY <1>4 DEF IndexerGoesOn, RunHandlers, CreatePoi, Commit, AfterCommit, CheckHeight, SetMetadata
  <2> QED  BY <1>4, <2>1 DEF IndexerGoesOn, healthVars, serviceVars
<1>5. CASE HandleTargetBlock \/ TargetAges \/ ProcessingAges
  BY <1>5 DEF HandleTargetBlock, TargetAges, ProcessingAges, vars, process
<1>6. CASE CheckHealthStatus
  <2>1. written => FALSE
    BY <1>6 DEF CheckHealthStatus
  <2> QED  BY <1>6, <2>1 DEF CheckHealthStatus, vars, process
<1>7. CASE WriteHealth
  BY <1>7 DEF WriteHealth, vars, process
<1>8. CASE HealthWritten
  BY <1>8 DEF HealthWritten, vars, process
<1>9. CASE HealthWriteFails
  BY <1>9 DEF HealthWriteFails, vars, process
<1>10. CASE StartQuery \/ FetchMetaFromApi \/ FetchHealthFromApi
  BY <1>10 DEF StartQuery, FetchMetaFromApi, FetchHealthFromApi, vars, process, serviceVars
<1>11. CASE UNCHANGED nodeVars
  BY <1>11 DEF nodeVars, vars, process, healthVars, serviceVars
<1> QED  BY <1>1, <1>2, <1>3, <1>4, <1>5, <1>6, <1>7, <1>8, <1>9, <1>10, <1>11 DEF NodeNext

\* Whatever writes fail, and over restarts, the row of the metadata says what the
\* health service remembers, unless the answer to a write was lost.
THEOREM RowSaysTheVerdict == NodeSpec => []RowFollowsVerdict
<1>1. NodeInit => HealthInv
  BY HealthInit
<1>2. HealthInv /\ [NodeNext]_nodeVars => HealthInv'
  BY HealthStep
<1>3. HealthInv => RowFollowsVerdict
  BY DEF HealthInv, RowFollowsVerdict
<1> QED  BY <1>1, <1>2, <1>3, PTL DEF NodeSpec
=============================================================================
