------------------------- MODULE FetchServiceProofs -------------------------
(* Proofs about the fetch service, for every batch size, dictionary, chain and *)
(* number of polls in flight: what an answer of the dictionary holds, that the  *)
(* types are right and every height on its way to the indexer is finalized;     *)
(* that, until a range has counted down, the heights are in order and complete  *)
(* and their blocks decoded with the right runtime; and under which conditions  *)
(* no range ever counts down. At the end, that the cache of the provider that   *)
(* answers polls and fetches on an Algorand chain serves what was promised.     *)
EXTENDS FetchService, AlgorandProvider, FiniteSetTheorems, SequenceTheorems, TLAPS

-----------------------------------------------------------------------------
(* The answer of the dictionary                                             *)

\* The number of members of a set of heights below h.
Rank(h, S) == Cardinality({g \in S : g < h})

\* Ranks are below the cardinality and grow with the heights.
LEMMA RankProperties ==
    ASSUME NEW S, IsFiniteSet(S), S \subseteq Nat, NEW h \in S
    PROVE  /\ Cardinality(S) \in Nat
           /\ Rank(h, S) \in 0 .. Cardinality(S) - 1
           /\ \A k \in S : h < k => Rank(h, S) < Rank(k, S)
<1> DEFINE Below(k) == {g \in S : g < k}
<1>1. /\ IsFiniteSet(S \ {h})
      /\ Cardinality(S \ {h}) = Cardinality(S) - 1
  BY FS_RemoveElement
<1>2. /\ IsFiniteSet(Below(h))
      /\ Cardinality(Below(h)) <= Cardinality(S \ {h})
  <2>1. Below(h) \in SUBSET (S \ {h})
    OBVIOUS
  <2> QED  BY <1>1, <2>1, FS_Subset
<1>3. /\ Cardinality(S) \in Nat
      /\ Cardinality(Below(h)) \in Nat
  BY <1>2, FS_CardinalityType
<1>4. ASSUME NEW k \in S, h < k
      PROVE  Cardinality(Below(h)) < Cardinality(Below(k))
  <2>1. Below(k) \in SUBSET S
    OBVIOUS
  <2>2. IsFiniteSet(Below(k)) /\ Cardinality(Below(k)) \in Nat
    BY <2>1, FS_Subset, FS_CardinalityType
  <2>3. Below(h) \in SUBSET Below(k)
    <3>1. \A g \in S : g < h => g < k
      BY <1>4
    <3> QED  BY <3>1
  <2>4. h \in Below(k) /\ h \notin Below(h)
    BY <1>4
  <2>5. /\ Cardinality(Below(h)) <= Cardinality(Below(k))
        /\ Cardinality(Below(h)) = Cardinality(Below(k)) => Below(h) = Below(k)
    <3> HIDE DEF Below
    <3> QED  BY <2>2, <2>3, FS_Subset
  <2>6. Below(h) # Below(k)
    <3> HIDE DEF Below
    <3> QED  BY <2>4
  <2> HIDE DEF Below
  <2> QED  BY <1>3, <2>2, <2>5, <2>6
<1>5. /\ Cardinality(Below(h)) = Rank(h, S)
      /\ \A k \in S : Cardinality(Below(k)) = Rank(k, S)
  BY DEF Rank
<1> HIDE DEF Below
<1> QED  BY <1>1, <1>2, <1>3, <1>4, <1>5

\* The same for all members, and two members with one rank are the same.
LEMMA RankOrder ==
    ASSUME NEW S, IsFiniteSet(S), S \subseteq Nat
    PROVE  /\ Cardinality(S) \in Nat
           /\ \A h \in S : Rank(h, S) \in 0 .. Cardinality(S) - 1
           /\ \A g, h \in S : Rank(g, S) <= Rank(h, S) => g <= h
           /\ \A g, h \in S : Rank(g, S) = Rank(h, S) => g = h
<1>1. Cardinality(S) \in Nat
  BY FS_CardinalityType
<1>2. \A h \in S : Rank(h, S) \in 0 .. Cardinality(S) - 1
  BY RankProperties
<1>3. \A g, h \in S : g < h => Rank(g, S) < Rank(h, S)
  BY RankProperties
<1>4. \A g, h \in S : Rank(g, S) <= Rank(h, S) => g <= h
  <2> SUFFICES ASSUME NEW g \in S, NEW h \in S, h < g
               PROVE  ~(Rank(g, S) <= Rank(h, S))
    OBVIOUS
  <2>1. Rank(h, S) < Rank(g, S)
    BY <1>3
  <2>2. Rank(g, S) \in Int /\ Rank(h, S) \in Int
    BY <1>1, <1>2
  <2> QED  BY <2>1, <2>2
<1>5. \A g, h \in S : Rank(g, S) = Rank(h, S) => g = h
  <2> SUFFICES ASSUME NEW g \in S, NEW h \in S, Rank(g, S) = Rank(h, S)
               PROVE  g = h
    OBVIOUS
  <2>1. Rank(g, S) \in Int /\ Rank(h, S) \in Int
    BY <1>1, <1>2
  <2>2. g <= h /\ h <= g
    BY <1>4, <2>1
  <2>3. g \in Nat /\ h \in Nat
    OBVIOUS
  <2> QED  BY <2>2, <2>3
<1> QED  BY <1>1, <1>2, <1>4, <1>5

\* Every rank below the cardinality is some member's.
LEMMA RankSurjective ==
    ASSUME NEW S, IsFiniteSet(S), S \subseteq Nat,
           NEW i \in 1 .. Cardinality(S)
    PROVE  \E h \in S : Rank(h, S) = i - 1
<1> DEFINE n == Cardinality(S)
           U == 0 .. n - 1
           T == U \ {i - 1}
           f == [h \in S |-> Rank(h, S)]
<1>1. n \in Nat /\ \A h \in S : Rank(h, S) \in U
  BY RankOrder
<1>2. SUFFICES ASSUME \A h \in S : Rank(h, S) # i - 1
               PROVE  FALSE
  OBVIOUS
<1>3. f \in [S -> T]
  BY <1>1, <1>2
<1>4. IsFiniteSet(T) /\ Cardinality(T) < n
  <2>1. 0 \in Int /\ n - 1 \in Int /\ (0 > n - 1 <=> n = 0)
    BY <1>1
  <2>2. /\ IsFiniteSet(U)
        /\ Cardinality(U) = IF 0 > n - 1 THEN 0 ELSE n - 1 - 0 + 1
    <3> HIDE DEF n
    <3> QED  BY <2>1, FS_Interval
  <2>3. Cardinality(U) = n
    <3> HIDE DEF n, U
    <3> QED  BY <1>1, <2>1, <2>2
  <2>4. i - 1 \in U
    BY <1>1
  <2>5. /\ IsFiniteSet(U \ {i - 1})
        /\ Cardinality(U \ {i - 1}) = Cardinality(U) - 1
    <3> HIDE DEF U
    <3> QED  BY <2>2, <2>4, FS_RemoveElement
  <2> HIDE DEF U, n
  <2> QED  BY <1>1, <2>3, <2>5
<1>5. PICK g \in S, h \in S : g # h /\ f[g] = f[h]
  <2> HIDE DEF T, f
  <2> QED  BY <1>3, <1>4, FS_PigeonHole DEF n
<1>6. Rank(g, S) = Rank(h, S)
  BY <1>5
<1> QED  BY <1>5, <1>6, RankOrder

\* Ascending lists exactly the members of the set, in strictly ascending order.
LEMMA AscendingProperties ==
    ASSUME NEW S, IsFiniteSet(S), S \subseteq Nat
    PROVE  /\ Ascending(S) \in Seq(S)
           /\ Ascending(S) \in Seq(Nat)
           /\ Len(Ascending(S)) = Cardinality(S)
           /\ \A h \in S : \E i \in 1 .. Len(Ascending(S)) : Ascending(S)[i] = h
           /\ \A i, j \in 1 .. Len(Ascending(S)) :
                  i < j => Ascending(S)[i] < Ascending(S)[j]
<1> DEFINE n == Cardinality(S)
           A == Ascending(S)
<1>1. n \in Nat /\ \A h \in S : Rank(h, S) \in 0 .. n - 1
  BY RankOrder
<1>2. A = [i \in 1 .. n |-> CHOOSE h \in S : Rank(h, S) = i - 1]
  BY DEF Ascending, Rank
<1>3. \A i \in 1 .. n : A[i] \in S /\ Rank(A[i], S) = i - 1
  <2> TAKE i \in 1 .. n
  <2>1. \E h \in S : Rank(h, S) = i - 1
    BY RankSurjective
  <2>2. A[i] = CHOOSE h \in S : Rank(h, S) = i - 1
    BY <1>2
  <2> HIDE DEF A
  <2> QED  BY <2>1, <2>2
<1> HIDE DEF A
<1>4. A \in [1 .. n -> S]
  BY <1>2, <1>3
<1> HIDE DEF n
<1>5. A \in Seq(S) /\ Len(A) = n
  BY <1>1, <1>4
<1>6. A \in Seq(Nat)
  <2>1. A \in [1 .. n -> Nat]
    BY <1>4
  <2> QED  BY <1>1, <2>1
<1>7. \A i, j \in 1 .. n : i < j => A[i] < A[j]
  <2> SUFFICES ASSUME NEW i \in 1 .. n, NEW j \in 1 .. n, i < j
               PROVE  A[i] < A[j]
    OBVIOUS
  <2>1. /\ A[i] \in S /\ Rank(A[i], S) = i - 1
        /\ A[j] \in S /\ Rank(A[j], S) = j - 1
    BY <1>3
  <2>2. Rank(A[i], S) <= Rank(A[j], S) /\ Rank(A[i], S) # Rank(A[j], S)
    BY <1>1, <2>1
  <2>3. A[i] <= A[j]
    BY <2>1, <2>2, RankOrder
  <2>4. A[i] # A[j]
    BY <2>2
  <2>5. A[i] \in Nat /\ A[j] \in Nat
    BY <2>1
  <2> QED  BY <2>3, <2>4, <2>5
<1>8. \A h \in S : \E i \in 1 .. n : A[i] = h
  <2> TAKE h \in S
  <2>1. Rank(h, S) + 1 \in 1 .. n
    BY <1>1
  <2>2. A[Rank(h, S) + 1] \in S /\ Rank(A[Rank(h, S) + 1], S) = Rank(h, S)
    BY <1>1, <1>3, <2>1
  <2>3. A[Rank(h, S) + 1] = h
    BY <2>2, RankOrder
  <2> QED  BY <2>1, <2>3
<1> QED  BY <1>5, <1>6, <1>7, <1>8 DEF A, n

\* A finite set of heights that is not empty has a least member.
LEMMA LeastHeight ==
    ASSUME NEW S, IsFiniteSet(S), S \subseteq Nat, S # {}
    PROVE  \E m \in S : \A g \in S : m <= g
<1>1. 1 \in 1 .. Cardinality(S)
  BY FS_EmptySet, FS_CardinalityType
<1>2. PICK m \in S : Rank(m, S) = 1 - 1
  BY <1>1, RankSurjective
<1>3. \A g \in S : Rank(m, S) <= Rank(g, S)
  <2>1. Cardinality(S) \in Nat /\ \A g \in S : Rank(g, S) \in 0 .. Cardinality(S) - 1
    BY RankOrder
  <2> QED  BY <1>2, <2>1
<1> QED  BY <1>3, RankOrder

\* The heights of an entity's answer lie in the queried range, what lies below
\* one of them is in the answer too, and an answer to some rows is not empty.
LEMMA NodeHeightsProperties ==
    ASSUME RowsAssumption, NEW entity, NEW startBlock \in Nat,
           NEW queryEndBlock \in Nat, NEW batchSize \in Nat \ {0},
           NEW lastProcessed \in Nat
    PROVE  LET rows == Selected(entity, startBlock, queryEndBlock, lastProcessed)
               heights == NodeHeights(entity, startBlock, queryEndBlock,
                                      batchSize, lastProcessed)
           IN  /\ IsFiniteSet(heights)
               /\ \A h \in heights : \E row \in rows : row.blockHeight = h
               /\ \A row \in rows :
                      /\ row \in Rows
                      /\ row.blockHeight \in Nat
                      /\ row.blockHeight \in startBlock .. lastProcessed
                      /\ row.blockHeight < queryEndBlock
               /\ \A row \in rows :
                      \/ row.blockHeight \in heights
                      \/ \A h \in heights : h < row.blockHeight
               /\ rows # {} => heights # {}
<1> DEFINE rows == Selected(entity, startBlock, queryEndBlock, lastProcessed)
           heights == NodeHeights(entity, startBlock, queryEndBlock,
                                  batchSize, lastProcessed)
           Below(h) == {row \in rows : row.blockHeight < h}
           all == {row.blockHeight : row \in rows}
<1>1. /\ rows \in SUBSET Rows
      /\ \A row \in rows : /\ row.blockHeight \in startBlock .. lastProcessed
                           /\ row.blockHeight < queryEndBlock
                           /\ row.blockHeight \in Nat
  BY RowsAssumption DEF Selected, RowsAssumption
<1>2. IsFiniteSet(rows)
  BY <1>1, RowsAssumption, FS_Subset DEF RowsAssumption
<1>3. IsFiniteSet(all)
  <2>1. all \in SUBSET (0 .. lastProcessed)
    BY <1>1
  <2>2. IsFiniteSet(0 .. lastProcessed)
    <3>1. 0 \in Int /\ lastProcessed \in Int
      OBVIOUS
    <3> QED  BY <3>1, FS_Interval, Zenon
  <2> HIDE DEF all
  <2> QED  BY <2>1, <2>2, FS_Subset
<1>4. heights = {h \in all : Cardinality(Below(h)) < batchSize}
  BY DEF NodeHeights
<1>5. \A h : IsFiniteSet(Below(h)) /\ Cardinality(Below(h)) \in Nat
  <2> TAKE h
  <2>1. Below(h) \in SUBSET rows
    OBVIOUS
  <2> HIDE DEF Below, rows
  <2> QED  BY <1>2, <2>1, FS_Subset, FS_CardinalityType
<1>6. ASSUME NEW row \in rows, row.blockHeight \notin heights,
             NEW h \in heights
      PROVE  h < row.blockHeight
  <2> SUFFICES ASSUME row.blockHeight <= h PROVE FALSE
    BY <1>1, <1>4, <1>6
  <2>1. row.blockHeight \in all
    OBVIOUS
  <2>2. ~(Cardinality(Below(row.blockHeight)) < batchSize)
    BY <1>4, <1>6, <2>1
  <2>3. Below(row.blockHeight) \in SUBSET Below(h)
    <3>1. \A r \in rows : r.blockHeight < row.blockHeight => r.blockHeight < h
      BY <1>1, <1>4, <1>6
    <3> QED  BY <3>1
  <2>4. Cardinality(Below(row.blockHeight)) <= Cardinality(Below(h))
    <3> HIDE DEF Below
    <3> QED  BY <1>5, <2>3, FS_Subset
  <2>5. Cardinality(Below(h)) < batchSize
    BY <1>4
  <2> HIDE DEF Below, rows, heights
  <2> QED  BY <1>5, <2>2, <2>4, <2>5
<1>7. ASSUME rows # {} PROVE heights # {}
  <2>1. all # {} /\ all \subseteq Nat
    BY <1>1, <1>7
  <2>2. PICK m \in all : \A g \in all : m <= g
    <3> HIDE DEF all
    <3> QED  BY <1>3, <2>1, LeastHeight
  <2>3. Below(m) = {}
    BY <1>1, <2>2
  <2>4. Cardinality(Below(m)) = 0
    BY <2>3, FS_EmptySet
  <2> HIDE DEF Below, heights
  <2> QED  BY <1>4, <2>4
<1>8. IsFiniteSet(heights) /\ heights \subseteq all
  <2>1. heights \in SUBSET all
    BY <1>4
  <2> HIDE DEF heights, all
  <2> QED  BY <1>3, <2>1, FS_Subset
<1>9. \A h \in heights : \E row \in rows : row.blockHeight = h
  BY <1>8
<1> HIDE DEF rows, heights
<1> QED  BY <1>1, <1>6, <1>7, <1>8, <1>9 DEF rows, heights

\* The batch of getDictionary lies in the queried range, holds only relevant
\* heights, and misses none of them up to its last one; it is empty only when
\* the range, as far as the dictionary has got, holds no relevant height.
THEOREM BatchHeightsComplete ==
    ASSUME RowsAssumption, NEW startBlock \in Nat,
           NEW queryEndBlock \in Nat, NEW batchSize \in Nat \ {0},
           NEW lastProcessed \in Nat
    PROVE  LET batch == BatchHeights(startBlock, queryEndBlock, batchSize,
                                     lastProcessed)
           IN  /\ IsFiniteSet(batch)
               /\ batch \subseteq Nat
               /\ batch \subseteq RelevantHeights
               /\ \A h \in batch : /\ h \in startBlock .. lastProcessed
                                   /\ h < queryEndBlock
               /\ \A h \in RelevantHeights :
                      /\ h \in startBlock .. lastProcessed
                      /\ h < queryEndBlock
                      => \/ h \in batch
                         \/ batch # {} /\ \A g \in batch : g < h
<1> DEFINE batch == BatchHeights(startBlock, queryEndBlock, batchSize,
                                 lastProcessed)
           rows(e) == Selected(e, startBlock, queryEndBlock, lastProcessed)
           nodes(e) == NodeHeights(e, startBlock, queryEndBlock, batchSize,
                                   lastProcessed)
           union == UNION {nodes(e) : e \in Entities}
           Past(h) == PastSomeEnd(h, startBlock, queryEndBlock, batchSize,
                                  lastProcessed)
<1>1. \A e : /\ \A h \in nodes(e) : \E row \in rows(e) : row.blockHeight = h
             /\ \A row \in rows(e) :
                    /\ row \in Rows
                    /\ row.blockHeight \in Nat
                    /\ row.blockHeight \in startBlock .. lastProcessed
                    /\ row.blockHeight < queryEndBlock
                    /\ \/ row.blockHeight \in nodes(e)
                       \/ \A h \in nodes(e) : h < row.blockHeight
             /\ rows(e) # {} => nodes(e) # {}
  <2> TAKE e
  <2>1. /\ IsFiniteSet(nodes(e))
        /\ \A h \in nodes(e) : \E row \in rows(e) : row.blockHeight = h
        /\ \A row \in rows(e) :
               /\ row \in Rows
               /\ row.blockHeight \in Nat
               /\ row.blockHeight \in startBlock .. lastProcessed
               /\ row.blockHeight < queryEndBlock
        /\ \A row \in rows(e) :
               \/ row.blockHeight \in nodes(e)
               \/ \A h \in nodes(e) : h < row.blockHeight
        /\ rows(e) # {} => nodes(e) # {}
    BY NodeHeightsProperties, Zenon
  <2> HIDE DEF rows, nodes
  <2> QED  BY <2>1
<1>2. \A h \in union : \E e \in Entities : h \in nodes(e)
  OBVIOUS
<1>3. \A h \in union : /\ h \in RelevantHeights
                       /\ h \in Nat
                       /\ h \in startBlock .. lastProcessed
                       /\ h < queryEndBlock
  <2> TAKE h \in union
  <2>1. PICK e \in Entities : h \in nodes(e)
    BY <1>2
  <2>2. PICK row \in rows(e) : row.blockHeight = h
    BY <1>1, <2>1
  <2>3. /\ row \in Rows /\ h \in Nat
        /\ h \in startBlock .. lastProcessed /\ h < queryEndBlock
    BY <1>1, <2>2
  <2> QED  BY <2>2, <2>3 DEF RelevantHeights
<1>4. IsFiniteSet(union)
  <2>1. union \in SUBSET (0 .. lastProcessed)
    <3> HIDE DEF union
    <3> QED  BY <1>3
  <2>2. IsFiniteSet(0 .. lastProcessed)
    <3>1. 0 \in Int /\ lastProcessed \in Int
      OBVIOUS
    <3> QED  BY <3>1, FS_Interval, Zenon
  <2> HIDE DEF union
  <2> QED  BY <2>1, <2>2, FS_Subset
<1>5. batch = {h \in union : ~Past(h)}
  BY DEF BatchHeights
<1>6. \A h : Past(h) <=> \E e \in Entities :
                             nodes(e) # {} /\ \A g \in nodes(e) : g < h
  BY DEF PastSomeEnd
<1>7. \A e \in Entities : nodes(e) \subseteq union
  OBVIOUS
<1> HIDE DEF batch, union, nodes, rows, Past
<1>8. IsFiniteSet(batch)
  <2>1. batch \in SUBSET union
    BY <1>5
  <2> QED  BY <1>4, <2>1, FS_Subset
<1>9. union # {} => batch # {}
  <2> HAVE union # {}
  <2>1. union \subseteq Nat
    BY <1>3
  <2>2. PICK m \in union : \A g \in union : m <= g
    BY <1>4, <2>1, LeastHeight
  <2>3. ~Past(m)
    <3> SUFFICES ASSUME NEW e \in Entities, NEW g \in nodes(e), g < m
                 PROVE  FALSE
      BY <1>6
    <3>1. m <= g /\ g \in Nat /\ m \in Nat
      BY <1>7, <2>1, <2>2
    <3> QED  BY <3>1
  <2> QED  BY <1>5, <2>3
<1>10. ASSUME NEW h \in RelevantHeights, h \in startBlock .. lastProcessed,
              h < queryEndBlock, h \notin batch
       PROVE  batch # {} /\ \A g \in batch : g < h
  <2>1. PICK row \in Rows : row.blockHeight = h
    BY DEF RelevantHeights
  <2>2. row.entity \in Entities /\ row \in rows(row.entity)
    BY <1>10, <2>1, RowsAssumption DEF rows, Selected, RowsAssumption
  <2>3. Past(h)
    <3>1. CASE h \in nodes(row.entity)
      BY <1>5, <1>7, <1>10, <2>2, <3>1
    <3>2. CASE h \notin nodes(row.entity)
      <4>1. \A g \in nodes(row.entity) : g < h
        BY <1>1, <2>1, <2>2, <3>2
      <4>2. nodes(row.entity) # {}
        BY <1>1, <2>2
      <4> QED  BY <1>6, <2>2, <4>1, <4>2
    <3> QED  BY <3>1, <3>2
  <2>4. PICK e \in Entities : nodes(e) # {} /\ \A g \in nodes(e) : g < h
    BY <1>6, <2>3
  <2>5. batch # {}
    BY <1>7, <1>9, <2>4
  <2>6. ASSUME NEW b \in batch PROVE b < h
    <3>1. PICK g \in nodes(e) : ~(g < b)
      BY <1>5, <1>6, <2>4
    <3>2. g \in Nat /\ b \in Nat /\ h \in Nat /\ g < h
      BY <1>3, <1>5, <1>7, <1>10, <2>4
    <3> QED  BY <3>1, <3>2
  <2> QED  BY <2>5, <2>6
<1> QED  BY <1>3, <1>5, <1>8, <1>10 DEF batch
-----------------------------------------------------------------------------
(* The queue                                                                *)

\* takeAll splits the queue: what it returns, then what it leaves.
LEMMA TakeAllSplits ==
    ASSUME NEW S, NEW queue \in Seq(S), NEW max \in Nat
    PROVE  /\ TakeAllItems(queue, max) \in Seq(S)
           /\ TakeAllRest(queue, max) \in Seq(S)
           /\ TakeAllItems(queue, max) \o TakeAllRest(queue, max) = queue
           /\ Len(TakeAllRest(queue, max)) <= Len(queue)
           /\ max # 0 => Len(TakeAllItems(queue, max)) <= max
           /\ queue # << >> => TakeAllItems(queue, max) # << >>
<1>1. Len(queue) \in Nat /\ \A i \in 1 .. Len(queue) : queue[i] \in S
  BY LenProperties, ElementOfSeq
<1>2. CASE TakesEverything(queue, max)
  <2>1. TakeAllItems(queue, max) = queue /\ TakeAllRest(queue, max) = << >>
    BY <1>2 DEF TakeAllItems, TakeAllRest
  <2>2. queue \o << >> = queue
    BY ConcatEmptySeq
  <2>3. max # 0 => Len(queue) <= max
    BY <1>1, <1>2 DEF TakesEverything
  <2> QED  BY <1>1, <2>1, <2>2, <2>3
<1>3. CASE ~TakesEverything(queue, max)
  <2>1. max \in 1 .. Len(queue) - 1
    BY <1>1, <1>3 DEF TakesEverything
  <2>2. /\ TakeAllItems(queue, max) = SubSeq(queue, 1, max)
        /\ TakeAllRest(queue, max) = SubSeq(queue, max + 1, Len(queue))
    BY <1>3 DEF TakeAllItems, TakeAllRest
  <2>3. SubSeq(queue, 1, max) \in Seq(S) /\ Len(SubSeq(queue, 1, max)) = max
    BY <1>1, <2>1
  <2>4. /\ SubSeq(queue, max + 1, Len(queue)) \in Seq(S)
        /\ Len(SubSeq(queue, max + 1, Len(queue))) = Len(queue) - max
    BY <1>1, <2>1
  <2>5. SubSeq(queue, 1, max) \o SubSeq(queue, max + 1, Len(queue)) = queue
    <3>1. /\ 1 \in 1 .. Len(queue) + 1
          /\ max \in 1 - 1 .. Len(queue)
          /\ Len(queue) \in max .. Len(queue)
      BY <1>1, <2>1
    <3>2. SubSeq(queue, 1, max) \o SubSeq(queue, max + 1, Len(queue))
            = SubSeq(queue, 1, Len(queue))
      BY <3>1, ConcatAdjacentSubSeq
    <3>3. SubSeq(queue, 1, Len(queue)) = queue
      BY SubSeqFull, Zenon
    <3> QED  BY <3>2, <3>3, Zenon
  <2>6. SubSeq(queue, 1, max) # << >>
    BY <2>1, <2>3
  <2>7. Len(queue) - max <= Len(queue) /\ max <= max
    BY <1>1, <2>1
  <2> QED  BY <2>2, <2>3, <2>4, <2>5, <2>6, <2>7
<1> QED  BY <1>2, <1>3
-----------------------------------------------------------------------------
(* Type correctness                                                         *)

\* What each await point says of the locals of its loop.
ControlOK ==
    /\ register = "next" => \E block \in BlockType : indexing = << block >>
    /\ register # "next" => indexing = << >>
    /\ fillBlock.pc \in {"meta", "blocks"} =>
           /\ fillBlock.batch # << >>
           /\ Len(fillBlock.batch) <= FreeSize(blockBuffer, QueueSize)
    /\ fillBlock.pc \in {"loop", "done"} => fillBlock.batch = << >>
    /\ fillNext.pc = "dictionary" =>
           /\ fillNext.size >= 1
           /\ fillNext.size <= FreeSize(blockNumberBuffer, QueueSize)

TypeInv == TypeOK /\ ControlOK

\* The batch sizes of a round are natural numbers, the number of heights to
\* buffer a positive one.
LEMMA BatchSizeTypes ==
    ASSUME TypeInv
    PROVE  /\ QueueSize \in Nat
           /\ RoundedBatchSize \in Nat
           /\ ScaledBatchSize \in Nat \ {0}
           /\ TakeCount \in Nat
           /\ TakeCount <= FreeSize(blockBuffer, QueueSize)
           /\ BestHead \in Nat
           /\ BestHead <= MaxHeight + BestLead
           /\ StartBlockHeight \in Nat
<1>1. QueueSize \in Nat
  BY FetchAssumption DEF FetchAssumption, QueueSize
<1>2. RoundedBatchSize \in Nat
  <2>1. 2 * batchSizeScale * BatchSize + 10 \in Nat
    <3>1. batchSizeScale \in Nat /\ BatchSize \in Nat
      BY FetchAssumption DEF FetchAssumption, TypeInv, TypeOK
    <3> QED  BY <3>1
  <2> QED  BY <2>1 DEF RoundedBatchSize
<1>3. ScaledBatchSize \in Nat \ {0}
  BY <1>2, FetchAssumption DEF FetchAssumption, ScaledBatchSize, Larger
<1>4. TakeCount \in Nat /\ TakeCount <= FreeSize(blockBuffer, QueueSize)
  <2>1. Len(blockBuffer) \in Nat /\ Len(blockBuffer) <= QueueSize
    BY DEF TypeInv, TypeOK
  <2> QED  BY <1>1, <1>2, <2>1 DEF TakeCount, FreeSize, Smaller
<1>5. BestHead \in Nat /\ BestHead <= MaxHeight + BestLead
  BY FetchAssumption DEF FetchAssumption, TypeInv, TypeOK, BestHead
<1>6. StartBlockHeight \in Nat
  BY FetchAssumption DEF FetchAssumption, TypeInv, TypeOK, StartBlockHeight
<1> QED  BY <1>1, <1>2, <1>3, <1>4, <1>5, <1>6

\* The range of a round: at most size heights when it ascends, and no longer
\* than the distance back to the finalized head when that has moved back.
LEMMA RangeTypes ==
    ASSUME TypeInv, NEW start \in Nat, NEW size \in Nat \ {0}
    PROVE  LET end == NextEndBlockHeight(start, size)
               heights == LodashRange(start, end + 1)
           IN  /\ end \in Nat
               /\ heights \in Seq(Nat)
               /\ start <= end + 1 =>
                      /\ Len(heights) = end + 1 - start
                      /\ Len(heights) <= size
                      /\ \A i \in 1 .. Len(heights) : heights[i] = start + i - 1
<1> DEFINE end == NextEndBlockHeight(start, size)
           heights == LodashRange(start, end + 1)
<1>1. end \in Nat /\ end <= start + size - 1
  <2>1. latestFinalizedHeight = Undefined \/ latestFinalizedHeight \in Nat
    BY DEF TypeInv, TypeOK
  <2> QED  BY <2>1 DEF NextEndBlockHeight, AboveFinalized
<1> HIDE DEF end
<1>2. CASE start <= end + 1
  <2> DEFINE to == end + 1
             n == to - start
  <2>1. heights = [i \in 1 .. n |-> start + i - 1]
    <3>1. start <= to /\ heights = LodashRange(start, to)
      BY <1>2
    <3> HIDE DEF to
    <3> QED  BY <3>1, Zenon DEF LodashRange
  <2>2. n \in Nat /\ n <= size /\ n = end + 1 - start
    BY <1>1, <1>2
  <2> HIDE DEF n, heights
  <2>3. heights \in Seq(Nat) /\ Len(heights) = n
    BY <2>1, <2>2
  <2> QED  BY <1>1, <1>2, <2>1, <2>2, <2>3 DEF end, heights
<1>3. CASE ~(start <= end + 1)
  <2>1. heights = [i \in 1 .. start - (end + 1) |-> start - i + 1]
    BY <1>3 DEF LodashRange
  <2>2. start - (end + 1) \in Nat
    BY <1>1, <1>3
  <2>3. heights \in Seq(Nat)
    BY <1>1, <2>1, <2>2
  <2> QED  BY <1>1, <1>3, <2>3 DEF end
<1> QED  BY <1>2, <1>3
\* What a valid answer of the dictionary holds, for every state it is asked in.
LEMMA DictionaryBatch ==
    ASSUME TypeInv, fillNext.pc = "dictionary",
           NEW lastProcessed \in fillNext.start .. finalizedHead
    PROVE  LET blocks == BatchBlocks(fillNext.start, QueryEndBlock,
                                     fillNext.size, lastProcessed)
               top == Smaller(QueryEndBlock - 1, lastProcessed)
           IN  /\ blocks \in Seq(Nat)
               /\ top \in Nat /\ top >= fillNext.start
               /\ \A i \in 1 .. Len(blocks) : blocks[i] \in fillNext.start .. top
               /\ \A i, j \in 1 .. Len(blocks) : i < j => blocks[i] < blocks[j]
               /\ blocks = << >> =>
                      \A h \in RelevantHeights : h \notin fillNext.start .. top
               /\ blocks # << >> =>
                      /\ Len(blocks) \in Nat \ {0}
                      /\ \A h \in RelevantHeights :
                             h \in fillNext.start .. blocks[Len(blocks)] =>
                                 \E i \in 1 .. Len(blocks) : blocks[i] = h
<1> DEFINE start == fillNext.start
           end == QueryEndBlock
           size == fillNext.size
           B == BatchHeights(start, end, size, lastProcessed)
           blocks == Ascending(B)
           top == Smaller(end - 1, lastProcessed)
<1>1. /\ start \in Nat /\ size \in Nat \ {0} /\ end \in Nat
      /\ end - 1 >= start /\ lastProcessed \in Nat
  <2>1. start \in Nat /\ size \in Nat /\ finalizedHead \in Nat
    BY FetchAssumption DEF FetchAssumption, TypeInv, TypeOK
  <2>2. size # 0
    BY DEF TypeInv, ControlOK
  <2>3. DictionaryMaxQuerySize \in Nat \ {0}
    BY FetchAssumption DEF FetchAssumption
  <2> QED  BY <2>1, <2>2, <2>3 DEF QueryEndBlock
<1> HIDE DEF start, end, size
<1>2. /\ IsFiniteSet(B) /\ B \subseteq Nat
      /\ \A h \in B : h \in start .. lastProcessed /\ h < end
      /\ \A h \in RelevantHeights :
             h \in start .. lastProcessed /\ h < end =>
                 h \in B \/ (B # {} /\ \A g \in B : g < h)
  BY <1>1, RowsAssumption, BatchHeightsComplete
<1> HIDE DEF B
<1>3. /\ blocks \in Seq(B)
      /\ blocks \in Seq(Nat)
      /\ Len(blocks) = Cardinality(B)
      /\ \A h \in B : \E i \in 1 .. Len(blocks) : blocks[i] = h
      /\ \A i, j \in 1 .. Len(blocks) : i < j => blocks[i] < blocks[j]
  BY <1>2, AscendingProperties
<1> HIDE DEF blocks
<1>4. /\ top \in Nat /\ top >= start
      /\ \A h \in Nat : h \in start .. top => h \in start .. lastProcessed /\ h < end
      /\ \A h \in Nat : h \in start .. lastProcessed /\ h < end => h \in start .. top
  <2>1. lastProcessed >= start
    BY DEF start
  <2> QED  BY <1>1, <2>1 DEF Smaller
<1> HIDE DEF top
<1>5. \A i \in 1 .. Len(blocks) : blocks[i] \in B
  BY <1>3, ElementOfSeq
<1>6. \A i \in 1 .. Len(blocks) : blocks[i] \in start .. top
  BY <1>2, <1>4, <1>5
<1>7. ASSUME blocks = << >>, NEW h \in RelevantHeights
      PROVE  h \notin start .. top
  <2>1. B = {}
    BY <1>3, <1>7
  <2>2. h \in Nat
    BY RowsAssumption DEF RowsAssumption, RelevantHeights
  <2> QED  BY <1>2, <1>4, <2>1, <2>2
<1>8. ASSUME blocks # << >>
      PROVE  /\ Len(blocks) \in Nat \ {0}
             /\ \A h \in RelevantHeights :
                    h \in start .. blocks[Len(blocks)] =>
                        \E i \in 1 .. Len(blocks) : blocks[i] = h
  <2>1. Len(blocks) \in Nat \ {0}
    BY <1>3, <1>8
  <2> DEFINE greatest == blocks[Len(blocks)]
  <2>2. greatest \in B /\ greatest \in start .. top
    BY <1>5, <1>6, <2>1
  <2> HIDE DEF greatest
  <2>3. ASSUME NEW h \in RelevantHeights, h \in start .. greatest
        PROVE  h \in B
    <3>1. h \in Nat /\ h \in start .. top /\ ~(greatest < h)
      BY <1>1, <1>4, <2>2, <2>3
    <3> QED  BY <1>2, <1>4, <2>2, <3>1
  <2> QED  BY <1>3, <2>1, <2>3 DEF greatest
<1> QED  BY <1>3, <1>4, <1>6, <1>7, <1>8
         DEF blocks, B, top, start, end, size, BatchBlocks
\* The runtime at the parent of a block that exists.
LEMMA RuntimeType ==
    ASSUME TypeInv, NEW height \in Nat, Previous(height) <= BestHead
    PROVE  RuntimeAt[Previous(height)] \in Nat
<1>1. Previous(height) \in 0 .. MaxHeight + BestLead
  BY BatchSizeTypes, FetchAssumption DEF FetchAssumption, Previous
<1> QED  BY <1>1, FetchAssumption DEF FetchAssumption

LEMMA TypeInit == Init => TypeInv
<1> SUFFICES ASSUME Init PROVE TypeInv
  OBVIOUS
<1>1. TypeOK
  <2>1. /\ exited \in {"no", "rpc", "overflow", "indexing"}
        /\ countedDown \in BOOLEAN /\ isShutdown \in BOOLEAN
        /\ useDictionary \in BOOLEAN
        /\ register \in {"take", "next", "done"}
    BY FetchAssumption DEF FetchAssumption, Init
  <2> QED
    BY <2>1, FetchAssumption
    DEF FetchAssumption, Init, TypeOK, QueueSize, Undefined, BlockType
<1>2. ControlOK
  BY DEF Init, ControlOK
<1> QED  BY <1>1, <1>2 DEF TypeInv

\* A round that buffers a range, or fails to.
LEMMA RangeStepTypes ==
    ASSUME TypeInv, NEW start \in Nat, NEW size \in Nat \ {0},
           BufferRange(start, size), fillNext.pc \in {"loop", "dictionary"}
    PROVE  /\ latestBufferedHeight' \in Nat
           /\ blockNumberBuffer' \in Seq(Nat)
           /\ Len(blockNumberBuffer') <= QueueSize
           /\ fillNext' \in [pc : {"meta", "loop", "dictionary", "done"},
                             start : Nat, size : Nat]
           /\ exited' \in {"no", "rpc", "overflow", "indexing"}
           /\ countedDown' \in BOOLEAN
           /\ \/ fillNext'.pc = "loop"
              \/ UNCHANGED <<fillNext, blockNumberBuffer>>
<1> DEFINE end == NextEndBlockHeight(start, size)
           heights == LodashRange(start, end + 1)
<1>1. end \in Nat /\ heights \in Seq(Nat)
  BY RangeTypes
<1>2. /\ fillNext \in [pc : {"meta", "loop", "dictionary", "done"},
                       start : Nat, size : Nat]
      /\ blockNumberBuffer \in Seq(Nat) /\ Len(blockNumberBuffer) <= QueueSize
      /\ latestBufferedHeight \in Nat
      /\ exited \in {"no", "rpc", "overflow", "indexing"}
  BY DEF TypeInv, TypeOK
<1>3. \/ /\ CanPutAll(blockNumberBuffer, heights, QueueSize)
         /\ blockNumberBuffer' = PutAll(blockNumberBuffer, heights)
         /\ latestBufferedHeight' = end
         /\ fillNext' = [fillNext EXCEPT !.pc = "loop"]
         /\ UNCHANGED exited
      \/ /\ exited' = "overflow"
         /\ UNCHANGED <<blockNumberBuffer, latestBufferedHeight, fillNext>>
  BY DEF BufferRange
<1>0. countedDown' \in BOOLEAN
  BY Zenon DEF BufferRange
<1> HIDE DEF end, heights
<1>4. CASE /\ CanPutAll(blockNumberBuffer, heights, QueueSize)
           /\ blockNumberBuffer' = PutAll(blockNumberBuffer, heights)
           /\ latestBufferedHeight' = end
           /\ fillNext' = [fillNext EXCEPT !.pc = "loop"]
           /\ UNCHANGED exited
  <2>1. blockNumberBuffer' \in Seq(Nat) /\ Len(blockNumberBuffer') <= QueueSize
    BY <1>1, <1>2, <1>4 DEF CanPutAll, PutAll
  <2>2. fillNext' = [fillNext EXCEPT !.pc = "loop"]
    BY <1>4
  <2>3. /\ fillNext' \in [pc : {"meta", "loop", "dictionary", "done"},
                          start : Nat, size : Nat]
        /\ fillNext'.pc = "loop"
    BY <1>2, <2>2
  <2> QED  BY <1>0, <1>1, <1>2, <1>4, <2>1, <2>3
<1>5. CASE /\ exited' = "overflow"
           /\ UNCHANGED <<blockNumberBuffer, latestBufferedHeight, fillNext>>
  BY <1>0, <1>2, <1>5
<1> QED  BY <1>3, <1>4, <1>5

\* A batch is fetched as one block per height.
LEMMA FetchedBlocksType ==
    ASSUME TypeInv, FetchBlocks
    PROVE  /\ FetchedBlocks \in Seq(BlockType)
           /\ Len(FetchedBlocks) = Len(fillBlock.batch)
<1>1. fillBlock.batch \in Seq(Nat)
  BY DEF TypeInv, TypeOK
<1>2. Len(fillBlock.batch) \in Nat /\ DOMAIN fillBlock.batch = 1 .. Len(fillBlock.batch)
  BY <1>1
<1>3. ASSUME NEW i \in 1 .. Len(fillBlock.batch)
      PROVE  FetchedBlock(fillBlock.batch[i]) \in BlockType
  <2>1. fillBlock.batch[i] \in Nat /\ fillBlock.batch[i] <= BestHead
    BY <1>1, <1>2, <1>3 DEF FetchBlocks, BatchAvailable
  <2>2. RuntimeAt[Previous(fillBlock.batch[i])] \in Nat
    <3>1. Previous(fillBlock.batch[i]) <= BestHead
      BY <2>1, BatchSizeTypes DEF Previous
    <3> QED  BY <2>1, <3>1, RuntimeType
  <2> QED  BY <2>1, <2>2 DEF FetchedBlock, BlockType, TypeInv, TypeOK
<1>4. FetchedBlocks = [i \in 1 .. Len(fillBlock.batch) |->
                           FetchedBlock(fillBlock.batch[i])]
  BY <1>2 DEF FetchedBlocks
<1> QED  BY <1>2, <1>3, <1>4

LEMMA TypeStep ==
    ASSUME TypeInv, [Next]_vars
    PROVE  TypeInv'
<1> USE DEF TypeInv
<1>1. CASE UNCHANGED vars
  BY <1>1 DEF vars, TypeOK, ControlOK, FreeSize, QueueSize
<1>2. CASE ChainFinalizes
  BY <1>2, FetchAssumption
  DEF FetchAssumption, ChainFinalizes, fillNextVars, registerVars, TypeOK,
      ControlOK, FreeSize, QueueSize
<1>3. CASE PollFinalizedHead
  BY <1>3
  DEF PollFinalizedHead, fillNextVars, registerVars, TypeOK, ControlOK,
      FreeSize, QueueSize
<1>4. CASE FinalizedHeadAnswer
  BY <1>4
  DEF FinalizedHeadAnswer, fillNextVars, registerVars, TypeOK, ControlOK,
      FreeSize, QueueSize
<1>5. CASE FinalizedHeadError
  BY <1>5
  DEF FinalizedHeadError, fillNextVars, registerVars, TypeOK, ControlOK,
      FreeSize, QueueSize
<1>6. CASE CheckBatchScale
  BY <1>6
  DEF CheckBatchScale, CheckMemoryUsage, Larger, Smaller, headVars, fillNextVars, registerVars,
      TypeOK, ControlOK, FreeSize, QueueSize
<1>7. CASE OnApplicationShutdown
  BY <1>7
  DEF OnApplicationShutdown, headVars, fillNextVars, registerVars, TypeOK,
      ControlOK, FreeSize, QueueSize
<1>8. ASSUME NEW reason \in {"rpc", "overflow", "indexing"}, Exit(reason)
      PROVE  TypeInv'
  BY <1>8
  DEF Exit, headVars, fillNextVars, registerVars, TypeOK, ControlOK, FreeSize,
      QueueSize
<1>9. CASE FillNextMeta
  <2>1. parentSpecVersion' \in Nat
    <3>1. InitBlockHeight \in Nat
      BY FetchAssumption DEF FetchAssumption
    <3> QED  BY <1>9, <3>1, RuntimeType DEF FillNextMeta, FetchMeta, MetaAvailable
  <2>2. fillNext' = [fillNext EXCEPT !.pc = "loop"]
    BY <1>9 DEF FillNextMeta
  <2>3. TypeOK'
    <3>1. fillNext' \in [pc : {"meta", "loop", "dictionary", "done"},
                         start : Nat, size : Nat]
      BY <2>2 DEF TypeOK
    <3> QED
      BY <1>9, <2>1, <3>1
      DEF FillNextMeta, headVars, registerVars, TypeOK, QueueSize
  <2>4. ControlOK'
    BY <1>9, <2>1, <2>2
    DEF FillNextMeta, headVars, registerVars, TypeOK, ControlOK, FreeSize, QueueSize
  <2> QED  BY <2>3, <2>4
<1>10. CASE FillNextMetaFails
  BY <1>8, <1>10 DEF FillNextMetaFails, MetaFails
<1>11. CASE FillNextByRange
  <2>1. /\ StartBlockHeight \in Nat /\ ScaledBatchSize \in Nat \ {0}
        /\ fillNext.pc = "loop"
        /\ BufferRange(StartBlockHeight, ScaledBatchSize)
    BY <1>11, BatchSizeTypes DEF FillNextByRange, FillNextReady
  <2>2. /\ latestBufferedHeight' \in Nat
        /\ blockNumberBuffer' \in Seq(Nat)
        /\ Len(blockNumberBuffer') <= QueueSize
        /\ fillNext' \in [pc : {"meta", "loop", "dictionary", "done"},
                          start : Nat, size : Nat]
        /\ exited' \in {"no", "rpc", "overflow", "indexing"}
        /\ countedDown' \in BOOLEAN
        /\ \/ fillNext'.pc = "loop"
           \/ UNCHANGED <<fillNext, blockNumberBuffer>>
    BY <2>1, RangeStepTypes
  <2>3. TypeOK'
    BY <1>11, <2>2
    DEF FillNextByRange, headVars, registerVars, TypeOK, QueueSize
  <2>4. ControlOK'
    BY <1>11, <2>2
    DEF FillNextByRange, headVars, registerVars, TypeOK, ControlOK, FreeSize, QueueSize
  <2> QED  BY <2>3, <2>4
<1>12. CASE QueryDictionary
  <2>1. /\ StartBlockHeight \in Nat /\ ScaledBatchSize \in Nat \ {0}
        /\ FreeSize(blockNumberBuffer, QueueSize) >= ScaledBatchSize
    BY <1>12, BatchSizeTypes DEF QueryDictionary, FillNextReady
  <2> QED
    BY <1>12, <2>1
    DEF QueryDictionary, headVars, registerVars, TypeOK, ControlOK, FreeSize,
        QueueSize
<1>13. CASE DictionaryAnswer
  <2>1. PICK lastProcessed \in fillNext.start .. finalizedHead :
          LET batchBlocks == BatchBlocks(fillNext.start, QueryEndBlock,
                                         fillNext.size, lastProcessed)
          IN  \/ /\ latestBufferedHeight' = Smaller(QueryEndBlock - 1, lastProcessed)
                 /\ UNCHANGED blockNumberBuffer
              \/ /\ batchBlocks # << >>
                 /\ CanPutAll(blockNumberBuffer, batchBlocks, QueueSize)
                 /\ blockNumberBuffer' = PutAll(blockNumberBuffer, batchBlocks)
                 /\ latestBufferedHeight' = batchBlocks[Len(batchBlocks)]
    BY <1>13 DEF DictionaryAnswer
  <2> DEFINE batchBlocks == BatchBlocks(fillNext.start, QueryEndBlock,
                                        fillNext.size, lastProcessed)
  <2>2. /\ batchBlocks \in Seq(Nat)
        /\ Smaller(QueryEndBlock - 1, lastProcessed) \in Nat
        /\ batchBlocks # << >> => Len(batchBlocks) \in Nat \ {0}
    BY <1>13, DictionaryBatch DEF DictionaryAnswer
  <2>3. batchBlocks # << >> => batchBlocks[Len(batchBlocks)] \in Nat
    <3> HIDE DEF batchBlocks
    <3> QED  BY <2>2
  <2>4. latestBufferedHeight' \in Nat
    BY <2>1, <2>2, <2>3
  <2>5. blockNumberBuffer' \in Seq(Nat) /\ Len(blockNumberBuffer') <= QueueSize
    <3>1. blockNumberBuffer \in Seq(Nat) /\ Len(blockNumberBuffer) <= QueueSize
      BY DEF TypeOK
    <3>2. \/ UNCHANGED blockNumberBuffer
          \/ /\ Len(blockNumberBuffer) + Len(batchBlocks) <= QueueSize
             /\ blockNumberBuffer' = blockNumberBuffer \o batchBlocks
      BY <2>1 DEF CanPutAll, PutAll
    <3>3. batchBlocks \in Seq(Nat)
      BY <2>2
    <3> HIDE DEF batchBlocks
    <3>4. CASE UNCHANGED blockNumberBuffer
      BY <3>1, <3>4
    <3>5. CASE /\ Len(blockNumberBuffer) + Len(batchBlocks) <= QueueSize
               /\ blockNumberBuffer' = blockNumberBuffer \o batchBlocks
      BY <3>1, <3>3, <3>5
    <3> QED  BY <3>2, <3>4, <3>5
  <2>6. /\ fillNext' = [fillNext EXCEPT !.pc = "loop"]
        /\ fillNext \in [pc : {"meta", "loop", "dictionary", "done"},
                         start : Nat, size : Nat]
    BY <1>13 DEF DictionaryAnswer, TypeOK
  <2>7. /\ fillNext' \in [pc : {"meta", "loop", "dictionary", "done"},
                          start : Nat, size : Nat]
        /\ fillNext'.pc = "loop"
    BY <2>6
  <2> HIDE DEF batchBlocks
  <2> QED
    BY <1>13, <2>4, <2>5, <2>7
    DEF DictionaryAnswer, headVars, registerVars, TypeOK, ControlOK, FreeSize,
        QueueSize
<1>14. CASE DictionarySkipped
  <2>1. /\ fillNext.start \in Nat /\ fillNext.size \in Nat \ {0}
        /\ fillNext.pc = "dictionary"
        /\ BufferRange(fillNext.start, fillNext.size)
    BY <1>14 DEF DictionarySkipped, TypeOK, ControlOK
  <2> QED
    BY <1>14, <2>1, RangeStepTypes
    DEF DictionarySkipped, headVars, registerVars, TypeOK, ControlOK, FreeSize,
        QueueSize
<1>15. CASE DictionaryDisabled
  <2>1. /\ fillNext.start \in Nat /\ fillNext.size \in Nat \ {0}
        /\ fillNext.pc = "dictionary"
        /\ BufferRange(fillNext.start, fillNext.size)
    BY <1>15 DEF DictionaryDisabled, TypeOK, ControlOK
  <2>2. /\ latestBufferedHeight' \in Nat
        /\ blockNumberBuffer' \in Seq(Nat)
        /\ Len(blockNumberBuffer') <= QueueSize
        /\ fillNext' \in [pc : {"meta", "loop", "dictionary", "done"},
                          start : Nat, size : Nat]
        /\ exited' \in {"no", "rpc", "overflow", "indexing"}
        /\ countedDown' \in BOOLEAN
        /\ \/ fillNext'.pc = "loop"
           \/ UNCHANGED <<fillNext, blockNumberBuffer>>
    BY <2>1, RangeStepTypes
  <2>3. TypeOK'
    BY <1>15, <2>2
    DEF DictionaryDisabled, headVars, registerVars, TypeOK, QueueSize
  <2>4. ControlOK'
    BY <1>15, <2>2
    DEF DictionaryDisabled, headVars, registerVars, TypeOK, ControlOK, FreeSize, QueueSize
  <2> QED  BY <2>3, <2>4
<1>16. CASE FillNextStops
  <2>1. /\ fillNext' = [fillNext EXCEPT !.pc = "done"]
        /\ fillNext \in [pc : {"meta", "loop", "dictionary", "done"},
                         start : Nat, size : Nat]
    BY <1>16 DEF FillNextStops, TypeOK
  <2>2. /\ fillNext' \in [pc : {"meta", "loop", "dictionary", "done"},
                          start : Nat, size : Nat]
        /\ fillNext'.pc = "done"
    BY <2>1
  <2> QED
  BY <1>16, <2>2
  DEF FillNextStops, headVars, registerVars, TypeOK, ControlOK, FreeSize,
      QueueSize
<1>17. CASE TakeBatch
  <2> DEFINE items == TakeAllItems(blockNumberBuffer, TakeCount)
             rest == TakeAllRest(blockNumberBuffer, TakeCount)
  <2>1. /\ blockNumberBuffer \in Seq(Nat) /\ blockNumberBuffer # << >>
        /\ TakeCount \in Nat \ {0}
        /\ TakeCount <= FreeSize(blockBuffer, QueueSize)
    BY <1>17, BatchSizeTypes DEF TakeBatch, CanTake, TypeOK
  <2>2. /\ items \in Seq(Nat) /\ rest \in Seq(Nat)
        /\ Len(rest) <= Len(blockNumberBuffer)
        /\ Len(items) <= TakeCount
        /\ items # << >>
    BY <2>1, TakeAllSplits
  <2>3. /\ blockNumberBuffer' = rest
        /\ fillBlock' = [fillBlock EXCEPT !.pc = "meta", !.batch = items]
    BY <1>17 DEF TakeBatch
  <2> HIDE DEF items, rest
  <2>4. TypeOK'
    <3>1. Len(blockNumberBuffer) <= QueueSize /\ Len(blockNumberBuffer) \in Nat
      BY <2>1 DEF TypeOK
    <3>2. QueueSize \in Nat /\ Len(rest) \in Nat
      BY <2>2, BatchSizeTypes
    <3>3. Len(rest) <= QueueSize
      BY <2>2, <3>1, <3>2
    <3>4. fillBlock' \in [pc : {"loop", "meta", "blocks", "done"},
                          batch : Seq(Nat), metadataChanged : BOOLEAN]
      BY <2>2, <2>3 DEF TypeOK
    <3> QED
      BY <1>17, <2>2, <2>3, <3>3, <3>4
      DEF TakeBatch, headVars, fillNextVars, registerVars, TypeOK, QueueSize
  <2>5. Len(items) <= FreeSize(blockBuffer, QueueSize)
    <3>1. FreeSize(blockBuffer, QueueSize) \in Int
      BY BatchSizeTypes DEF FreeSize, TypeOK
    <3> QED  BY <2>1, <2>2, <3>1
  <2>6. fillNext.pc = "dictionary" =>
            fillNext.size <= FreeSize(rest, QueueSize)
    <3> SUFFICES ASSUME fillNext.pc = "dictionary"
                 PROVE  fillNext.size <= FreeSize(rest, QueueSize)
      OBVIOUS
    <3>1. fillNext.size \in Nat /\ fillNext.size <= FreeSize(blockNumberBuffer, QueueSize)
      BY DEF TypeOK, ControlOK
    <3>2. /\ Len(rest) \in Nat /\ Len(blockNumberBuffer) \in Nat
          /\ QueueSize \in Nat
      BY <2>1, <2>2, BatchSizeTypes
    <3> QED  BY <2>2, <3>1, <3>2 DEF FreeSize
  <2>7. ControlOK'
    BY <1>17, <2>2, <2>3, <2>5, <2>6
    DEF TakeBatch, headVars, fillNextVars, registerVars, ControlOK, TypeOK,
        FreeSize, QueueSize
  <2> QED  BY <2>4, <2>7
<1>18. CASE FetchBatchMeta
  <2>1. parentSpecVersion' \in Nat
    <3>1. fillBlock.batch \in Seq(Nat) /\ fillBlock.batch # << >>
      BY <1>18 DEF FetchBatchMeta, TypeOK, ControlOK
    <3>2. LastOfBatch \in Nat
      BY <3>1 DEF LastOfBatch
    <3> QED  BY <1>18, <3>2, RuntimeType DEF FetchBatchMeta, FetchMeta, MetaAvailable
  <2>2. SpecVersionChanged(LastOfBatch) \in BOOLEAN
    BY DEF SpecVersionChanged
  <2>3. /\ fillBlock' = [fillBlock EXCEPT !.pc = "blocks",
                            !.metadataChanged = SpecVersionChanged(LastOfBatch)]
        /\ fillBlock \in [pc : {"loop", "meta", "blocks", "done"},
                          batch : Seq(Nat), metadataChanged : BOOLEAN]
        /\ fillBlock.pc = "meta"
    BY <1>18 DEF FetchBatchMeta, TypeOK
  <2>4. /\ fillBlock' \in [pc : {"loop", "meta", "blocks", "done"},
                           batch : Seq(Nat), metadataChanged : BOOLEAN]
        /\ fillBlock'.pc = "blocks" /\ fillBlock'.batch = fillBlock.batch
    BY <2>2, <2>3
  <2> QED
    BY <1>18, <2>1, <2>3, <2>4
    DEF FetchBatchMeta, headVars, fillNextVars, registerVars, TypeOK, ControlOK,
        FreeSize, QueueSize
<1>19. CASE FetchBatchMetaFails
  BY <1>8, <1>19 DEF FetchBatchMetaFails, MetaFails
<1>20. CASE FetchBlocks
  <2>1. FetchedBlocks \in Seq(BlockType) /\ Len(FetchedBlocks) = Len(fillBlock.batch)
    BY <1>20, FetchedBlocksType
  <2>2. /\ Len(blockBuffer) + Len(fillBlock.batch) <= QueueSize
        /\ blockBuffer' = blockBuffer \o FetchedBlocks
    BY <1>20 DEF FetchBlocks, CanPutAll, PutAll
  <2>3. blockBuffer' \in Seq(BlockType) /\ Len(blockBuffer') <= QueueSize
    <3>1. blockBuffer \in Seq(BlockType)
      BY DEF TypeOK
    <3>2. /\ blockBuffer \o FetchedBlocks \in Seq(BlockType)
          /\ Len(blockBuffer \o FetchedBlocks) = Len(blockBuffer) + Len(FetchedBlocks)
      BY <2>1, <3>1
    <3> QED  BY <2>1, <2>2, <3>2
  <2>4. /\ fillBlock' = [pc |-> "loop", batch |-> << >>, metadataChanged |-> FALSE]
        /\ UNCHANGED <<finalizedHead, polls, latestFinalizedHeight,
                       latestBufferedHeight, latestProcessedHeight, useDictionary,
                       batchSizeScale, parentSpecVersion, isShutdown,
                       blockNumberBuffer, fillNext, register, indexing, exited,
                       countedDown>>
    BY <1>20, Zenon DEF FetchBlocks, headVars, fillNextVars, registerVars
  <2>5. TypeOK'
    BY <2>3, <2>4 DEF TypeOK, QueueSize
  <2>6. ControlOK'
    BY <2>4 DEF ControlOK, FreeSize, QueueSize
  <2> QED  BY <2>5, <2>6
<1>21. CASE FetchBlocksFails
  BY <1>8, <1>21 DEF FetchBlocksFails
<1>22. CASE FillBlockStops
  <2>1. TypeOK'
    BY <1>22
    DEF FillBlockStops, headVars, fillNextVars, registerVars, TypeOK, QueueSize
  <2>2. fillBlock' = [fillBlock EXCEPT !.pc = "done"] /\ fillBlock.batch = << >>
    BY <1>22 DEF FillBlockStops, ControlOK
  <2>3. ControlOK'
    BY <1>22, <2>2
    DEF FillBlockStops, headVars, fillNextVars, registerVars, TypeOK, ControlOK,
        FreeSize, QueueSize
  <2> QED  BY <2>1, <2>3
<1>23. CASE TakeBlock
  <2>1. /\ blockBuffer \in Seq(BlockType) /\ blockBuffer # << >>
        /\ Len(blockBuffer) <= QueueSize
    BY <1>23 DEF TakeBlock, CanTake, TypeOK
  <2>2. /\ Head(blockBuffer) \in BlockType
        /\ Tail(blockBuffer) \in Seq(BlockType)
        /\ Len(Tail(blockBuffer)) = Len(blockBuffer) - 1
    BY <2>1, HeadTailProperties
  <2>3. /\ indexing' = << Head(blockBuffer) >> /\ blockBuffer' = Tail(blockBuffer)
        /\ register' = "next"
    BY <1>23 DEF TakeBlock, TakeItem, TakeRest
  <2>4. indexing' \in Seq(BlockType) /\ Len(blockBuffer') <= QueueSize
    BY <2>1, <2>2, <2>3, BatchSizeTypes
  <2>5. TypeOK'
    BY <1>23, <2>2, <2>3, <2>4
    DEF TakeBlock, headVars, fillNextVars, TypeOK, QueueSize
  <2>6. fillBlock.pc \in {"meta", "blocks"} =>
            /\ fillBlock.batch # << >>
            /\ Len(fillBlock.batch) <= FreeSize(Tail(blockBuffer), QueueSize)
    <3> SUFFICES ASSUME fillBlock.pc \in {"meta", "blocks"}
                 PROVE  /\ fillBlock.batch # << >>
                        /\ Len(fillBlock.batch)
                               <= FreeSize(Tail(blockBuffer), QueueSize)
      OBVIOUS
    <3>1. fillBlock.batch # << >>
          /\ Len(fillBlock.batch) <= FreeSize(blockBuffer, QueueSize)
      BY DEF ControlOK
    <3>2. Len(fillBlock.batch) \in Nat
      BY DEF TypeOK
    <3>3. /\ Len(blockBuffer) \in Nat /\ Len(Tail(blockBuffer)) \in Nat
          /\ Len(Tail(blockBuffer)) <= Len(blockBuffer)
      BY <2>1, <2>2
    <3>4. QueueSize \in Nat
      BY BatchSizeTypes
    <3>5. FreeSize(blockBuffer, QueueSize) = QueueSize - Len(blockBuffer)
          /\ FreeSize(Tail(blockBuffer), QueueSize)
                 = QueueSize - Len(Tail(blockBuffer))
      BY DEF FreeSize
    <3>6. Len(fillBlock.batch) <= FreeSize(Tail(blockBuffer), QueueSize)
      BY <3>1, <3>2, <3>3, <3>4, <3>5
    <3> QED  BY <3>1, <3>6
  <2>7. ControlOK'
    BY <1>23, <2>2, <2>3, <2>6
    DEF TakeBlock, headVars, fillNextVars, ControlOK, QueueSize, FreeSize
  <2> QED  BY <2>5, <2>7
<1>24. CASE BlockIndexed
  <2>1. PICK block \in BlockType : indexing = << block >>
    BY <1>24 DEF BlockIndexed, ControlOK
  <2>2. indexing[1].height \in Nat
    BY <2>1 DEF BlockType
  <2> QED
    BY <1>24, <2>2
    DEF BlockIndexed, headVars, fillNextVars, TypeOK, ControlOK, FreeSize,
        QueueSize
<1>25. CASE IndexingFails
  BY <1>8, <1>25 DEF IndexingFails
<1> QED
  BY <1>1, <1>2, <1>3, <1>4, <1>5, <1>6, <1>7, <1>9, <1>10, <1>11, <1>12, <1>13,
     <1>14, <1>15, <1>16, <1>17, <1>18, <1>19, <1>20, <1>21, <1>22, <1>23, <1>24,
     <1>25
  DEF Next, FillNextStep, FillBlockStep, RegisterStep

\* In every state of every behaviour the variables have their types and the two
\* queues respect their size.
THEOREM TypeCorrect == Spec => []TypeOK
<1>1. Init => TypeInv
  BY TypeInit
<1>2. TypeInv /\ [Next]_vars => TypeInv'
  BY TypeStep
<1>3. TypeInv => TypeOK
  BY DEF TypeInv
<1> QED  BY <1>1, <1>2, <1>3, PTL DEF Spec
-----------------------------------------------------------------------------
(* Sequences of heights                                                     *)

\* Strictly ascending and strictly between two heights.
Ordered(heights, low, high) ==
    /\ low < high
    /\ \A i \in 1 .. Len(heights) : low < heights[i] /\ heights[i] < high
    /\ \A i, j \in 1 .. Len(heights) : i < j => heights[i] < heights[j]

\* None of the needed heights between the two is missing.
Complete(heights, low, high) ==
    \A h \in low + 1 .. high - 1 :
        h \in NeededHeights => \E i \in 1 .. Len(heights) : heights[i] = h

\* The heights a round may add: in order from high on and below newHigh, and no
\* needed one left out.
Continues(heights, high, newHigh) ==
    /\ high <= newHigh
    /\ \A i \in 1 .. Len(heights) : high <= heights[i] /\ heights[i] < newHigh
    /\ \A i, j \in 1 .. Len(heights) : i < j => heights[i] < heights[j]
    /\ \A h \in high .. newHigh - 1 :
           h \in NeededHeights => \E i \in 1 .. Len(heights) : heights[i] = h

LEMMA ConcatTypes ==
    ASSUME NEW s \in Seq(Nat), NEW t \in Seq(Nat)
    PROVE  /\ s \o t \in Seq(Nat)
           /\ Len(s) \in Nat /\ Len(t) \in Nat
           /\ Len(s \o t) = Len(s) + Len(t)
           /\ \A i \in 1 .. Len(s) : (s \o t)[i] = s[i] /\ s[i] \in Nat
           /\ \A i \in 1 .. Len(t) : (s \o t)[Len(s) + i] = t[i] /\ t[i] \in Nat
           /\ \A k \in 1 .. Len(s) + Len(t) :
                  \/ k \in 1 .. Len(s)
                  \/ \E i \in 1 .. Len(t) : k = Len(s) + i
<1>1. s \o t \in Seq(Nat) /\ Len(s \o t) = Len(s) + Len(t)
  BY ConcatProperties
<1>2. Len(s) \in Nat /\ Len(t) \in Nat
  OBVIOUS
<1>3. \A i \in 1 .. Len(s) : (s \o t)[i] = s[i] /\ s[i] \in Nat
  OBVIOUS
<1>4. \A i \in 1 .. Len(t) : (s \o t)[Len(s) + i] = t[i] /\ t[i] \in Nat
  OBVIOUS
<1>5. ASSUME NEW k \in 1 .. Len(s) + Len(t), k \notin 1 .. Len(s)
      PROVE  \E i \in 1 .. Len(t) : k = Len(s) + i
  <2>1. k - Len(s) \in 1 .. Len(t) /\ k = Len(s) + (k - Len(s))
    BY <1>2, <1>5
  <2> QED  BY <2>1
<1> QED  BY <1>1, <1>2, <1>3, <1>4, <1>5

\* Adding heights from high on keeps a sequence in order and complete.
LEMMA AppendKeepsOrder ==
    ASSUME NEW s \in Seq(Nat), NEW t \in Seq(Nat),
           NEW low \in Int, NEW high \in Int, NEW newHigh \in Int,
           Ordered(s, low, high), Complete(s, low, high),
           Continues(t, high, newHigh)
    PROVE  Ordered(s \o t, low, newHigh) /\ Complete(s \o t, low, newHigh)
<1> DEFINE r == s \o t
<1>1. /\ Len(s) \in Nat /\ Len(t) \in Nat /\ Len(r) = Len(s) + Len(t)
      /\ \A i \in 1 .. Len(s) : r[i] = s[i] /\ s[i] \in Nat
      /\ \A i \in 1 .. Len(t) : r[Len(s) + i] = t[i] /\ t[i] \in Nat
      /\ \A k \in 1 .. Len(s) + Len(t) :
             \/ k \in 1 .. Len(s)
             \/ \E i \in 1 .. Len(t) : k = Len(s) + i
  BY ConcatTypes
<1> HIDE DEF r
<1>0. \A k \in 1 .. Len(r) :
          \/ k \in 1 .. Len(s)
          \/ \E i \in 1 .. Len(t) : k = Len(s) + i
  BY <1>1
<1>2. /\ low < high /\ high <= newHigh
      /\ \A i \in 1 .. Len(s) : low < s[i] /\ s[i] < high
      /\ \A i \in 1 .. Len(t) : high <= t[i] /\ t[i] < newHigh
  BY DEF Ordered, Continues
<1>3. ASSUME NEW k \in 1 .. Len(r)
      PROVE  low < r[k] /\ r[k] < newHigh
  <2>1. CASE k \in 1 .. Len(s)
    <3>1. r[k] = s[k] /\ s[k] \in Nat
      BY <1>1, <2>1
    <3>2. low < s[k] /\ s[k] < high
      BY <1>2, <2>1
    <3>3. high <= newHigh
      BY <1>2
    <3> QED  BY <3>1, <3>2, <3>3
  <2>2. CASE \E i \in 1 .. Len(t) : k = Len(s) + i
    <3>1. PICK i \in 1 .. Len(t) : k = Len(s) + i
      BY <2>2
    <3>2. r[k] = t[i] /\ t[i] \in Nat /\ high <= t[i] /\ t[i] < newHigh
      BY <1>1, <1>2, <3>1
    <3> QED  BY <1>2, <3>2
  <2> QED  BY <1>0, <1>3, <2>1, <2>2, Zenon
<1>4. ASSUME NEW j \in 1 .. Len(r), NEW k \in 1 .. Len(r), j < k
      PROVE  r[j] < r[k]
  <2>1. CASE k \in 1 .. Len(s)
    <3>1. j \in 1 .. Len(s)
      BY <1>1, <1>4, <2>1
    <3> QED  BY <1>1, <1>4, <2>1, <3>1 DEF Ordered
  <2>2. CASE j \in 1 .. Len(s) /\ \E i \in 1 .. Len(t) : k = Len(s) + i
    <3>1. PICK i \in 1 .. Len(t) : k = Len(s) + i
      BY <2>2
    <3>2. r[k] = t[i] /\ t[i] \in Nat /\ high <= t[i]
      BY <1>1, <1>2, <3>1
    <3>3. r[j] = s[j] /\ s[j] \in Nat
      BY <1>1, <2>2
    <3>4. s[j] < high
      BY <1>2, <2>2
    <3>5. ASSUME NEW a \in Nat, NEW b \in Nat, a < high, high <= b
          PROVE  a < b
      BY <3>5
    <3>6. s[j] < t[i]
      BY <3>2, <3>3, <3>4, <3>5
    <3> QED  BY <3>2, <3>3, <3>6
  <2>3. CASE /\ \E i \in 1 .. Len(t) : j = Len(s) + i
             /\ \E i \in 1 .. Len(t) : k = Len(s) + i
    <3>1. PICK i \in 1 .. Len(t) : j = Len(s) + i
      BY <2>3
    <3>2. PICK l \in 1 .. Len(t) : k = Len(s) + l
      BY <2>3
    <3>3. i < l
      BY <1>1, <1>4, <3>1, <3>2
    <3> QED  BY <1>1, <3>1, <3>2, <3>3 DEF Continues
  <2> QED  BY <1>0, <1>4, <2>1, <2>2, <2>3, Zenon
<1>5. ASSUME NEW h \in low + 1 .. newHigh - 1, h \in NeededHeights
      PROVE  \E k \in 1 .. Len(r) : r[k] = h
  <2>1. CASE h < high
    <3>1. PICK i \in 1 .. Len(s) : s[i] = h
      BY <1>2, <1>5, <2>1 DEF Complete
    <3> QED  BY <1>1, <3>1
  <2>2. CASE high <= h
    <3>1. PICK i \in 1 .. Len(t) : t[i] = h
      BY <1>2, <1>5, <2>2 DEF Continues
    <3>2. Len(s) + i \in 1 .. Len(r)
      BY <1>1
    <3> QED  BY <1>1, <3>1, <3>2
  <2> QED  BY <2>1, <2>2
<1>6. low < newHigh
  BY <1>2
<1> QED  BY <1>3, <1>4, <1>5, <1>6 DEF r, Ordered, Complete

\* Taking the first height off, and counting from it, keeps the rest in order and
\* complete, and nothing needed lies before it.
LEMMA TailKeepsOrder ==
    ASSUME NEW s \in Seq(Nat), s # << >>,
           NEW low \in Int, NEW high \in Int,
           Ordered(s, low, high), Complete(s, low, high)
    PROVE  /\ Head(s) \in Nat /\ low < Head(s)
           /\ Ordered(Tail(s), Head(s), high) /\ Complete(Tail(s), Head(s), high)
           /\ \A h \in low + 1 .. Head(s) - 1 : h \notin NeededHeights
<1> DEFINE t == Tail(s)
           first == s[1]
<1>1. /\ Head(s) = first /\ first \in Nat
      /\ Len(s) \in Nat \ {0} /\ Len(t) = Len(s) - 1
      /\ \A i \in 1 .. Len(t) : t[i] = s[i + 1]
      /\ \A i \in 1 .. Len(s) : s[i] \in Nat
  BY HeadTailProperties
<1> HIDE DEF t
<1>2. low < first /\ first < high
  BY <1>1 DEF Ordered
<1>3. \A i \in 1 .. Len(t) : first < t[i] /\ t[i] < high
  <2> TAKE i \in 1 .. Len(t)
  <2>1. 1 \in 1 .. Len(s) /\ i + 1 \in 1 .. Len(s) /\ 1 < i + 1
    BY <1>1
  <2> QED  BY <1>1, <2>1 DEF Ordered
<1>4. \A i, j \in 1 .. Len(t) : i < j => t[i] < t[j]
  <2> TAKE i, j \in 1 .. Len(t)
  <2>1. i + 1 \in 1 .. Len(s) /\ j + 1 \in 1 .. Len(s) /\ (i < j => i + 1 < j + 1)
    BY <1>1
  <2> QED  BY <1>1, <2>1 DEF Ordered
<1>5. ASSUME NEW h \in low + 1 .. high - 1, h \in NeededHeights
      PROVE  h = first \/ \E i \in 1 .. Len(t) : t[i] = h
  <2>1. PICK i \in 1 .. Len(s) : s[i] = h
    BY <1>5 DEF Complete
  <2>2. CASE i = 1
    BY <2>1, <2>2
  <2>3. CASE i # 1
    <3>1. i - 1 \in 1 .. Len(t) /\ (i - 1) + 1 = i
      BY <1>1, <2>3
    <3> QED  BY <1>1, <2>1, <3>1
  <2> QED  BY <2>2, <2>3
<1>6. Complete(t, first, high)
  <2> SUFFICES ASSUME NEW h \in first + 1 .. high - 1, h \in NeededHeights
               PROVE  \E i \in 1 .. Len(t) : t[i] = h
    BY DEF Complete
  <2>1. h \in low + 1 .. high - 1 /\ h # first
    BY <1>1, <1>2
  <2> QED  BY <1>5, <2>1
<1>7. ASSUME NEW h \in low + 1 .. first - 1, h \in NeededHeights
      PROVE  FALSE
  <2>1. h \in low + 1 .. high - 1 /\ h < first
    BY <1>1, <1>2
  <2>2. PICK i \in 1 .. Len(t) : t[i] = h
    BY <1>5, <1>7, <2>1
  <2>3. first < h
    BY <1>3, <2>2
  <2> QED  BY <1>1, <2>1, <2>3
<1>8. Ordered(t, first, high)
  BY <1>2, <1>3, <1>4 DEF Ordered
<1> QED  BY <1>1, <1>2, <1>6, <1>7, <1>8 DEF t
\* Library facts for sequences of heights, under names that leave the provers
\* nothing to instantiate.
LEMMA HeightsAssociative ==
    ASSUME NEW s \in Seq(Nat), NEW t \in Seq(Nat), NEW u \in Seq(Nat)
    PROVE  (s \o t) \o u = s \o (t \o u)
<1> DEFINE left == (s \o t) \o u
           right == s \o (t \o u)
<1>1. /\ Len(s) \in Nat /\ Len(t) \in Nat /\ Len(u) \in Nat
      /\ s \o t \in Seq(Nat) /\ Len(s \o t) = Len(s) + Len(t)
      /\ t \o u \in Seq(Nat) /\ Len(t \o u) = Len(t) + Len(u)
  BY ConcatTypes
<1>2. /\ left \in Seq(Nat) /\ right \in Seq(Nat)
      /\ Len(left) = Len(s) + Len(t) + Len(u) /\ Len(right) = Len(left)
  BY <1>1, ConcatProperties
<1>3. ASSUME NEW i \in 1 .. Len(left)
      PROVE  left[i] = right[i]
  BY <1>1, <1>2, <1>3
<1> QED  BY <1>2, <1>3, SeqEqual

LEMMA NoHeights ==
    ASSUME NEW s \in Seq(Nat)
    PROVE  s \o << >> = s /\ << >> \o s = s
BY ConcatEmptySeq, Zenon
-----------------------------------------------------------------------------
(* The pipeline                                                             *)

LEMMA HeightsOfType ==
    ASSUME NEW blocks \in Seq(BlockType)
    PROVE  /\ HeightsOf(blocks) \in Seq(Nat)
           /\ Len(blocks) \in Nat
           /\ Len(HeightsOf(blocks)) = Len(blocks)
           /\ \A i \in 1 .. Len(blocks) : HeightsOf(blocks)[i] = blocks[i].height
<1>1. /\ Len(blocks) \in Nat /\ DOMAIN blocks = 1 .. Len(blocks)
      /\ \A i \in 1 .. Len(blocks) : blocks[i].height \in Nat
  <2>1. /\ Len(blocks) \in Nat /\ DOMAIN blocks = 1 .. Len(blocks)
        /\ \A i \in 1 .. Len(blocks) : blocks[i] \in BlockType
    BY ElementOfSeq, LenProperties
  <2>2. \A block \in BlockType : block.height \in Nat
    BY DEF BlockType
  <2> QED  BY <2>1, <2>2
<1>2. HeightsOf(blocks) = [i \in 1 .. Len(blocks) |-> blocks[i].height]
  BY <1>1 DEF HeightsOf
<1> QED  BY <1>1, <1>2

LEMMA HeightsOfConcat ==
    ASSUME NEW s \in Seq(BlockType), NEW t \in Seq(BlockType)
    PROVE  HeightsOf(s \o t) = HeightsOf(s) \o HeightsOf(t)
<1>1. /\ s \o t \in Seq(BlockType) /\ Len(s) \in Nat /\ Len(t) \in Nat
      /\ Len(s \o t) = Len(s) + Len(t)
      /\ \A i \in 1 .. Len(s) + Len(t) :
             (s \o t)[i] = IF i <= Len(s) THEN s[i] ELSE t[i - Len(s)]
  BY ConcatProperties, LenProperties
<1>2. /\ HeightsOf(s) \in Seq(Nat) /\ Len(HeightsOf(s)) = Len(s)
      /\ \A i \in 1 .. Len(s) : HeightsOf(s)[i] = s[i].height
  BY HeightsOfType
<1>3. /\ HeightsOf(t) \in Seq(Nat) /\ Len(HeightsOf(t)) = Len(t)
      /\ \A i \in 1 .. Len(t) : HeightsOf(t)[i] = t[i].height
  BY HeightsOfType
<1>4. /\ HeightsOf(s \o t) \in Seq(Nat)
      /\ Len(HeightsOf(s \o t)) = Len(s) + Len(t)
      /\ \A i \in 1 .. Len(s) + Len(t) : HeightsOf(s \o t)[i] = (s \o t)[i].height
  BY <1>1, HeightsOfType
<1> DEFINE u == HeightsOf(s) \o HeightsOf(t)
<1>5. /\ u \in Seq(Nat) /\ Len(u) = Len(s) + Len(t)
      /\ \A i \in 1 .. Len(s) + Len(t) :
             u[i] = IF i <= Len(s) THEN HeightsOf(s)[i]
                    ELSE HeightsOf(t)[i - Len(s)]
  BY <1>2, <1>3, ConcatProperties
<1> HIDE DEF u
<1>6. ASSUME NEW i \in 1 .. Len(s) + Len(t)
      PROVE  HeightsOf(s \o t)[i] = u[i]
  <2>1. CASE i <= Len(s)
    <3>1. i \in 1 .. Len(s)
      BY <1>1, <1>6, <2>1
    <3>2. (s \o t)[i] = s[i] /\ u[i] = HeightsOf(s)[i]
      BY <1>1, <1>5, <1>6, <2>1
    <3> QED  BY <1>2, <1>4, <1>6, <3>1, <3>2
  <2>2. CASE ~(i <= Len(s))
    <3>1. i - Len(s) \in 1 .. Len(t)
      BY <1>1, <1>6, <2>2
    <3>2. (s \o t)[i] = t[i - Len(s)] /\ u[i] = HeightsOf(t)[i - Len(s)]
      BY <1>1, <1>5, <1>6, <2>2
    <3> QED  BY <1>3, <1>4, <1>6, <3>1, <3>2
  <2> QED  BY <2>1, <2>2
<1> QED  BY <1>4, <1>5, <1>6, SeqEqual DEF u

LEMMA HeightsOfOne ==
    ASSUME NEW block \in BlockType
    PROVE  HeightsOf(<< block >>) = << block.height >>
<1> DEFINE blocks == << block >>
<1>1. blocks \in Seq(BlockType) /\ Len(blocks) = 1 /\ blocks[1] = block
  OBVIOUS
<1> HIDE DEF blocks
<1>2. HeightsOf(blocks) \in Seq(Nat) /\ Len(HeightsOf(blocks)) = 1
      /\ HeightsOf(blocks)[1] = block.height
  BY <1>1, HeightsOfType
<1>3. << block.height >> \in Seq(Nat) /\ Len(<< block.height >>) = 1
      /\ << block.height >>[1] = block.height
  BY DEF BlockType
<1>4. \A i \in 1 .. 1 : HeightsOf(blocks)[i] = << block.height >>[i]
  BY <1>2, <1>3
<1> QED  BY <1>2, <1>3, <1>4, SeqEqual DEF blocks

LEMMA HeightsOfNone == HeightsOf(<< >>) = << >>
<1>1. << >> \in Seq(BlockType) /\ Len(<< >>) = 0
  OBVIOUS
<1>2. HeightsOf(<< >>) \in Seq(Nat) /\ Len(HeightsOf(<< >>)) = 0
  BY <1>1, HeightsOfType, Zenon
<1> QED  BY <1>2, EmptySeq

\* The four parts of the pipeline are sequences of heights.
LEMMA PipelineType ==
    ASSUME TypeInv
    PROVE  /\ HeightsOf(indexing) \in Seq(Nat)
           /\ HeightsOf(blockBuffer) \in Seq(Nat)
           /\ fillBlock.batch \in Seq(Nat)
           /\ blockNumberBuffer \in Seq(Nat)
           /\ Pipeline \in Seq(Nat)
<1>1. /\ indexing \in Seq(BlockType) /\ blockBuffer \in Seq(BlockType)
      /\ fillBlock.batch \in Seq(Nat) /\ blockNumberBuffer \in Seq(Nat)
  BY DEF TypeInv, TypeOK
<1>2. HeightsOf(indexing) \in Seq(Nat) /\ HeightsOf(blockBuffer) \in Seq(Nat)
  BY <1>1, HeightsOfType
<1>3. HeightsOf(indexing) \o HeightsOf(blockBuffer) \in Seq(Nat)
  BY <1>2
<1>4. HeightsOf(indexing) \o HeightsOf(blockBuffer) \o fillBlock.batch \in Seq(Nat)
  BY <1>1, <1>3
<1> QED  BY <1>1, <1>2, <1>4 DEF Pipeline

\* Taking a batch moves heights from the queue of heights to the batch.
LEMMA TakeBatchMoves ==
    ASSUME TypeInv, TakeBatch
    PROVE  UNCHANGED Pipeline
<1> DEFINE X == HeightsOf(indexing) \o HeightsOf(blockBuffer)
           items == TakeAllItems(blockNumberBuffer, TakeCount)
           rest == TakeAllRest(blockNumberBuffer, TakeCount)
<1>1. X \in Seq(Nat) /\ blockNumberBuffer \in Seq(Nat)
  BY PipelineType
<1>2. /\ items \in Seq(Nat) /\ rest \in Seq(Nat)
      /\ items \o rest = blockNumberBuffer
  BY <1>1, BatchSizeTypes, TakeAllSplits
<1>3. Pipeline = X \o << >> \o blockNumberBuffer
  BY DEF Pipeline, TakeBatch, TypeInv, ControlOK
<1>4. /\ UNCHANGED <<indexing, blockBuffer>>
      /\ blockNumberBuffer' = rest
      /\ fillBlock'.batch = items
  BY DEF TakeBatch, registerVars, TypeInv, TypeOK
<1>5. Pipeline' = X \o items \o rest
  BY <1>4 DEF Pipeline
<1> HIDE DEF X, items, rest
<1>6. X \o << >> = X
  BY <1>1, ConcatEmptySeq
<1>7. X \o items \o rest = X \o (items \o rest)
  <2>1. X \in Seq(Nat) /\ items \in Seq(Nat) /\ rest \in Seq(Nat)
    BY <1>1, <1>2
  <2> QED  BY <2>1, HeightsAssociative
<1> QED  BY <1>2, <1>3, <1>5, <1>6, <1>7

\* Fetching moves the heights of the batch to the queue of blocks.
LEMMA FetchBlocksMoves ==
    ASSUME TypeInv, FetchBlocks
    PROVE  UNCHANGED Pipeline
<1> DEFINE I == HeightsOf(indexing)
           B == HeightsOf(blockBuffer)
           batch == fillBlock.batch
           N == blockNumberBuffer
<1>1. I \in Seq(Nat) /\ B \in Seq(Nat) /\ batch \in Seq(Nat) /\ N \in Seq(Nat)
  BY PipelineType
<1>2. FetchedBlocks \in Seq(BlockType) /\ HeightsOf(FetchedBlocks) = batch
  <2>1. Len(batch) \in Nat /\ DOMAIN batch = 1 .. Len(batch)
    BY <1>1
  <2>2. FetchedBlocks = [i \in 1 .. Len(batch) |-> FetchedBlock(batch[i])]
    BY <2>1 DEF FetchedBlocks
  <2>3. FetchedBlocks \in Seq(BlockType)
    BY FetchedBlocksType
  <2>4. DOMAIN FetchedBlocks = 1 .. Len(batch)
        /\ \A i \in 1 .. Len(batch) : FetchedBlocks[i].height = batch[i]
    BY <2>2 DEF FetchedBlock
  <2>5. HeightsOf(FetchedBlocks) = [i \in 1 .. Len(batch) |-> batch[i]]
    BY <2>4 DEF HeightsOf
  <2>6. batch = [i \in 1 .. Len(batch) |-> batch[i]]
    <3> HIDE DEF batch
    <3> QED  BY <1>1, <2>1
  <2> QED  BY <2>3, <2>5, <2>6
<1>3. /\ UNCHANGED <<indexing, blockNumberBuffer>>
      /\ blockBuffer' = blockBuffer \o FetchedBlocks
      /\ fillBlock'.batch = << >>
  BY DEF FetchBlocks, registerVars, PutAll
<1>4. HeightsOf(blockBuffer') = B \o batch
  <2>1. blockBuffer \in Seq(BlockType)
    BY DEF TypeInv, TypeOK
  <2>2. HeightsOf(blockBuffer \o FetchedBlocks) = B \o HeightsOf(FetchedBlocks)
    BY <1>2, <2>1, HeightsOfConcat
  <2> QED  BY <1>2, <1>3, <2>2
<1>5. Pipeline = I \o B \o batch \o N
  BY DEF Pipeline
<1>6. Pipeline' = I \o (B \o batch) \o << >> \o N
  BY <1>3, <1>4 DEF Pipeline, HeightsOf
<1> HIDE DEF I, B, batch, N
<1>7. (I \o B) \o batch = I \o (B \o batch)
  <2>1. I \in Seq(Nat) /\ B \in Seq(Nat) /\ batch \in Seq(Nat)
    BY <1>1
  <2> QED  BY <2>1, HeightsAssociative
<1>8. I \o (B \o batch) \o << >> = I \o (B \o batch)
  <2>1. I \o (B \o batch) \in Seq(Nat)
    BY <1>1
  <2> QED  BY <2>1, ConcatEmptySeq
<1> QED  BY <1>5, <1>6, <1>7, <1>8

\* Taking a block moves it from the queue of blocks to the indexer.
LEMMA TakeBlockMoves ==
    ASSUME TypeInv, TakeBlock
    PROVE  UNCHANGED Pipeline
<1> DEFINE B == HeightsOf(blockBuffer)
           first == HeightsOf(<< Head(blockBuffer) >>)
           rest == HeightsOf(Tail(blockBuffer))
<1>1. blockBuffer \in Seq(BlockType) /\ blockBuffer # << >>
  BY DEF TypeInv, TypeOK, TakeBlock, CanTake
<1>2. /\ Head(blockBuffer) \in BlockType
      /\ Tail(blockBuffer) \in Seq(BlockType)
      /\ << Head(blockBuffer) >> \in Seq(BlockType)
      /\ << Head(blockBuffer) >> \o Tail(blockBuffer) = blockBuffer
  BY <1>1
<1>3. B = first \o rest
  BY <1>2, HeightsOfConcat
<1>4. /\ indexing = << >>
      /\ indexing' = << Head(blockBuffer) >>
      /\ blockBuffer' = Tail(blockBuffer)
      /\ UNCHANGED <<fillBlock, blockNumberBuffer>>
  BY DEF TypeInv, ControlOK, TakeBlock, TakeItem, TakeRest
<1>5. Pipeline = << >> \o B \o fillBlock.batch \o blockNumberBuffer
  BY <1>4, HeightsOfNone DEF Pipeline
<1>6. Pipeline' = first \o rest \o fillBlock.batch \o blockNumberBuffer
  BY <1>4 DEF Pipeline, HeightsOf
<1>7. << >> \o B = B
  <2>1. B \in Seq(Nat)
    BY PipelineType
  <2> HIDE DEF B
  <2> QED  BY <2>1, ConcatEmptySeq
<1> HIDE DEF B, first, rest
<1> QED  BY <1>3, <1>5, <1>6, <1>7

\* An indexed block was the first of the pipeline, and leaves it.
LEMMA BlockIndexedTakes ==
    ASSUME TypeInv, BlockIndexed
    PROVE  /\ Pipeline # << >>
           /\ latestProcessedHeight' = Head(Pipeline)
           /\ Pipeline' = Tail(Pipeline)
<1> DEFINE B == HeightsOf(blockBuffer)
           batch == fillBlock.batch
           N == blockNumberBuffer
           rest == B \o batch \o N
<1>1. PICK block \in BlockType : indexing = << block >>
  BY DEF TypeInv, ControlOK, BlockIndexed
<1> DEFINE h == block.height
<1>2. B \in Seq(Nat) /\ batch \in Seq(Nat) /\ N \in Seq(Nat) /\ h \in Nat
  BY PipelineType DEF BlockType
<1>3. /\ indexing' = << >> /\ latestProcessedHeight' = h
      /\ UNCHANGED <<blockBuffer, fillBlock, blockNumberBuffer>>
  BY <1>1 DEF BlockIndexed
<1>4. Pipeline = << h >> \o B \o batch \o N
  BY <1>1, HeightsOfOne DEF Pipeline
<1>5. Pipeline' = << >> \o B \o batch \o N
  <2>1. HeightsOf(indexing') = << >>
    BY <1>3, HeightsOfNone
  <2> QED  BY <1>3, <2>1 DEF Pipeline, HeightsOf
<1> HIDE DEF B, batch, N, h
<1>6. /\ B \o batch \in Seq(Nat) /\ rest \in Seq(Nat)
      /\ << h >> \in Seq(Nat)
  BY <1>2
<1>7. << h >> \o B \o batch \o N = << h >> \o rest
  <2> DEFINE one == << h >>
             two == B \o batch
  <2>1. /\ one \in Seq(Nat) /\ B \in Seq(Nat) /\ batch \in Seq(Nat)
        /\ two \in Seq(Nat) /\ N \in Seq(Nat)
    BY <1>2, <1>6
  <2> HIDE DEF one
  <2>2. one \o B \o batch = one \o (B \o batch)
    <3>1. one \in Seq(Nat) /\ B \in Seq(Nat) /\ batch \in Seq(Nat)
      BY <2>1
    <3> QED  BY <3>1, HeightsAssociative
  <2>3. one \o (B \o batch) \o N = one \o (B \o batch \o N)
    <3>1. one \in Seq(Nat) /\ two \in Seq(Nat) /\ N \in Seq(Nat)
      BY <2>1
    <3> HIDE DEF two
    <3>2. one \o two \o N = one \o (two \o N)
      BY <3>1, HeightsAssociative
    <3> QED  BY <3>2 DEF two
  <2> QED  BY <2>2, <2>3 DEF one
<1>8. << >> \o B \o batch \o N = rest
  BY <1>2, ConcatEmptySeq
<1> HIDE DEF rest
<1>9. << h >> \o rest # << >> /\ Head(<< h >> \o rest) = h /\ Tail(<< h >> \o rest) = rest
  BY <1>2, <1>6
<1> QED  BY <1>3, <1>4, <1>5, <1>7, <1>8, <1>9

\* Buffered heights go to the end of the pipeline.
LEMMA BufferingAppends ==
    ASSUME TypeInv, NEW heights \in Seq(Nat),
           blockNumberBuffer' = blockNumberBuffer \o heights,
           UNCHANGED <<indexing, blockBuffer, fillBlock>>
    PROVE  Pipeline' = Pipeline \o heights
<1> DEFINE X == HeightsOf(indexing) \o HeightsOf(blockBuffer) \o fillBlock.batch
<1>1. X \in Seq(Nat) /\ blockNumberBuffer \in Seq(Nat)
  BY PipelineType
<1>2. Pipeline = X \o blockNumberBuffer
      /\ Pipeline' = X \o (blockNumberBuffer \o heights)
  BY DEF Pipeline, HeightsOf
<1> HIDE DEF X
<1> QED  BY <1>1, <1>2, HeightsAssociative
-----------------------------------------------------------------------------
(* The inductive invariant                                                  *)

\* What is known of the finalized head was once true, and what a lone poll
\* brings is no older.
HeadInv ==
    /\ ~InitialPollMayFail => latestFinalizedHeight # Undefined
    /\ latestFinalizedHeight <= finalizedHead
    /\ \A head \in polls : head <= finalizedHead
    /\ MaxPolls = 1 =>
           \A head \in polls : polls = {head} /\ latestFinalizedHeight <= head

\* The start that was sent to the dictionary is still where to go on.
QueryInv ==
    /\ useDictionary => UseDictionary
    /\ fillNext.pc = "dictionary" =>
           UseDictionary /\ fillNext.start = StartBlockHeight

\* The pipeline is in order and complete.
PipelineInv ==
    /\ Ordered(Pipeline, latestProcessedHeight, StartBlockHeight)
    /\ Complete(Pipeline, latestProcessedHeight, StartBlockHeight)

\* A round starts, and the pipeline ends, at or below the finalized head.
FinalizedInv ==
    /\ fillNext.pc = "dictionary" => fillNext.start <= finalizedHead
    /\ OnlyFinalized

LEMMA HeadInit == Init => HeadInv
BY FetchAssumption DEF FetchAssumption, Init, HeadInv, Undefined

LEMMA HeadStep ==
    ASSUME TypeInv, HeadInv, [Next]_vars
    PROVE  HeadInv' /\ finalizedHead' >= finalizedHead
<1>1. /\ finalizedHead \in Nat /\ latestFinalizedHeight \in Int
      /\ polls \subseteq 0 .. MaxHeight
      /\ MaxHeight \in Nat
      /\ \A head \in polls : head \in Nat
  BY FetchAssumption DEF FetchAssumption, TypeInv, TypeOK, Undefined
<1>2. CASE ChainFinalizes
  BY <1>1, <1>2 DEF ChainFinalizes, HeadInv
<1>3. CASE PollFinalizedHead
  <2>1. polls' = polls \cup {finalizedHead}
        /\ UNCHANGED <<finalizedHead, latestFinalizedHeight>>
    BY <1>3 DEF PollFinalizedHead
  <2>2. MaxPolls = 1 => polls = {}
    <3> SUFFICES ASSUME MaxPolls = 1 PROVE polls = {}
      OBVIOUS
    <3>1. IsFiniteSet(polls)
      <4>1. IsFiniteSet(0 .. MaxHeight) /\ polls \in SUBSET (0 .. MaxHeight)
        BY <1>1, FS_Interval
      <4> QED  BY <4>1, FS_Subset
    <3>2. Cardinality(polls) < 1 /\ Cardinality(polls) \in Nat
      BY <1>3, <3>1, FS_CardinalityType DEF PollFinalizedHead
    <3> QED  BY <3>1, <3>2, FS_EmptySet
  <2>3. MaxPolls = 1 => polls' = {finalizedHead}
    BY <2>1, <2>2
  <2>4. \A head \in polls' : head <= finalizedHead
    BY <1>1, <2>1 DEF HeadInv
  <2> QED  BY <1>1, <2>1, <2>3, <2>4 DEF HeadInv
<1>4. CASE FinalizedHeadAnswer
  <2>1. PICK head \in polls : polls' = polls \ {head} /\ latestFinalizedHeight' = head
    BY <1>4 DEF FinalizedHeadAnswer
  <2>2. UNCHANGED finalizedHead /\ head \in Nat
    BY <1>1, <1>4 DEF FinalizedHeadAnswer
  <2> QED  BY <1>1, <2>1, <2>2 DEF HeadInv, Undefined
<1>5. CASE FinalizedHeadError
  <2>1. PICK head \in polls : polls' = polls \ {head}
    BY <1>5 DEF FinalizedHeadError
  <2>2. UNCHANGED <<finalizedHead, latestFinalizedHeight>>
    BY <1>5 DEF FinalizedHeadError
  <2> QED  BY <1>1, <2>1, <2>2 DEF HeadInv
<1>6. CASE UNCHANGED headVars
  BY <1>1, <1>6 DEF headVars, HeadInv
<1>7. \/ ChainFinalizes \/ PollFinalizedHead \/ FinalizedHeadAnswer
      \/ FinalizedHeadError \/ UNCHANGED headVars
  BY DEF Next, vars, headVars, CheckBatchScale, OnApplicationShutdown, FillNextStep,
         FillNextMeta, FillNextMetaFails, MetaFails, Exit, FillNextByRange,
         QueryDictionary, DictionaryAnswer, DictionarySkipped,
         DictionaryDisabled, FillNextStops, FillBlockStep, TakeBatch,
         FetchBatchMeta, FetchBatchMetaFails, FetchBlocks, FetchBlocksFails,
         FillBlockStops, RegisterStep, TakeBlock, BlockIndexed, IndexingFails
<1> QED  BY <1>2, <1>3, <1>4, <1>5, <1>6, <1>7

LEMMA QueryInit == Init => QueryInv
BY DEF Init, QueryInv

LEMMA QueryStep ==
    ASSUME TypeInv, QueryInv, [Next]_vars
    PROVE  QueryInv'
<1>1. CASE UNCHANGED fillNextVars
  BY <1>1 DEF fillNextVars, StartBlockHeight, QueryInv
<1>2. CASE QueryDictionary
  <2>1. /\ fillNext'.start = StartBlockHeight
        /\ UNCHANGED <<latestBufferedHeight, useDictionary>>
        /\ useDictionary
    BY <1>2 DEF QueryDictionary, FillNextReady
  <2> QED  BY <2>1 DEF QueryInv, StartBlockHeight
<1>3. ASSUME NEW start, NEW size, BufferRange(start, size),
             fillNext.pc \in {"loop", "dictionary"},
             useDictionary' => useDictionary
      PROVE  QueryInv'
  <2>1. fillNext \in [pc : {"meta", "loop", "dictionary", "done"},
                      start : Nat, size : Nat]
    BY DEF TypeInv, TypeOK
  <2>2. \/ fillNext' = [fillNext EXCEPT !.pc = "loop"]
        \/ UNCHANGED <<fillNext, latestBufferedHeight>>
    BY <1>3 DEF BufferRange
  <2>3. CASE fillNext' = [fillNext EXCEPT !.pc = "loop"]
    <3>1. fillNext'.pc = "loop"
      BY <2>1, <2>3
    <3> QED  BY <1>3, <3>1 DEF QueryInv
  <2>4. CASE UNCHANGED <<fillNext, latestBufferedHeight>>
    BY <1>3, <2>4 DEF QueryInv, StartBlockHeight
  <2> QED  BY <2>2, <2>3, <2>4
<1>4. CASE FillNextByRange \/ DictionarySkipped \/ DictionaryDisabled
  BY <1>3, <1>4
  DEF FillNextByRange, FillNextReady, DictionarySkipped, DictionaryDisabled
<1>5. CASE FillNextMeta \/ FillNextStops \/ DictionaryAnswer
  <2>1. /\ fillNext \in [pc : {"meta", "loop", "dictionary", "done"},
                         start : Nat, size : Nat]
        /\ \/ fillNext' = [fillNext EXCEPT !.pc = "loop"]
           \/ fillNext' = [fillNext EXCEPT !.pc = "done"]
        /\ UNCHANGED useDictionary
    BY <1>5 DEF FillNextMeta, FillNextStops, DictionaryAnswer, TypeInv, TypeOK
  <2>2. fillNext'.pc # "dictionary"
    BY <2>1
  <2> QED  BY <2>1, <2>2 DEF QueryInv
<1>6. \/ UNCHANGED fillNextVars \/ QueryDictionary
      \/ FillNextByRange \/ DictionarySkipped \/ DictionaryDisabled
      \/ FillNextMeta \/ FillNextStops \/ DictionaryAnswer
  BY DEF Next, vars, fillNextVars, ChainFinalizes, PollFinalizedHead,
         FinalizedHeadAnswer, FinalizedHeadError, CheckBatchScale,
         OnApplicationShutdown, FillNextStep, FillNextMetaFails, MetaFails, Exit,
         FillBlockStep, TakeBatch, FetchBatchMeta, FetchBatchMetaFails,
         FetchBlocks, FetchBlocksFails, FillBlockStops, RegisterStep, TakeBlock,
         BlockIndexed, IndexingFails
<1> QED  BY <1>1, <1>2, <1>4, <1>5, <1>6
-----------------------------------------------------------------------------
(* What a round of fillNextBlockBuffer adds                                 *)

LEMMA StartBlockPositive ==
    ASSUME InitBlockHeight > 0, TypeInv
    PROVE  StartBlockHeight \in Nat \ {0}
BY FetchAssumption
DEF FetchAssumption, TypeInv, TypeOK, StartBlockHeight

\* A range that does not count down fits and goes on from its start.
LEMMA RangeContinues ==
    ASSUME TypeInv, NEW start \in Nat, NEW size \in Nat \ {0},
           start <= NextEndBlockHeight(start, size) + 1,
           size <= FreeSize(blockNumberBuffer, QueueSize)
    PROVE  LET end == NextEndBlockHeight(start, size)
               heights == LodashRange(start, end + 1)
           IN  /\ heights \in Seq(Nat)
               /\ end \in Nat
               /\ Continues(heights, start, end + 1)
               /\ CanPutAll(blockNumberBuffer, heights, QueueSize)
<1> DEFINE end == NextEndBlockHeight(start, size)
           heights == LodashRange(start, end + 1)
<1>1. Len(blockNumberBuffer) \in Nat /\ QueueSize \in Nat
  BY BatchSizeTypes DEF TypeInv, TypeOK
<1>2. start <= end + 1
  OBVIOUS
<1>3. /\ end \in Nat
      /\ heights \in Seq(Nat)
      /\ start <= end + 1 =>
             /\ Len(heights) = end + 1 - start
             /\ Len(heights) <= size
             /\ \A i \in 1 .. Len(heights) : heights[i] = start + i - 1
  BY RangeTypes
<1> HIDE DEF end, heights
<1>4. /\ Len(heights) \in Nat
      /\ Len(heights) = end + 1 - start
      /\ Len(heights) <= size
      /\ \A i \in 1 .. Len(heights) : heights[i] = start + i - 1
  BY <1>2, <1>3
<1>5. Continues(heights, start, end + 1)
  <2>1. start <= end + 1
    BY <1>2
  <2>2. \A i \in 1 .. Len(heights) : start <= heights[i] /\ heights[i] < end + 1
    BY <1>3, <1>4
  <2>3. \A i, j \in 1 .. Len(heights) : i < j => heights[i] < heights[j]
    BY <1>4
  <2>4. ASSUME NEW h \in start .. (end + 1) - 1
        PROVE  \E i \in 1 .. Len(heights) : heights[i] = h
    <3>1. h - start + 1 \in 1 .. Len(heights) /\ start + (h - start + 1) - 1 = h
      BY <1>3, <1>4, <2>4
    <3>2. heights[h - start + 1] = h
      BY <1>4, <3>1
    <3> QED  BY <3>1, <3>2
  <2> QED  BY <2>1, <2>2, <2>3, <2>4 DEF Continues
<1>6. CanPutAll(blockNumberBuffer, heights, QueueSize)
  BY <1>1, <1>4 DEF CanPutAll, FreeSize
<1> QED  BY <1>3, <1>5, <1>6 DEF end, heights

\* What a round buffers lies at or above where it starts.
BuffersAhead ==
    /\ latestBufferedHeight' \in Nat /\ StartBlockHeight <= latestBufferedHeight' + 1
    /\ StartBlockHeight' = latestBufferedHeight' + 1
    /\ \E heights \in Seq(Nat) :
           /\ blockNumberBuffer' = blockNumberBuffer \o heights
           /\ \A i \in 1 .. Len(heights) : heights[i] >= StartBlockHeight

\* The pipeline invariant survives a round that adds what it should.
LEMMA FillKeeps ==
    ASSUME InitBlockHeight > 0, TypeInv, PipelineInv,
           NEW heights \in Seq(Nat),
           blockNumberBuffer' = blockNumberBuffer \o heights,
           UNCHANGED <<indexing, blockBuffer, fillBlock, latestProcessedHeight>>,
           latestBufferedHeight' \in Nat,
           Continues(heights, StartBlockHeight, latestBufferedHeight' + 1)
    PROVE  PipelineInv' /\ BuffersAhead
<1>0. StartBlockHeight <= latestBufferedHeight' + 1
  BY DEF Continues
<1>1. Pipeline' = Pipeline \o heights /\ Pipeline \in Seq(Nat)
  BY BufferingAppends, PipelineType
<1>2. StartBlockHeight' = latestBufferedHeight' + 1
  <2>1. CASE latestBufferedHeight' # 0
    BY <2>1 DEF StartBlockHeight
  <2>2. CASE latestBufferedHeight' = 0
    <3>1. /\ InitBlockHeight \in Nat /\ latestBufferedHeight \in Nat
          /\ StartBlockHeight <= 1
      BY <1>0, <2>2, FetchAssumption DEF FetchAssumption, TypeInv, TypeOK
    <3>2. InitBlockHeight = 1
      BY <3>1 DEF StartBlockHeight
    <3> QED  BY <2>2, <3>2 DEF StartBlockHeight
  <2> QED  BY <2>1, <2>2
<1>3. /\ latestProcessedHeight \in Int /\ StartBlockHeight \in Int
      /\ latestBufferedHeight' + 1 \in Int
  BY StartBlockPositive, FetchAssumption DEF FetchAssumption, TypeInv, TypeOK
<1>4. /\ Ordered(Pipeline, latestProcessedHeight, StartBlockHeight)
      /\ Complete(Pipeline, latestProcessedHeight, StartBlockHeight)
  BY DEF PipelineInv
<1>5. /\ Ordered(Pipeline \o heights, latestProcessedHeight, latestBufferedHeight' + 1)
      /\ Complete(Pipeline \o heights, latestProcessedHeight, latestBufferedHeight' + 1)
  BY <1>1, <1>3, <1>4, AppendKeepsOrder
<1>6. /\ Ordered(Pipeline, latestProcessedHeight, StartBlockHeight)'
      /\ Complete(Pipeline, latestProcessedHeight, StartBlockHeight)'
  BY <1>1, <1>2, <1>5 DEF Ordered, Complete, NeededHeights
<1>8. BuffersAhead
  <2>1. \A i \in 1 .. Len(heights) : heights[i] >= StartBlockHeight
    <3>1. \A i \in 1 .. Len(heights) : heights[i] \in Int /\ StartBlockHeight <= heights[i]
      BY DEF Continues
    <3> QED  BY <1>3, <3>1
  <2> QED  BY <1>0, <1>2, <2>1 DEF BuffersAhead
<1> QED  BY <1>6, <1>8 DEF PipelineInv

\* The invariant survives a round by range that does not count down.
LEMMA RangeKeeps ==
    ASSUME InitBlockHeight > 0, TypeInv, PipelineInv,
           NEW size \in Nat \ {0}, BufferRange(StartBlockHeight, size),
           ~countedDown',
           size <= FreeSize(blockNumberBuffer, QueueSize),
           UNCHANGED <<indexing, blockBuffer, fillBlock, latestProcessedHeight>>
    PROVE  PipelineInv' /\ BuffersAhead /\ exited' = exited
<1> DEFINE start == StartBlockHeight
           end == NextEndBlockHeight(start, size)
           heights == LodashRange(start, end + 1)
<1>1. start \in Nat /\ end \in Nat
  BY StartBlockPositive, RangeTypes
<1>2. start <= end + 1
  <2>1. ~(end + 1 < start)
    BY DEF BufferRange
  <2> HIDE DEF start, end
  <2> QED  BY <1>1, <2>1
<1>3. /\ heights \in Seq(Nat)
      /\ Continues(heights, start, end + 1)
      /\ CanPutAll(blockNumberBuffer, heights, QueueSize)
  BY <1>1, <1>2, RangeContinues
<1>4. /\ blockNumberBuffer' = blockNumberBuffer \o heights
      /\ latestBufferedHeight' = end
      /\ exited' = exited
  BY <1>3 DEF BufferRange, PutAll
<1> HIDE DEF heights, end
<1> QED  BY <1>1, <1>3, <1>4, FillKeeps DEF start

\* The invariant survives a round by dictionary.
LEMMA AnswerKeeps ==
    ASSUME InitBlockHeight > 0, TypeInv, QueryInv, PipelineInv, DictionaryAnswer
    PROVE  PipelineInv' /\ BuffersAhead /\ exited' = exited
<1>1. PICK lastProcessed \in fillNext.start .. finalizedHead :
      LET batchBlocks == BatchBlocks(fillNext.start, QueryEndBlock,
                                     fillNext.size, lastProcessed)
      IN  \/ /\ batchBlocks = << >>
             /\ latestBufferedHeight' = Smaller(QueryEndBlock - 1, lastProcessed)
             /\ UNCHANGED blockNumberBuffer
          \/ /\ batchBlocks # << >>
             /\ blockNumberBuffer' = PutAll(blockNumberBuffer, batchBlocks)
             /\ latestBufferedHeight' = batchBlocks[Len(batchBlocks)]
  BY DEF DictionaryAnswer
<1> DEFINE start == fillNext.start
           blocks == BatchBlocks(start, QueryEndBlock, fillNext.size, lastProcessed)
           top == Smaller(QueryEndBlock - 1, lastProcessed)
<1>2. /\ UNCHANGED <<indexing, blockBuffer, fillBlock, latestProcessedHeight, exited>>
      /\ start = StartBlockHeight
      /\ NeededHeights = RelevantHeights
  BY DEF DictionaryAnswer, DictionaryValid, QueryInv, NeededHeights, registerVars
<1>3. /\ blocks \in Seq(Nat)
      /\ top \in Nat /\ top >= start
      /\ \A i \in 1 .. Len(blocks) : blocks[i] \in start .. top
      /\ \A i, j \in 1 .. Len(blocks) : i < j => blocks[i] < blocks[j]
      /\ blocks = << >> => \A h \in RelevantHeights : h \notin start .. top
      /\ blocks # << >> =>
             /\ Len(blocks) \in Nat \ {0}
             /\ \A h \in RelevantHeights :
                    h \in start .. blocks[Len(blocks)] =>
                        \E i \in 1 .. Len(blocks) : blocks[i] = h
  BY DictionaryBatch DEF DictionaryAnswer
<1>4. start \in Nat
  BY DEF TypeInv, TypeOK
<1>5. \/ /\ blocks = << >>
         /\ latestBufferedHeight' = top
         /\ UNCHANGED blockNumberBuffer
      \/ /\ blocks # << >>
         /\ blockNumberBuffer' = blockNumberBuffer \o blocks
         /\ latestBufferedHeight' = blocks[Len(blocks)]
  BY <1>1 DEF PutAll
<1> HIDE DEF start, blocks, top
<1>7. CASE /\ blocks = << >>
           /\ latestBufferedHeight' = top
           /\ UNCHANGED blockNumberBuffer
  <2>1. blockNumberBuffer' = blockNumberBuffer \o blocks
    BY <1>7 DEF TypeInv, TypeOK
  <2>2. Continues(blocks, start, top + 1)
    <3>1. start <= top + 1 /\ Len(blocks) = 0
      BY <1>3, <1>4, <1>7
    <3>2. \A h \in start .. (top + 1) - 1 : h \notin NeededHeights
      BY <1>2, <1>3, <1>4, <1>7
    <3> QED  BY <3>1, <3>2 DEF Continues
  <2> QED  BY <1>2, <1>3, <1>7, <2>1, <2>2, FillKeeps
<1>8. CASE /\ blocks # << >>
           /\ blockNumberBuffer' = blockNumberBuffer \o blocks
           /\ latestBufferedHeight' = blocks[Len(blocks)]
  <2> DEFINE last == blocks[Len(blocks)]
  <2>1. last \in Nat /\ start <= last
    BY <1>3, <1>4, <1>8
  <2>2. Continues(blocks, start, last + 1)
    <3>1. \A i \in 1 .. Len(blocks) :
              blocks[i] \in Nat /\ start <= blocks[i] /\ blocks[i] <= last
      <4> TAKE i \in 1 .. Len(blocks)
      <4>1. i = Len(blocks) \/ i < Len(blocks)
        BY <1>3, <1>8
      <4>2. blocks[i] \in Nat /\ start <= blocks[i]
        BY <1>3, <1>4
      <4>3. Len(blocks) \in 1 .. Len(blocks)
        BY <1>3, <1>8
      <4>4. CASE i = Len(blocks)
        BY <2>1, <4>2, <4>4
      <4>5. CASE i < Len(blocks)
        BY <1>3, <2>1, <4>2, <4>3, <4>5
      <4> QED  BY <4>1, <4>4, <4>5
    <3> HIDE DEF last
    <3>2. start <= last + 1
      BY <1>4, <2>1
    <3>3. \A i \in 1 .. Len(blocks) : start <= blocks[i] /\ blocks[i] < last + 1
      BY <2>1, <3>1
    <3>4. \A h \in start .. (last + 1) - 1 :
              h \in NeededHeights => \E i \in 1 .. Len(blocks) : blocks[i] = h
      BY <1>2, <1>3, <1>8, <2>1 DEF last
    <3> QED  BY <1>3, <3>2, <3>3, <3>4 DEF Continues
  <2> QED  BY <1>2, <1>3, <1>8, <2>1, <2>2, FillKeeps
<1> QED  BY <1>2, <1>5, <1>7, <1>8
-----------------------------------------------------------------------------
(* The invariant is inductive                                               *)

FetchInv == TypeInv /\ QueryInv /\ (countedDown \/ PipelineInv)

LEMMA EmptyPipeline ==
    ASSUME Init
    PROVE  Pipeline = << >>
<1>1. indexing = << >> /\ blockBuffer = << >> /\ blockNumberBuffer = << >>
      /\ fillBlock.batch = << >>
  BY DEF Init
<1>2. HeightsOf(<< >>) = << >>
  BY HeightsOfNone
<1>3. << >> \o << >> = << >>
  BY ConcatEmptySeq, EmptySeq
<1> QED  BY <1>1, <1>2, <1>3 DEF Pipeline

LEMMA PipelineInit ==
    ASSUME InitBlockHeight > 0, Init
    PROVE  PipelineInv
<1>1. Pipeline = << >>
  BY EmptyPipeline
<1>2. /\ latestProcessedHeight = InitBlockHeight - 1
      /\ StartBlockHeight = InitBlockHeight
      /\ InitBlockHeight \in Nat
  BY FetchAssumption DEF FetchAssumption, Init, StartBlockHeight
<1>3. Len(Pipeline) = 0 /\ DOMAIN Pipeline = {}
  BY <1>1
<1> QED  BY <1>2, <1>3 DEF PipelineInv, Ordered, Complete

\* A step that leaves the pipeline and both of its ends alone.
LEMMA MoveKeeps ==
    ASSUME PipelineInv,
           UNCHANGED <<Pipeline, latestProcessedHeight, latestBufferedHeight>>
    PROVE  PipelineInv'
<1>1. UNCHANGED StartBlockHeight
  BY DEF StartBlockHeight
<1>2. /\ Ordered(Pipeline, latestProcessedHeight, StartBlockHeight)'
      /\ Complete(Pipeline, latestProcessedHeight, StartBlockHeight)'
  BY <1>1 DEF PipelineInv, Ordered, Complete, NeededHeights
<1> QED  BY <1>2 DEF PipelineInv

\* An indexed block is the next one of the stream.
LEMMA IndexedKeeps ==
    ASSUME TypeInv, PipelineInv, BlockIndexed, InitBlockHeight > 0
    PROVE  /\ PipelineInv'
           /\ latestProcessedHeight < latestProcessedHeight'
           /\ OnlyFinalized => latestProcessedHeight' <= finalizedHead
           /\ \A h \in latestProcessedHeight + 1 .. latestProcessedHeight' - 1 :
                  h \notin NeededHeights
<1> DEFINE p == Pipeline
<1>1. /\ p \in Seq(Nat) /\ p # << >>
      /\ latestProcessedHeight' = Head(p)
      /\ Pipeline' = Tail(p)
  BY PipelineType, BlockIndexedTakes
<1>2. UNCHANGED StartBlockHeight
  BY DEF BlockIndexed, fillNextVars, StartBlockHeight
<1>3. latestProcessedHeight \in Int /\ StartBlockHeight \in Int
  BY StartBlockPositive, FetchAssumption DEF FetchAssumption, TypeInv, TypeOK
<1>4. /\ Ordered(p, latestProcessedHeight, StartBlockHeight)
      /\ Complete(p, latestProcessedHeight, StartBlockHeight)
      /\ (OnlyFinalized => \A i \in DOMAIN p : p[i] <= finalizedHead)
  BY DEF PipelineInv, OnlyFinalized
<1> HIDE DEF p
<1>5. /\ Head(p) \in Nat /\ latestProcessedHeight < Head(p)
      /\ Ordered(Tail(p), Head(p), StartBlockHeight)
      /\ Complete(Tail(p), Head(p), StartBlockHeight)
      /\ \A h \in latestProcessedHeight + 1 .. Head(p) - 1 : h \notin NeededHeights
  BY <1>1, <1>3, <1>4, TailKeepsOrder
<1>6. /\ Ordered(Pipeline, latestProcessedHeight, StartBlockHeight)'
      /\ Complete(Pipeline, latestProcessedHeight, StartBlockHeight)'
  BY <1>1, <1>2, <1>5 DEF Ordered, Complete, NeededHeights
<1>7. OnlyFinalized => Head(p) <= finalizedHead
  <2>1. Len(p) \in Nat \ {0} /\ Head(p) = p[1]
    BY <1>1, HeadTailProperties
  <2>2. 1 \in DOMAIN p
    BY <1>1, <2>1
  <2> QED  BY <1>4, <2>1, <2>2
<1> QED  BY <1>1, <1>5, <1>6, <1>7 DEF PipelineInv

\* What every round of fillNextBlockBuffer that buffers does, unless it counts down.
LEMMA RoundKeeps ==
    ASSUME InitBlockHeight > 0, FetchInv, ~countedDown, ~countedDown',
           FillNextByRange \/ DictionarySkipped \/ DictionaryDisabled \/ DictionaryAnswer
    PROVE  PipelineInv' /\ BuffersAhead /\ exited' = exited
<1> TypeInv /\ QueryInv /\ PipelineInv
  BY DEF FetchInv
<1>1. CASE FillNextByRange
  <2>1. /\ ScaledBatchSize \in Nat \ {0}
        /\ BufferRange(StartBlockHeight, ScaledBatchSize)
        /\ FreeSize(blockNumberBuffer, QueueSize) >= ScaledBatchSize
        /\ UNCHANGED <<indexing, blockBuffer, fillBlock, latestProcessedHeight>>
    BY <1>1, BatchSizeTypes DEF FillNextByRange, FillNextReady, registerVars
  <2>2. ScaledBatchSize <= FreeSize(blockNumberBuffer, QueueSize)
    BY <2>1
  <2> QED  BY <2>1, <2>2, RangeKeeps
<1>2. CASE DictionarySkipped \/ DictionaryDisabled
  <2>1. /\ fillNext.pc = "dictionary"
        /\ BufferRange(fillNext.start, fillNext.size)
        /\ UNCHANGED <<indexing, blockBuffer, fillBlock, latestProcessedHeight>>
    BY <1>2 DEF DictionarySkipped, DictionaryDisabled, registerVars
  <2>2. /\ fillNext.size \in Nat \ {0}
        /\ fillNext.size <= FreeSize(blockNumberBuffer, QueueSize)
        /\ fillNext.start = StartBlockHeight
    BY <2>1 DEF TypeInv, TypeOK, ControlOK, QueryInv
  <2> QED  BY <2>1, <2>2, RangeKeeps
<1>3. CASE DictionaryAnswer
  BY <1>3, AnswerKeeps
<1> QED  BY <1>1, <1>2, <1>3

\* What a step does with the pipeline before any range counts down: buffer,
\* index, or nothing.
LEMMA PipelineStep ==
    ASSUME InitBlockHeight > 0, FetchInv, ~countedDown, ~countedDown',
           [Next]_vars, ~BlockIndexed
    PROVE  PipelineInv' /\ UNCHANGED latestProcessedHeight
<1> TypeInv /\ PipelineInv
  BY DEF FetchInv
<1>2. CASE TakeBatch \/ FetchBlocks \/ TakeBlock
  <2>1. UNCHANGED Pipeline
    BY <1>2, TakeBatchMoves, FetchBlocksMoves, TakeBlockMoves
  <2>2. UNCHANGED <<latestProcessedHeight, latestBufferedHeight>>
    BY <1>2
    DEF TakeBatch, FetchBlocks, TakeBlock, fillNextVars, registerVars
  <2> QED  BY <2>1, <2>2, MoveKeeps
<1>3. CASE FillNextByRange \/ DictionarySkipped \/ DictionaryDisabled \/ DictionaryAnswer
  BY <1>3, RoundKeeps
  DEF FillNextByRange, DictionarySkipped, DictionaryDisabled, DictionaryAnswer, registerVars
<1>4. CASE UNCHANGED <<indexing, blockBuffer, fillBlock.batch, blockNumberBuffer,
                       latestProcessedHeight, latestBufferedHeight>>
  BY <1>4, MoveKeeps DEF Pipeline, HeightsOf
<1>5. \/ TakeBatch \/ FetchBlocks \/ TakeBlock \/ FillNextByRange
      \/ DictionarySkipped \/ DictionaryDisabled \/ DictionaryAnswer
      \/ UNCHANGED <<indexing, blockBuffer, fillBlock.batch, blockNumberBuffer,
                     latestProcessedHeight, latestBufferedHeight>>
  <2>1. FetchBatchMeta \/ FillBlockStops => UNCHANGED fillBlock.batch
    BY DEF FetchBatchMeta, FillBlockStops, TypeInv, TypeOK
  <2> QED
    BY <2>1
    DEF Next, vars, fillNextVars, registerVars, ChainFinalizes,
        PollFinalizedHead, FinalizedHeadAnswer, FinalizedHeadError,
        CheckBatchScale, OnApplicationShutdown, FillNextStep, FillNextMeta,
        FillNextMetaFails, MetaFails, Exit, QueryDictionary, FillNextStops,
        FillBlockStep, FetchBatchMeta, FetchBatchMetaFails, FetchBlocksFails,
        FillBlockStops, RegisterStep, IndexingFails
<1> QED  BY <1>2, <1>3, <1>4, <1>5

\* What has counted down once has for ever; only rounds that fall back or go by
\* range count down.
LEMMA CountingDown ==
    ASSUME TypeInv, [Next]_vars
    PROVE  /\ countedDown => countedDown'
           /\ \/ FillNextByRange \/ DictionarySkipped \/ DictionaryDisabled
              \/ UNCHANGED countedDown
<1>1. \/ FillNextByRange \/ DictionarySkipped \/ DictionaryDisabled
      \/ UNCHANGED countedDown
  BY DEF Next, vars, fillNextVars, ChainFinalizes, PollFinalizedHead,
         FinalizedHeadAnswer, FinalizedHeadError, CheckBatchScale,
         OnApplicationShutdown, FillNextStep, FillNextMeta, FillNextMetaFails,
         MetaFails, Exit, QueryDictionary, DictionaryAnswer, FillNextStops,
         FillBlockStep, TakeBatch, FetchBatchMeta, FetchBatchMetaFails,
         FetchBlocks, FetchBlocksFails, FillBlockStops, RegisterStep, TakeBlock,
         BlockIndexed, IndexingFails
<1>2. ASSUME NEW start, NEW size, BufferRange(start, size), countedDown
      PROVE  countedDown'
  BY <1>2, Zenon DEF BufferRange
<1>3. FillNextByRange \/ DictionarySkipped \/ DictionaryDisabled =>
          \E start, size : BufferRange(start, size)
  BY Zenon DEF FillNextByRange, DictionarySkipped, DictionaryDisabled
<1>4. countedDown => countedDown'
  BY <1>1, <1>2, <1>3, Zenon
<1> QED  BY <1>1, <1>4, Zenon

LEMMA FetchInit ==
    ASSUME InitBlockHeight > 0
    PROVE  Init => FetchInv
BY TypeInit, QueryInit, PipelineInit DEF FetchInv

LEMMA FetchStep ==
    ASSUME InitBlockHeight > 0
    PROVE  FetchInv /\ [Next]_vars => FetchInv'
<1> SUFFICES ASSUME FetchInv, [Next]_vars PROVE FetchInv'
  OBVIOUS
<1>1. TypeInv' /\ QueryInv'
  BY TypeStep, QueryStep DEF FetchInv
<1>2. CASE countedDown'
  BY <1>1, <1>2 DEF FetchInv
<1>3. CASE ~countedDown'
  <2>1. ~countedDown
    BY <1>3, CountingDown, Zenon DEF FetchInv
  <2>2. PipelineInv'
    BY <1>3, <2>1, PipelineStep, IndexedKeeps DEF FetchInv
  <2> QED  BY <1>1, <2>2 DEF FetchInv
<1> QED  BY <1>2, <1>3
-----------------------------------------------------------------------------
(* The theorems                                                             *)

\* The invariant orders the pipeline together with both of its ends.
LEMMA OrderedPipeline ==
    ASSUME InitBlockHeight > 0, FetchInv, ~countedDown
    PROVE  IndexedInOrder
<1> DEFINE lo == latestProcessedHeight
           hi == StartBlockHeight
           p == Pipeline
           lp == << lo >> \o p
           all == lp \o << hi >>
<1>1. lo \in Nat /\ hi \in Nat /\ p \in Seq(Nat)
  BY PipelineType, StartBlockPositive, FetchAssumption
  DEF FetchAssumption, FetchInv, TypeInv, TypeOK
<1>2. Ordered(p, lo, hi)
  BY DEF FetchInv, PipelineInv
<1> HIDE DEF lo, hi, p
<1>3. /\ << lo >> \in Seq(Nat) /\ Len(<< lo >>) = 1 /\ << lo >>[1] = lo
      /\ << hi >> \in Seq(Nat) /\ Len(<< hi >>) = 1 /\ << hi >>[1] = hi
  BY <1>1
<1>4. /\ lp \in Seq(Nat) /\ Len(p) \in Nat /\ Len(lp) = 1 + Len(p)
      /\ lp[1] = lo
      /\ \A i \in 1 .. Len(p) : lp[1 + i] = p[i] /\ p[i] \in Nat
      /\ \A k \in 1 .. 1 + Len(p) :
             k = 1 \/ \E i \in 1 .. Len(p) : k = 1 + i
  BY <1>1, <1>3, ConcatTypes
<1> HIDE DEF lp
<1>5. /\ all \in Seq(Nat) /\ Len(all) = Len(lp) + 1
      /\ \A i \in 1 .. Len(lp) : all[i] = lp[i]
      /\ all[Len(lp) + 1] = hi
  BY <1>3, <1>4, ConcatTypes
<1>6. DOMAIN all = 1 .. Len(p) + 2
  BY <1>4, <1>5
<1> HIDE DEF all
<1>7. /\ all[1] = lo
      /\ \A i \in 1 .. Len(p) : all[1 + i] = p[i]
      /\ all[Len(p) + 2] = hi
  <2>1. 1 \in 1 .. Len(lp) /\ Len(lp) + 1 = Len(p) + 2
    BY <1>4
  <2>2. all[1] = lp[1]
    BY <1>5, <2>1
  <2>3. \A i \in 1 .. Len(p) : 1 + i \in 1 .. Len(lp)
    BY <1>4
  <2>4. \A i \in 1 .. Len(p) : all[1 + i] = lp[1 + i]
    BY <1>5, <2>3
  <2> QED  BY <1>4, <1>5, <2>1, <2>2, <2>4
<1>8. ASSUME NEW i \in 1 .. Len(p) + 2, NEW j \in 1 .. Len(p) + 2, i < j
      PROVE  all[i] < all[j]
  <2>1. CASE i = 1 /\ j = Len(p) + 2
    BY <1>2, <1>7, <2>1 DEF Ordered
  <2>2. CASE i = 1 /\ j # Len(p) + 2
    <3>1. j - 1 \in 1 .. Len(p) /\ j = 1 + (j - 1)
      BY <1>4, <1>8, <2>2
    <3>2. all[j] = p[j - 1]
      BY <1>7, <3>1
    <3> QED  BY <1>2, <1>7, <2>2, <3>1, <3>2 DEF Ordered
  <2>3. CASE i # 1
    <3>1. i - 1 \in 1 .. Len(p) /\ i = 1 + (i - 1)
      BY <1>4, <1>8, <2>3
    <3>2. all[i] = p[i - 1]
      BY <1>7, <3>1
    <3>3. CASE j = Len(p) + 2
      BY <1>2, <1>7, <3>1, <3>2, <3>3 DEF Ordered
    <3>4. CASE j # Len(p) + 2
      <4>1. j - 1 \in 1 .. Len(p) /\ j = 1 + (j - 1) /\ i - 1 < j - 1
        <5>1. i \in Int /\ j \in Int /\ 1 <= i /\ i < j /\ j <= Len(p) + 2
          BY <1>4, <1>8
        <5>2. Len(p) \in Nat
          BY <1>4
        <5>3. j <= Len(p) + 1 /\ 2 <= j
          BY <3>4, <5>1, <5>2
        <5> QED  BY <5>1, <5>2, <5>3
      <4>2. all[j] = p[j - 1]
        BY <1>7, <4>1
      <4> QED  BY <1>2, <3>1, <3>2, <4>1, <4>2 DEF Ordered
    <3> QED  BY <3>3, <3>4
  <2> QED  BY <2>1, <2>2, <2>3
<1> QED  BY <1>6, <1>8 DEF IndexedInOrder, all, lp, lo, hi, p

\* No block is indexed twice or out of order until a range counts down, for any
\* number of polls in flight and whether or not the first one is lost.
THEOREM BlocksInOrder ==
    ASSUME InitBlockHeight > 0
    PROVE  Spec => []IndexedInOrder
<1>1. Init => FetchInv
  BY FetchInit
<1>2. FetchInv /\ [Next]_vars => FetchInv'
  BY FetchStep
<1>3. FetchInv => IndexedInOrder
  BY OrderedPipeline DEF IndexedInOrder
<1> QED  BY <1>1, <1>2, <1>3, PTL DEF Spec

\* Skipping by dictionary, disabling it and falling back to the range lose no
\* height the project needs, until a range counts down.
THEOREM NoBlockSkipped ==
    ASSUME InitBlockHeight > 0
    PROVE  Spec => []NothingSkipped
<1>1. Init => FetchInv
  BY FetchInit
<1>2. FetchInv /\ [Next]_vars => FetchInv'
  BY FetchStep
<1>3. FetchInv => NothingSkipped
  <2> SUFFICES ASSUME FetchInv, ~countedDown PROVE NothingSkipped
    BY DEF NothingSkipped
  <2>1. Pipeline \in Seq(Nat)
    BY PipelineType DEF FetchInv
  <2>2. DOMAIN Pipeline = 1 .. Len(Pipeline)
    BY <2>1
  <2> QED  BY <2>2 DEF FetchInv, PipelineInv, Complete, NothingSkipped
<1> QED  BY <1>1, <1>2, <1>3, PTL DEF Spec

\* No putAll of the two loops throws before a range counts down.
LEMMA OverflowStep ==
    ASSUME InitBlockHeight > 0, FetchInv, NeverOverflows, [Next]_vars
    PROVE  NeverOverflows'
<1> SUFFICES ASSUME ~countedDown' PROVE exited' # "overflow"
  BY Zenon DEF NeverOverflows
<1>0. TypeInv /\ ~countedDown /\ exited # "overflow"
  BY CountingDown, Zenon DEF FetchInv, NeverOverflows
<1>1. CASE FillNextByRange \/ DictionarySkipped \/ DictionaryDisabled
  BY <1>0, <1>1, RoundKeeps
<1>2. CASE FetchBlocksFails
  <2>1. fillBlock.pc = "blocks" =>
            CanPutAll(blockBuffer, fillBlock.batch, QueueSize)
    <3> SUFFICES ASSUME fillBlock.pc = "blocks"
                 PROVE  CanPutAll(blockBuffer, fillBlock.batch, QueueSize)
      OBVIOUS
    <3>1. Len(fillBlock.batch) <= FreeSize(blockBuffer, QueueSize)
      BY <1>0 DEF TypeInv, ControlOK
    <3>2. /\ Len(fillBlock.batch) \in Nat /\ Len(blockBuffer) \in Nat
          /\ QueueSize \in Nat
      BY <1>0, BatchSizeTypes, LenProperties DEF TypeInv, TypeOK
    <3> QED  BY <3>1, <3>2 DEF CanPutAll, FreeSize
  <2> QED  BY <1>2, <2>1 DEF FetchBlocksFails, Exit
<1>3. CASE UNCHANGED exited
  BY <1>0, <1>3
<1>4. CASE FillNextMetaFails \/ FetchBatchMetaFails \/ IndexingFails
  BY <1>4
  DEF FillNextMetaFails, FetchBatchMetaFails, IndexingFails, MetaFails, Exit
<1>5. \/ FillNextByRange \/ DictionarySkipped \/ DictionaryDisabled
      \/ FetchBlocksFails \/ UNCHANGED exited
      \/ FillNextMetaFails \/ FetchBatchMetaFails \/ IndexingFails
  BY DEF Next, vars, ChainFinalizes, PollFinalizedHead, FinalizedHeadAnswer,
         FinalizedHeadError, CheckBatchScale, OnApplicationShutdown,
         FillNextStep, FillNextMeta, QueryDictionary, DictionaryAnswer,
         FillNextStops, FillBlockStep, TakeBatch, FetchBatchMeta, FetchBlocks,
         FillBlockStops, RegisterStep, TakeBlock, BlockIndexed
<1> QED  BY <1>1, <1>2, <1>3, <1>4, <1>5

\* Until a range counts down no putAll of the two loops throws: the process does
\* not end for it.
THEOREM QueuesNeverOverflow ==
    ASSUME InitBlockHeight > 0
    PROVE  Spec => []NeverOverflows
<1> DEFINE Inv == FetchInv /\ NeverOverflows
<1>1. Init => Inv
  BY FetchInit DEF Init, NeverOverflows
<1>2. Inv /\ [Next]_vars => Inv'
  BY FetchStep, OverflowStep
<1>3. Inv => NeverOverflows
  OBVIOUS
<1> HIDE DEF Inv
<1> QED  BY <1>1, <1>2, <1>3, PTL DEF Spec

\* No round goes back below what is buffered already, unless its range counts
\* down or an earlier one has.
THEOREM BufferNeverGoesBack ==
    ASSUME InitBlockHeight > 0
    PROVE  Spec => NextBatchOnly
<1>1. Init => FetchInv
  BY FetchInit
<1>2. FetchInv /\ [Next]_vars => FetchInv'
  BY FetchStep
<1>3. FetchInv /\ [Next]_vars =>
          [countedDown' \/ latestBufferedHeight' >= latestBufferedHeight]_vars
  <2> SUFFICES ASSUME FetchInv, [Next]_vars, ~countedDown'
               PROVE  latestBufferedHeight' >= latestBufferedHeight
    OBVIOUS
  <2>0. ~countedDown
    BY CountingDown, Zenon DEF FetchInv
  <2>1. CASE FillNextByRange \/ DictionarySkipped \/ DictionaryDisabled \/ DictionaryAnswer
    <3>1. latestBufferedHeight' \in Nat /\ StartBlockHeight <= latestBufferedHeight' + 1
      BY <2>0, <2>1, RoundKeeps DEF BuffersAhead
    <3>2. /\ latestBufferedHeight \in Nat
          /\ latestBufferedHeight = 0 \/ StartBlockHeight = latestBufferedHeight + 1
      BY DEF FetchInv, TypeInv, TypeOK, StartBlockHeight
    <3> QED  BY <3>1, <3>2
  <2>2. CASE UNCHANGED latestBufferedHeight
    <3>1. latestBufferedHeight \in Nat
      BY DEF FetchInv, TypeInv, TypeOK
    <3> QED  BY <2>2, <3>1
  <2>3. \/ FillNextByRange \/ DictionarySkipped \/ DictionaryDisabled
        \/ DictionaryAnswer \/ UNCHANGED latestBufferedHeight
    BY DEF Next, vars, fillNextVars, ChainFinalizes, PollFinalizedHead,
           FinalizedHeadAnswer, FinalizedHeadError, CheckBatchScale,
           OnApplicationShutdown, FillNextStep, FillNextMeta,
           FillNextMetaFails, MetaFails, Exit, QueryDictionary, FillNextStops,
           FillBlockStep, TakeBatch, FetchBatchMeta, FetchBatchMetaFails,
           FetchBlocks, FetchBlocksFails, FillBlockStops, RegisterStep,
           TakeBlock, BlockIndexed, IndexingFails
  <2> QED  BY <2>1, <2>2, <2>3
<1> QED  BY <1>1, <1>2, <1>3, PTL DEF Spec, NextBatchOnly

-----------------------------------------------------------------------------
(* The finalized head, however the polls overtake each other                *)

\* A range from a finalized height, up or down, holds finalized heights only.
LEMMA RangeFinalized ==
    ASSUME TypeInv, HeadInv, latestFinalizedHeight # Undefined,
           NEW start \in Nat, NEW size \in Nat \ {0}, start <= finalizedHead
    PROVE  LET heights == LodashRange(start, NextEndBlockHeight(start, size) + 1)
           IN  /\ heights \in Seq(Nat)
               /\ \A i \in 1 .. Len(heights) : heights[i] <= finalizedHead
<1> DEFINE end == NextEndBlockHeight(start, size)
           heights == LodashRange(start, end + 1)
<1>1. latestFinalizedHeight \in Nat /\ finalizedHead \in Nat
  BY FetchAssumption DEF FetchAssumption, TypeInv, TypeOK, Undefined
<1>2. end <= latestFinalizedHeight
  BY <1>1 DEF NextEndBlockHeight, AboveFinalized
<1>3. end \in Nat /\ heights \in Seq(Nat)
  BY RangeTypes
<1>4. end <= finalizedHead
  BY <1>1, <1>2, <1>3 DEF HeadInv
<1> HIDE DEF end
<1>5. CASE start <= end + 1
  <2>1. heights = [i \in 1 .. (end + 1) - start |-> start + i - 1]
    BY <1>5, Zenon DEF LodashRange
  <2> HIDE DEF heights
  <2>2. (end + 1) - start \in Nat
    BY <1>3, <1>5
  <2>3. Len(heights) = (end + 1) - start
    BY <2>1, <2>2
  <2>4. \A i \in 1 .. Len(heights) : heights[i] = start + i - 1 /\ start + i - 1 <= end
    BY <1>3, <2>1, <2>2, <2>3
  <2>5. \A i \in 1 .. Len(heights) : heights[i] <= finalizedHead
    BY <1>1, <1>3, <1>4, <2>4
  <2> QED  BY <1>3, <2>5 DEF heights, end
<1>6. CASE ~(start <= end + 1)
  <2>1. heights = [i \in 1 .. start - (end + 1) |-> start - i + 1]
    BY <1>6 DEF LodashRange
  <2> HIDE DEF heights
  <2>2. start - (end + 1) \in Nat
    BY <1>3, <1>6
  <2>3. Len(heights) = start - (end + 1)
    BY <2>1, <2>2
  <2>4. \A i \in 1 .. Len(heights) : heights[i] = start - i + 1
    BY <2>1, <2>2, <2>3
  <2>5. \A i \in 1 .. Len(heights) : heights[i] <= finalizedHead
    BY <1>1, <2>4
  <2> QED  BY <1>3, <2>5 DEF heights, end
<1> QED  BY <1>5, <1>6

\* Finalized heights stay finalized heights with more of them behind.
LEMMA AppendFinalized ==
    ASSUME NEW p \in Seq(Nat), NEW heights \in Seq(Nat), NEW top \in Nat,
           \A i \in DOMAIN p : p[i] <= top,
           \A i \in 1 .. Len(heights) : heights[i] <= top
    PROVE  \A i \in DOMAIN (p \o heights) : (p \o heights)[i] <= top
<1> DEFINE q == p \o heights
<1>1. /\ Len(p) \in Nat /\ Len(heights) \in Nat
      /\ q \in Seq(Nat) /\ Len(q) = Len(p) + Len(heights)
      /\ \A i \in 1 .. Len(p) : q[i] = p[i]
      /\ \A i \in 1 .. Len(heights) : q[Len(p) + i] = heights[i]
      /\ \A k \in 1 .. Len(p) + Len(heights) :
             \/ k \in 1 .. Len(p)
             \/ \E i \in 1 .. Len(heights) : k = Len(p) + i
  BY ConcatTypes
<1> HIDE DEF q
<1>2. DOMAIN p = 1 .. Len(p)
  OBVIOUS
<1>3. \A k \in 1 .. Len(q) : q[k] <= top
  <2> TAKE k \in 1 .. Len(q)
  <2>1. CASE k \in 1 .. Len(p)
    BY <1>1, <1>2, <2>1
  <2>2. CASE \E i \in 1 .. Len(heights) : k = Len(p) + i
    BY <1>1, <2>2
  <2> QED  BY <1>1, <2>1, <2>2
<1>4. DOMAIN q = 1 .. Len(q)
  BY <1>1
<1> QED  BY <1>3, <1>4 DEF q

\* The invariant survives a round that buffers finalized heights only.
LEMMA RoundFinalized ==
    ASSUME TypeInv, FinalizedInv, NEW heights \in Seq(Nat),
           \A i \in 1 .. Len(heights) : heights[i] <= finalizedHead,
           \/ blockNumberBuffer' = blockNumberBuffer \o heights
           \/ UNCHANGED blockNumberBuffer,
           UNCHANGED <<indexing, blockBuffer, fillBlock, finalizedHead>>,
           fillNext'.pc # "dictionary" \/ UNCHANGED fillNext
    PROVE  FinalizedInv'
<1>1. finalizedHead \in Nat /\ Pipeline \in Seq(Nat)
  BY PipelineType, FetchAssumption DEF FetchAssumption, TypeInv, TypeOK
<1>2. fillNext'.pc = "dictionary" => fillNext'.start <= finalizedHead'
  BY DEF FinalizedInv
<1>3. CASE blockNumberBuffer' = blockNumberBuffer \o heights
  <2>1. Pipeline' = Pipeline \o heights
    BY <1>3, BufferingAppends
  <2> DEFINE p == Pipeline
  <2>2. p \in Seq(Nat) /\ p' = p \o heights /\ \A i \in DOMAIN p : p[i] <= finalizedHead
    BY <1>1, <2>1 DEF FinalizedInv, OnlyFinalized
  <2> HIDE DEF p
  <2>3. \A i \in DOMAIN (p \o heights) : (p \o heights)[i] <= finalizedHead
    BY <1>1, <2>2, AppendFinalized
  <2>4. \A i \in DOMAIN p' : p'[i] <= finalizedHead'
    BY <2>2, <2>3
  <2> QED  BY <1>2, <2>4 DEF p, FinalizedInv, OnlyFinalized
<1>4. CASE UNCHANGED blockNumberBuffer
  <2>1. Pipeline' = Pipeline
    BY <1>4 DEF Pipeline, HeightsOf
  <2> QED  BY <1>2, <2>1 DEF FinalizedInv, OnlyFinalized
<1> QED  BY <1>3, <1>4

LEMMA FinalizedInit == Init => FinalizedInv
<1> SUFFICES ASSUME Init PROVE FinalizedInv
  OBVIOUS
<1>1. Pipeline = << >>
  BY EmptyPipeline
<1>2. DOMAIN Pipeline = {}
  BY <1>1
<1> QED  BY <1>2 DEF Init, FinalizedInv, OnlyFinalized

LEMMA FinalizedStep ==
    ASSUME ~InitialPollMayFail, TypeInv, HeadInv, FinalizedInv, [Next]_vars
    PROVE  FinalizedInv'
<1>1. /\ latestFinalizedHeight \in Nat /\ finalizedHead \in Nat
      /\ latestFinalizedHeight # Undefined
      /\ latestFinalizedHeight <= finalizedHead
  BY FetchAssumption DEF FetchAssumption, TypeInv, TypeOK, Undefined, HeadInv
<1>2. fillNext \in [pc : {"meta", "loop", "dictionary", "done"}, start : Nat, size : Nat]
  BY DEF TypeInv, TypeOK
<1>3. ASSUME NEW start \in Nat, NEW size \in Nat \ {0}, start <= finalizedHead,
             BufferRange(start, size),
             UNCHANGED <<indexing, blockBuffer, fillBlock, finalizedHead>>
      PROVE  FinalizedInv'
  <2> DEFINE heights == LodashRange(start, NextEndBlockHeight(start, size) + 1)
  <2>1. heights \in Seq(Nat) /\ \A i \in 1 .. Len(heights) : heights[i] <= finalizedHead
    BY <1>1, <1>3, RangeFinalized
  <2>2. \/ /\ blockNumberBuffer' = blockNumberBuffer \o heights
           /\ fillNext' = [fillNext EXCEPT !.pc = "loop"]
        \/ UNCHANGED <<blockNumberBuffer, fillNext>>
    BY <1>3 DEF BufferRange, PutAll
  <2>3. fillNext'.pc # "dictionary" \/ UNCHANGED fillNext
    BY <1>2, <2>2
  <2> HIDE DEF heights
  <2> QED  BY <1>3, <2>1, <2>2, <2>3, RoundFinalized
<1>4. CASE FillNextByRange
  <2>1. /\ StartBlockHeight \in Nat /\ ScaledBatchSize \in Nat \ {0}
        /\ StartBlockHeight <= finalizedHead
    BY <1>1, <1>4, BatchSizeTypes DEF FillNextByRange, FillNextReady, AboveFinalized
  <2> QED  BY <1>3, <1>4, <2>1 DEF FillNextByRange, registerVars, headVars
<1>5. CASE DictionarySkipped \/ DictionaryDisabled
  <2>1. /\ fillNext.start \in Nat /\ fillNext.size \in Nat \ {0}
        /\ fillNext.start <= finalizedHead
    BY <1>5 DEF DictionarySkipped, DictionaryDisabled, FinalizedInv, TypeInv, TypeOK, ControlOK
  <2> QED  BY <1>3, <1>5, <2>1 DEF DictionarySkipped, DictionaryDisabled, registerVars, headVars
<1>6. CASE DictionaryAnswer
  <2>1. PICK lastProcessed \in fillNext.start .. finalizedHead :
            \/ UNCHANGED blockNumberBuffer
            \/ blockNumberBuffer' = blockNumberBuffer \o
                   BatchBlocks(fillNext.start, QueryEndBlock, fillNext.size, lastProcessed)
    BY <1>6 DEF DictionaryAnswer, PutAll
  <2> DEFINE blocks == BatchBlocks(fillNext.start, QueryEndBlock, fillNext.size, lastProcessed)
             top == Smaller(QueryEndBlock - 1, lastProcessed)
  <2>2. /\ blocks \in Seq(Nat) /\ top \in Nat
        /\ \A i \in 1 .. Len(blocks) : blocks[i] \in fillNext.start .. top
    BY <1>6, DictionaryBatch DEF DictionaryAnswer
  <2>3. top <= finalizedHead
    BY <1>1, <1>2, FetchAssumption DEF FetchAssumption, Smaller, QueryEndBlock
  <2> HIDE DEF blocks, top
  <2>4. \A i \in 1 .. Len(blocks) : blocks[i] <= finalizedHead
    BY <1>1, <1>2, <2>2, <2>3
  <2>5. fillNext'.pc # "dictionary"
    BY <1>2, <1>6 DEF DictionaryAnswer
  <2>6. UNCHANGED <<indexing, blockBuffer, fillBlock, finalizedHead>>
    BY <1>6 DEF DictionaryAnswer, registerVars, headVars
  <2> QED  BY <2>1, <2>2, <2>4, <2>5, <2>6, RoundFinalized DEF blocks
<1>7. CASE BlockIndexed
  <2> DEFINE p == Pipeline
  <2>1. /\ p \in Seq(Nat) /\ p # << >> /\ p' = Tail(p)
        /\ \A i \in DOMAIN p : p[i] <= finalizedHead
    BY <1>7, PipelineType, BlockIndexedTakes DEF FinalizedInv, OnlyFinalized
  <2> HIDE DEF p
  <2>2. /\ Len(p) \in Nat \ {0} /\ DOMAIN p = 1 .. Len(p)
        /\ DOMAIN Tail(p) = 1 .. Len(p) - 1
        /\ \A i \in 1 .. Len(p) - 1 : Tail(p)[i] = p[i + 1] /\ i + 1 \in DOMAIN p
    BY <2>1
  <2>3. UNCHANGED <<fillNext, finalizedHead>>
    BY <1>7 DEF BlockIndexed, fillNextVars, headVars
  <2>4. \A i \in DOMAIN p' : p'[i] <= finalizedHead'
    BY <2>1, <2>2, <2>3
  <2> QED  BY <2>3, <2>4 DEF p, FinalizedInv, OnlyFinalized
<1>8. ASSUME UNCHANGED Pipeline,
             fillNext'.pc = "dictionary" =>
                 fillNext'.start \in Nat /\ fillNext'.start <= finalizedHead
      PROVE  FinalizedInv'
  <2>1. finalizedHead' \in Nat /\ finalizedHead' >= finalizedHead
    BY HeadStep, TypeStep, FetchAssumption DEF FetchAssumption, TypeInv, TypeOK
  <2> DEFINE p == Pipeline
  <2>2. /\ p' = p /\ \A i \in DOMAIN p : p[i] \in Nat /\ p[i] <= finalizedHead
    BY <1>8, PipelineType DEF FinalizedInv, OnlyFinalized
  <2> HIDE DEF p
  <2>3. \A i \in DOMAIN p' : p'[i] <= finalizedHead'
    BY <1>1, <2>1, <2>2
  <2>4. fillNext'.pc = "dictionary" => fillNext'.start <= finalizedHead'
    BY <1>1, <1>8, <2>1
  <2> QED  BY <2>3, <2>4 DEF p, FinalizedInv, OnlyFinalized
<1>9. CASE TakeBatch \/ FetchBlocks \/ TakeBlock
  <2>1. UNCHANGED Pipeline
    BY <1>9, TakeBatchMoves, FetchBlocksMoves, TakeBlockMoves
  <2>2. UNCHANGED fillNext
    BY <1>9 DEF TakeBatch, FetchBlocks, TakeBlock, fillNextVars
  <2> QED  BY <1>2, <1>8, <2>1, <2>2 DEF FinalizedInv
<1>10. CASE QueryDictionary
  <2>1. /\ fillNext'.start = StartBlockHeight /\ StartBlockHeight \in Nat
        /\ StartBlockHeight <= finalizedHead
        /\ UNCHANGED <<indexing, blockBuffer, fillBlock, blockNumberBuffer>>
    BY <1>1, <1>10, BatchSizeTypes
    DEF QueryDictionary, FillNextReady, AboveFinalized, registerVars
  <2> QED  BY <1>8, <2>1 DEF Pipeline, HeightsOf
<1>11. CASE /\ UNCHANGED <<indexing, blockBuffer, fillBlock.batch, blockNumberBuffer>>
            /\ UNCHANGED fillNext \/ fillNext'.pc # "dictionary"
  BY <1>2, <1>8, <1>11 DEF Pipeline, HeightsOf, FinalizedInv
<1>12. \/ FillNextByRange \/ DictionarySkipped \/ DictionaryDisabled \/ DictionaryAnswer
       \/ BlockIndexed \/ TakeBatch \/ FetchBlocks \/ TakeBlock \/ QueryDictionary
       \/ /\ UNCHANGED <<indexing, blockBuffer, fillBlock.batch, blockNumberBuffer>>
          /\ UNCHANGED fillNext \/ fillNext'.pc # "dictionary"
  <2>1. FetchBatchMeta \/ FillBlockStops => UNCHANGED fillBlock.batch
    BY DEF FetchBatchMeta, FillBlockStops, TypeInv, TypeOK
  <2>2. FillNextMeta \/ FillNextStops => fillNext'.pc # "dictionary"
    BY <1>2 DEF FillNextMeta, FillNextStops
  <2> QED
    BY <2>1, <2>2
    DEF Next, vars, fillNextVars, registerVars, ChainFinalizes, PollFinalizedHead,
        FinalizedHeadAnswer, FinalizedHeadError, CheckBatchScale, OnApplicationShutdown,
        FillNextStep, FillNextMeta, FillNextMetaFails, MetaFails, Exit, FillNextStops,
        FillBlockStep, FetchBatchMeta, FetchBatchMetaFails, FetchBlocksFails,
        FillBlockStops, RegisterStep, IndexingFails
<1> QED  BY <1>4, <1>5, <1>6, <1>7, <1>9, <1>10, <1>11, <1>12

\* Only finalized blocks are buffered, fetched and indexed, for any number of polls
\* that overtake each other and though ranges count down, once the poll of init()
\* has returned.
THEOREM FinalizedOnly ==
    ASSUME ~InitialPollMayFail
    PROVE  Spec => []OnlyFinalized
<1> DEFINE Inv == TypeInv /\ HeadInv /\ FinalizedInv
<1>1. Init => Inv
  BY TypeInit, HeadInit, FinalizedInit
<1>2. Inv /\ [Next]_vars => Inv'
  BY TypeStep, HeadStep, FinalizedStep
<1>3. Inv => OnlyFinalized
  BY DEF FinalizedInv
<1> HIDE DEF Inv
<1> QED  BY <1>1, <1>2, <1>3, PTL DEF Spec

-----------------------------------------------------------------------------
(* When no range counts down                                                *)

\* The dictionary is asked from a height this node knows to be finalized.
QueryKnown ==
    /\ useDictionary => UseDictionary
    /\ fillNext.pc = "dictionary" =>
           UseDictionary /\ fillNext.start <= latestFinalizedHeight

LEMMA QueryKnownStep ==
    ASSUME UseDictionary => MaxPolls = 1 /\ ~InitialPollMayFail,
           TypeInv, HeadInv, QueryKnown, [Next]_vars
    PROVE  QueryKnown'
<1>1. fillNext \in [pc : {"meta", "loop", "dictionary", "done"}, start : Nat, size : Nat]
  BY DEF TypeInv, TypeOK
<1>2. latestFinalizedHeight \in Int /\ latestFinalizedHeight' \in Int
  BY TypeStep, FetchAssumption DEF FetchAssumption, TypeInv, TypeOK, Undefined
<1>3. useDictionary' => useDictionary
  BY DEF Next, vars, fillNextVars, ChainFinalizes, PollFinalizedHead,
         FinalizedHeadAnswer, FinalizedHeadError, CheckBatchScale,
         OnApplicationShutdown, FillNextStep, FillNextMeta, FillNextMetaFails,
         MetaFails, Exit, FillNextByRange, QueryDictionary, DictionaryAnswer,
         DictionarySkipped, DictionaryDisabled, FillNextStops,
         FillBlockStep, TakeBatch, FetchBatchMeta, FetchBatchMetaFails,
         FetchBlocks, FetchBlocksFails, FillBlockStops, RegisterStep, TakeBlock,
         BlockIndexed, IndexingFails
<1>4. CASE FinalizedHeadAnswer
  <2>1. UNCHANGED <<fillNext, useDictionary>>
    BY <1>4 DEF FinalizedHeadAnswer, fillNextVars
  <2>2. MaxPolls = 1 => latestFinalizedHeight <= latestFinalizedHeight'
    BY <1>4 DEF FinalizedHeadAnswer, HeadInv
  <2> QED  BY <1>1, <1>2, <2>1, <2>2 DEF QueryKnown
<1>5. CASE QueryDictionary
  <2>1. /\ fillNext'.start = StartBlockHeight /\ StartBlockHeight \in Nat
        /\ UNCHANGED latestFinalizedHeight
        /\ useDictionary /\ ~AboveFinalized(StartBlockHeight)
    BY <1>5, BatchSizeTypes DEF QueryDictionary, FillNextReady, headVars
  <2>2. UseDictionary /\ latestFinalizedHeight # Undefined
    BY <2>1 DEF QueryKnown, HeadInv
  <2> QED  BY <1>2, <1>3, <2>1, <2>2 DEF QueryKnown, AboveFinalized
<1>6. CASE /\ UNCHANGED latestFinalizedHeight
           /\ UNCHANGED fillNext \/ fillNext'.pc # "dictionary"
  BY <1>3, <1>6 DEF QueryKnown
<1>7. \/ FinalizedHeadAnswer \/ QueryDictionary
      \/ /\ UNCHANGED latestFinalizedHeight
         /\ UNCHANGED fillNext \/ fillNext'.pc # "dictionary"
  <2>1. ASSUME NEW start, NEW size, BufferRange(start, size)
        PROVE  UNCHANGED fillNext \/ fillNext'.pc # "dictionary"
    <3>1. UNCHANGED fillNext \/ fillNext' = [fillNext EXCEPT !.pc = "loop"]
      BY <2>1, Zenon DEF BufferRange
    <3> QED  BY <1>1, <3>1
  <2>2. FillNextByRange \/ DictionarySkipped \/ DictionaryDisabled =>
            UNCHANGED fillNext \/ fillNext'.pc # "dictionary"
    BY <2>1, Zenon DEF FillNextByRange, DictionarySkipped, DictionaryDisabled
  <2>3. FillNextMeta \/ FillNextStops \/ DictionaryAnswer => fillNext'.pc # "dictionary"
    BY <1>1 DEF FillNextMeta, FillNextStops, DictionaryAnswer
  <2> QED
    BY <2>2, <2>3
    DEF Next, vars, headVars, fillNextVars, ChainFinalizes, PollFinalizedHead,
        FinalizedHeadError, CheckBatchScale, OnApplicationShutdown,
        FillNextStep, FillNextMeta, FillNextMetaFails, MetaFails, Exit,
        FillNextByRange, DictionaryAnswer, DictionarySkipped, DictionaryDisabled,
        FillNextStops, FillBlockStep, TakeBatch, FetchBatchMeta,
        FetchBatchMetaFails, FetchBlocks, FetchBlocksFails, FillBlockStops,
        RegisterStep, TakeBlock, BlockIndexed, IndexingFails
<1> QED  BY <1>4, <1>5, <1>6, <1>7

\* Without a dictionary no range counts down, nor with one as long as the poll of
\* init() returns and a poll always returns before the next one is sent, which
\* the interval timer of the code does not see to.
THEOREM LonePollsNeverCountDown ==
    ASSUME UseDictionary => MaxPolls = 1 /\ ~InitialPollMayFail
    PROVE  Spec => []~countedDown
<1> DEFINE Inv == TypeInv /\ HeadInv /\ QueryKnown /\ ~countedDown
<1>1. Init => Inv
  <2>1. Init => QueryKnown /\ ~countedDown
    BY DEF Init, QueryKnown
  <2> QED  BY <2>1, TypeInit, HeadInit
<1>2. Inv /\ [Next]_vars => Inv'
  <2> SUFFICES ASSUME Inv, [Next]_vars PROVE Inv'
    OBVIOUS
  <2>1. TypeInv' /\ HeadInv' /\ QueryKnown'
    BY TypeStep, HeadStep, QueryKnownStep
  <2>2. ASSUME NEW start \in Nat, NEW size \in Nat \ {0}, BufferRange(start, size),
               ~AboveFinalized(start)
        PROVE  ~countedDown'
    <3>1. latestFinalizedHeight \in Int
      BY FetchAssumption DEF FetchAssumption, TypeInv, TypeOK, Undefined
    <3>2. start <= NextEndBlockHeight(start, size)
      BY <2>2, <3>1 DEF NextEndBlockHeight, AboveFinalized
    <3>3. NextEndBlockHeight(start, size) \in Nat
      BY RangeTypes
    <3>4. ~(NextEndBlockHeight(start, size) + 1 < start)
      BY <3>2, <3>3
    <3> QED  BY <2>2, <3>4, Zenon DEF BufferRange
  <2>3. CASE FillNextByRange
    <3>1. StartBlockHeight \in Nat /\ ScaledBatchSize \in Nat \ {0}
      BY BatchSizeTypes
    <3>2. BufferRange(StartBlockHeight, ScaledBatchSize) /\ ~AboveFinalized(StartBlockHeight)
      BY <2>3, Zenon DEF FillNextByRange, FillNextReady
    <3> QED  BY <2>1, <2>2, <3>1, <3>2, Zenon
  <2>4. CASE DictionarySkipped \/ DictionaryDisabled
    <3>1. /\ fillNext.start \in Nat /\ fillNext.size \in Nat \ {0}
          /\ fillNext.start <= latestFinalizedHeight
          /\ latestFinalizedHeight \in Int
      BY <2>4, FetchAssumption
      DEF FetchAssumption, DictionarySkipped, DictionaryDisabled, QueryKnown, TypeInv, TypeOK,
          ControlOK, Undefined
    <3>2. ~AboveFinalized(fillNext.start)
      BY <3>1 DEF AboveFinalized
    <3>3. BufferRange(fillNext.start, fillNext.size)
      BY <2>4, Zenon DEF DictionarySkipped, DictionaryDisabled
    <3> QED  BY <2>1, <2>2, <3>1, <3>2, <3>3, Zenon
  <2>5. CASE UNCHANGED countedDown
    BY <2>1, <2>5
  <2>6. ~countedDown'
    BY <2>3, <2>4, <2>5, CountingDown
  <2> QED  BY <2>1, <2>6
<1>3. Inv => ~countedDown
  OBVIOUS
<1> HIDE DEF Inv
<1> QED  BY <1>1, <1>2, <1>3, PTL DEF Spec
-----------------------------------------------------------------------------
(* The runtime a block is decoded with                                      *)

\* The batch is in order, below the queue behind it, and both below the next
\* round.
LEMMA BatchInOrder ==
    ASSUME TypeInv, PipelineInv
    PROVE  LET batch == fillBlock.batch
               queue == blockNumberBuffer
           IN  /\ batch \in Seq(Nat) /\ queue \in Seq(Nat)
               /\ \A i, j \in 1 .. Len(batch) : i < j => batch[i] < batch[j]
               /\ \A i \in 1 .. Len(batch) : \A j \in 1 .. Len(queue) : batch[i] < queue[j]
               /\ \A i \in 1 .. Len(batch) : batch[i] < StartBlockHeight
               /\ \A j \in 1 .. Len(queue) : queue[j] < StartBlockHeight
               /\ \A i \in 1 .. Len(batch) : batch[i] \in Nat
               /\ \A j \in 1 .. Len(queue) : queue[j] \in Nat
<1> DEFINE x == HeightsOf(indexing) \o HeightsOf(blockBuffer)
           batch == fillBlock.batch
           queue == blockNumberBuffer
           xb == x \o batch
           p == Pipeline
           hi == StartBlockHeight
<1>1. x \in Seq(Nat) /\ batch \in Seq(Nat) /\ queue \in Seq(Nat) /\ p = xb \o queue
  <2>1. HeightsOf(indexing) \in Seq(Nat) /\ HeightsOf(blockBuffer) \in Seq(Nat)
        /\ batch \in Seq(Nat) /\ queue \in Seq(Nat)
    BY PipelineType
  <2>2. x \in Seq(Nat)
    BY <2>1
  <2>3. p = xb \o queue
    BY DEF Pipeline
  <2> QED  BY <2>1, <2>2, <2>3
<1>2. /\ \A k \in 1 .. Len(p) : p[k] < hi
      /\ \A k, l \in 1 .. Len(p) : k < l => p[k] < p[l]
  BY DEF PipelineInv, Ordered
<1> HIDE DEF x, batch, queue, p, hi
<1>3. /\ xb \in Seq(Nat) /\ Len(x) \in Nat /\ Len(batch) \in Nat
      /\ Len(xb) = Len(x) + Len(batch)
      /\ \A i \in 1 .. Len(batch) : xb[Len(x) + i] = batch[i] /\ batch[i] \in Nat
  BY <1>1, ConcatTypes
<1> HIDE DEF xb
<1>4. /\ Len(queue) \in Nat /\ Len(p) = Len(xb) + Len(queue)
      /\ \A k \in 1 .. Len(xb) : p[k] = xb[k]
      /\ \A j \in 1 .. Len(queue) : p[Len(xb) + j] = queue[j] /\ queue[j] \in Nat
  <2>1. xb \in Seq(Nat) /\ queue \in Seq(Nat) /\ p = xb \o queue
    BY <1>1, <1>3
  <2> QED  BY <2>1, ConcatTypes
<1>5. \A i \in 1 .. Len(batch) :
          Len(x) + i \in 1 .. Len(xb) /\ Len(x) + i \in 1 .. Len(p) /\ p[Len(x) + i] = batch[i]
  <2> TAKE i \in 1 .. Len(batch)
  <2>1. Len(x) + i \in 1 .. Len(xb) /\ Len(x) + i \in 1 .. Len(p)
    BY <1>3, <1>4
  <2> QED  BY <1>3, <1>4, <2>1
<1>6. \A j \in 1 .. Len(queue) : Len(xb) + j \in 1 .. Len(p) /\ p[Len(xb) + j] = queue[j]
  BY <1>3, <1>4
<1>7. ASSUME NEW i \in 1 .. Len(batch), NEW j \in 1 .. Len(batch), i < j
      PROVE  batch[i] < batch[j]
  <2>1. Len(x) + i < Len(x) + j
    BY <1>3, <1>7
  <2> QED  BY <1>2, <1>5, <2>1
<1>8. ASSUME NEW i \in 1 .. Len(batch), NEW j \in 1 .. Len(queue)
      PROVE  batch[i] < queue[j]
  <2>1. Len(x) + i < Len(xb) + j
    BY <1>3, <1>4
  <2> QED  BY <1>2, <1>5, <1>6, <2>1
<1>9. /\ \A i \in 1 .. Len(batch) : batch[i] < hi
      /\ \A j \in 1 .. Len(queue) : queue[j] < hi
  BY <1>2, <1>5, <1>6
<1> QED  BY <1>1, <1>3, <1>4, <1>7, <1>8, <1>9 DEF batch, queue, hi

\* The version in hand is that of the state at a height below all that is still
\* to be asked about.
VersionOf(height) ==
    /\ height \in 0 .. MaxHeight + BestLead
    /\ parentSpecVersion = RuntimeAt[height]
    /\ height < StartBlockHeight
    /\ \A i \in 1 .. Len(blockNumberBuffer) : height < blockNumberBuffer[i]
    /\ fillBlock.pc = "meta" =>
           \A i \in 1 .. Len(fillBlock.batch) : height < fillBlock.batch[i]

RightVersion(block) == block.specVersion = RuntimeAt[Previous(block.height)]

BlocksRight ==
    \A blocks \in {indexing, blockBuffer} : \A i \in DOMAIN blocks :
        blocks[i].specVersion = RuntimeAt[Previous(blocks[i].height)]

VersionInv ==
    /\ fillNext.pc = "meta" =>
           /\ blockNumberBuffer = << >>
           /\ fillBlock.pc \in {"loop", "done"}
           /\ latestBufferedHeight = 0
    /\ parentSpecVersion # 0 => \E height \in Nat : VersionOf(height)
    /\ fillBlock.pc = "blocks" =>
           \A i \in 1 .. Len(fillBlock.batch) : RightVersion(FetchedBlock(fillBlock.batch[i]))
    /\ BlocksRight

LEMMA VersionInit == Init => VersionInv
BY DEF Init, VersionInv, BlocksRight

\* Buffering a round leaves the version in hand below what is asked about next.
LEMMA RoundKeepsVersion ==
    ASSUME FetchInv, VersionInv, BuffersAhead, fillNext'.pc # "meta",
           UNCHANGED <<parentSpecVersion, fillBlock, indexing, blockBuffer>>
    PROVE  VersionInv'
<1>1. blockNumberBuffer \in Seq(Nat) /\ StartBlockHeight \in Nat
  BY BatchSizeTypes DEF FetchInv, TypeInv, TypeOK
<1>2. PICK heights \in Seq(Nat) :
          /\ blockNumberBuffer' = blockNumberBuffer \o heights
          /\ \A i \in 1 .. Len(heights) : heights[i] >= StartBlockHeight
  BY DEF BuffersAhead
<1>3. ASSUME NEW h \in Nat, VersionOf(h)
      PROVE  VersionOf(h)'
  <2>1. h < StartBlockHeight /\ \A i \in 1 .. Len(blockNumberBuffer) : h < blockNumberBuffer[i]
    BY <1>3 DEF VersionOf
  <2>2. h < StartBlockHeight'
    <3>1. /\ latestBufferedHeight' \in Nat /\ StartBlockHeight <= latestBufferedHeight' + 1
          /\ StartBlockHeight' = latestBufferedHeight' + 1
      BY DEF BuffersAhead
    <3>2. ASSUME NEW a \in Nat, NEW b \in Nat, NEW c \in Nat, a < b, b <= c + 1
          PROVE  a < c + 1
      BY <3>2
    <3> QED  BY <1>1, <2>1, <3>1, <3>2, Zenon
  <2>3. ASSUME NEW k \in 1 .. Len(blockNumberBuffer')
        PROVE  h < blockNumberBuffer'[k]
    <3>1. \A i \in 1 .. Len(heights) : heights[i] \in Nat /\ h < heights[i]
      BY <1>1, <1>2, <2>1
    <3>2. /\ Len(blockNumberBuffer') = Len(blockNumberBuffer) + Len(heights)
          /\ \A i \in 1 .. Len(blockNumberBuffer) : blockNumberBuffer'[i] = blockNumberBuffer[i]
          /\ \A i \in 1 .. Len(heights) : blockNumberBuffer'[Len(blockNumberBuffer) + i] = heights[i]
          /\ \A j \in 1 .. Len(blockNumberBuffer) + Len(heights) :
                 \/ j \in 1 .. Len(blockNumberBuffer)
                 \/ \E i \in 1 .. Len(heights) : j = Len(blockNumberBuffer) + i
      BY <1>1, <1>2, ConcatTypes
    <3>3. CASE k \in 1 .. Len(blockNumberBuffer)
      BY <2>1, <3>2, <3>3
    <3>4. CASE \E i \in 1 .. Len(heights) : k = Len(blockNumberBuffer) + i
      BY <3>1, <3>2, <3>4
    <3> QED  BY <2>3, <3>2, <3>3, <3>4
  <2> QED  BY <1>3, <2>2, <2>3 DEF VersionOf
<1> QED  BY <1>3 DEF VersionInv, BlocksRight, RightVersion, FetchedBlock

\* A batch is the front of the queue, so the version is below it too.
LEMMA TakeBatchKeepsVersion ==
    ASSUME FetchInv, VersionInv, TakeBatch
    PROVE  VersionInv'
<1> DEFINE items == TakeAllItems(blockNumberBuffer, TakeCount)
           rest == TakeAllRest(blockNumberBuffer, TakeCount)
<1>1. /\ blockNumberBuffer' = rest
      /\ fillBlock'.batch = items
      /\ fillBlock'.pc = "meta"
      /\ blockNumberBuffer # << >>
      /\ UNCHANGED <<parentSpecVersion, StartBlockHeight, fillNext, indexing, blockBuffer>>
  BY DEF TakeBatch, CanTake, fillNextVars, registerVars, StartBlockHeight, FetchInv, TypeInv, TypeOK
<1>2. /\ items \in Seq(Nat) /\ rest \in Seq(Nat)
      /\ items \o rest = blockNumberBuffer
  BY BatchSizeTypes, TakeAllSplits DEF FetchInv, TypeInv, TypeOK
<1> HIDE DEF items, rest
<1>3. /\ Len(items) \in Nat /\ Len(rest) \in Nat
      /\ Len(blockNumberBuffer) = Len(items) + Len(rest)
      /\ \A i \in 1 .. Len(items) : blockNumberBuffer[i] = items[i]
      /\ \A i \in 1 .. Len(rest) : blockNumberBuffer[Len(items) + i] = rest[i]
  BY <1>2, ConcatTypes
<1>4. ASSUME NEW h \in Nat, VersionOf(h)
      PROVE  VersionOf(h)'
  <2>1. \A i \in 1 .. Len(blockNumberBuffer) : h < blockNumberBuffer[i]
    BY <1>4 DEF VersionOf
  <2>2. /\ \A i \in 1 .. Len(items) : i \in 1 .. Len(blockNumberBuffer)
        /\ \A i \in 1 .. Len(rest) : Len(items) + i \in 1 .. Len(blockNumberBuffer)
    BY <1>3
  <2>3. /\ \A i \in 1 .. Len(items) : h < items[i]
        /\ \A i \in 1 .. Len(rest) : h < rest[i]
    BY <1>3, <2>1, <2>2
  <2> QED  BY <1>1, <1>4, <2>3 DEF VersionOf
<1> QED  BY <1>1, <1>4 DEF VersionInv, BlocksRight

\* The version of the last block of the batch: if it is the one in hand, then so
\* are those of all blocks between, since runtimes are only upgraded.
LEMMA BatchMetaKeepsVersion ==
    ASSUME FetchInv, ~countedDown, VersionInv, FetchBatchMeta
    PROVE  VersionInv'
<1> DEFINE batch == fillBlock.batch
           last == batch[Len(batch)]
<1>1. /\ batch \in Seq(Nat) /\ Len(batch) \in Nat \ {0}
      /\ \A i \in 1 .. Len(batch) : batch[i] \in Nat /\ batch[i] <= last
      /\ \A j \in 1 .. Len(blockNumberBuffer) :
             blockNumberBuffer[j] \in Nat /\ last < blockNumberBuffer[j]
      /\ last \in Nat /\ last < StartBlockHeight
  <2>1. batch # << >>
    BY DEF FetchBatchMeta, FetchInv, TypeInv, ControlOK
  <2>2. /\ batch \in Seq(Nat)
        /\ \A i, j \in 1 .. Len(batch) : i < j => batch[i] < batch[j]
        /\ \A i \in 1 .. Len(batch) :
               \A j \in 1 .. Len(blockNumberBuffer) : batch[i] < blockNumberBuffer[j]
        /\ \A i \in 1 .. Len(batch) : batch[i] < StartBlockHeight
        /\ \A i \in 1 .. Len(batch) : batch[i] \in Nat
        /\ \A j \in 1 .. Len(blockNumberBuffer) : blockNumberBuffer[j] \in Nat
    BY BatchInOrder DEF FetchInv
  <2> HIDE DEF batch
  <2>3. Len(batch) \in Nat \ {0} /\ Len(batch) \in 1 .. Len(batch)
    BY <2>1, <2>2
  <2>4. \A i \in 1 .. Len(batch) : i = Len(batch) \/ i < Len(batch)
    BY <2>3
  <2>5. \A i \in 1 .. Len(batch) : batch[i] <= last
    BY <2>2, <2>3, <2>4
  <2> QED  BY <2>2, <2>3, <2>5
<1>2. /\ MetaAvailable(last)
      /\ parentSpecVersion' = RuntimeAt[Previous(last)]
      /\ fillBlock'.batch = batch
      /\ fillBlock'.pc = "blocks"
      /\ fillBlock'.metadataChanged = (parentSpecVersion # RuntimeAt[Previous(last)])
      /\ fillBlock.pc = "meta"
      /\ UNCHANGED <<blockNumberBuffer, StartBlockHeight, fillNext, indexing, blockBuffer>>
  BY DEF FetchBatchMeta, FetchMeta, LastOfBatch, SpecVersionChanged, fillNextVars, registerVars,
         StartBlockHeight, FetchInv, TypeInv, TypeOK
<1> HIDE DEF batch, last
<1>3. /\ Previous(last) \in 0 .. MaxHeight + BestLead
      /\ Previous(last) <= last
  BY <1>1, <1>2, BatchSizeTypes, FetchAssumption
  DEF FetchAssumption, Previous, MetaAvailable, FetchInv
<1>4. \E height \in Nat : VersionOf(height)'
  <2>1. PICK height \in 0 .. MaxHeight + BestLead : height = Previous(last)
    BY <1>3
  <2>2. height < StartBlockHeight'
    BY <1>1, <1>2, <1>3, <2>1, BatchSizeTypes DEF FetchInv
  <2>3. \A j \in 1 .. Len(blockNumberBuffer) : height < blockNumberBuffer[j]
    BY <1>1, <1>3, <2>1
  <2>4. parentSpecVersion' = RuntimeAt[height] /\ fillBlock'.pc # "meta"
        /\ blockNumberBuffer' = blockNumberBuffer
    BY <1>2, <2>1
  <2>5. VersionOf(height)'
    BY <2>2, <2>3, <2>4 DEF VersionOf
  <2> QED  BY <2>5
<1>5. ASSUME NEW i \in 1 .. Len(batch), parentSpecVersion # 0,
             parentSpecVersion = RuntimeAt[Previous(last)]
      PROVE  RuntimeAt[Previous(batch[i])] = RuntimeAt[Previous(last)]
  <2>1. PICK h \in Nat : VersionOf(h)
    BY <1>5 DEF VersionInv
  <2>2. h < batch[i] /\ h \in 0 .. MaxHeight + BestLead
        /\ RuntimeAt[h] = RuntimeAt[Previous(last)]
    BY <1>2, <1>5, <2>1 DEF VersionOf, batch
  <2>3. h <= Previous(batch[i]) /\ Previous(batch[i]) <= Previous(last)
        /\ Previous(batch[i]) \in 0 .. MaxHeight + BestLead
    <3>1. batch[i] \in Nat /\ batch[i] <= last /\ last \in Nat /\ h \in Nat /\ h < batch[i]
      BY <1>1, <2>2
    <3>2. Previous(batch[i]) = batch[i] - 1 /\ Previous(last) = last - 1
      BY <3>1 DEF Previous
    <3>3. h <= batch[i] - 1 /\ batch[i] - 1 <= last - 1 /\ batch[i] - 1 \in Nat
      BY <3>1
    <3>4. last - 1 <= MaxHeight + BestLead /\ MaxHeight + BestLead \in Nat
      BY <1>3, <3>2, FetchAssumption DEF FetchAssumption
    <3>5. batch[i] - 1 \in 0 .. MaxHeight + BestLead
      BY <3>1, <3>3, <3>4
    <3> QED  BY <3>2, <3>3, <3>5
  <2>4. RuntimeAt[h] <= RuntimeAt[Previous(batch[i])]
        /\ RuntimeAt[Previous(batch[i])] <= RuntimeAt[Previous(last)]
    BY <1>3, <2>2, <2>3, RuntimeAssumption
  <2>5. RuntimeAt[Previous(batch[i])] \in Nat /\ RuntimeAt[Previous(last)] \in Nat
    BY <1>3, <2>3, FetchAssumption DEF FetchAssumption
  <2> QED  BY <2>2, <2>4, <2>5
<1>6. ASSUME NEW i \in 1 .. Len(batch)
      PROVE  RightVersion(FetchedBlock(fillBlock.batch[i]))'
  <2>1. CASE fillBlock'.metadataChanged \/ parentSpecVersion' = 0
    BY <2>1 DEF FetchedBlock, RightVersion
  <2>2. CASE ~fillBlock'.metadataChanged /\ parentSpecVersion' # 0
    <3>1. RuntimeAt[Previous(batch[i])] = parentSpecVersion'
      BY <1>2, <1>5, <2>2
    <3> QED  BY <1>2, <2>2, <3>1 DEF FetchedBlock, RightVersion
  <2> QED  BY <2>1, <2>2
<1> QED
  <2>1. fillNext.pc # "meta"
    BY <1>2 DEF VersionInv
  <2>2. BlocksRight'
    BY <1>2 DEF VersionInv, BlocksRight
  <2> QED  BY <1>2, <1>4, <1>6, <2>1, <2>2 DEF VersionInv

\* The blocks of a batch arrive with the versions the batch was fetched with.
LEMMA FetchBlocksKeepsVersion ==
    ASSUME FetchInv, VersionInv, FetchBlocks
    PROVE  VersionInv'
<1>1. /\ fillBlock.pc = "blocks" /\ fillBlock'.pc = "loop"
      /\ blockBuffer' = blockBuffer \o FetchedBlocks
      /\ UNCHANGED <<parentSpecVersion, StartBlockHeight, blockNumberBuffer, fillNext, indexing>>
  BY DEF FetchBlocks, PutAll, fillNextVars, registerVars, StartBlockHeight
<1>2. /\ blockBuffer \in Seq(BlockType)
      /\ FetchedBlocks \in Seq(BlockType) /\ Len(FetchedBlocks) = Len(fillBlock.batch)
  BY FetchedBlocksType DEF FetchInv, TypeInv, TypeOK
<1>3. ASSUME NEW i \in 1 .. Len(FetchedBlocks)
      PROVE  RightVersion(FetchedBlocks[i])
  <2>1. FetchedBlocks[i] = FetchedBlock(fillBlock.batch[i])
    <3>1. DOMAIN fillBlock.batch = 1 .. Len(fillBlock.batch)
      BY DEF FetchInv, TypeInv, TypeOK
    <3> QED  BY <1>2, <1>3, <3>1 DEF FetchedBlocks
  <2> QED  BY <1>1, <1>2, <1>3, <2>1 DEF VersionInv
<1>4. \A i \in 1 .. Len(blockBuffer) : RightVersion(blockBuffer[i])
  <2>1. DOMAIN blockBuffer = 1 .. Len(blockBuffer)
    BY <1>2
  <2> QED  BY <2>1 DEF VersionInv, BlocksRight, RightVersion
<1>5. \A k \in DOMAIN blockBuffer' : RightVersion(blockBuffer'[k])
  <2> DEFINE old == blockBuffer
             new == FetchedBlocks
             all == old \o new
  <2>1. /\ old \in Seq(BlockType) /\ new \in Seq(BlockType)
        /\ \A i \in 1 .. Len(old) : RightVersion(old[i])
        /\ \A i \in 1 .. Len(new) : RightVersion(new[i])
    BY <1>2, <1>3, <1>4
  <2> HIDE DEF old, new
  <2>2. \A k \in DOMAIN all : RightVersion(all[k])
    <3> TAKE k \in DOMAIN all
    <3>1. Len(old) \in Nat /\ Len(new) \in Nat /\ k \in 1 .. Len(old) + Len(new)
      BY <2>1
    <3>2. CASE k \in 1 .. Len(old)
      BY <2>1, <3>2
    <3>3. CASE k \notin 1 .. Len(old)
      <4>1. k - Len(old) \in 1 .. Len(new) /\ all[k] = new[k - Len(old)]
        BY <2>1, <3>1, <3>3
      <4> QED  BY <2>1, <4>1
    <3> QED  BY <3>2, <3>3
  <2> QED  BY <1>1, <2>2 DEF old, new
<1>6. BlocksRight'
  BY <1>1, <1>5 DEF VersionInv, BlocksRight, RightVersion
<1>7. ASSUME NEW h \in Nat, VersionOf(h)
      PROVE  VersionOf(h)'
  BY <1>1, <1>7 DEF VersionOf
<1> QED  BY <1>1, <1>6, <1>7 DEF VersionInv

\* The consumer takes the first block as it is.
LEMMA TakeBlockKeepsVersion ==
    ASSUME FetchInv, VersionInv, TakeBlock
    PROVE  VersionInv'
<1>1. /\ indexing' = << Head(blockBuffer) >> /\ blockBuffer' = Tail(blockBuffer)
      /\ UNCHANGED <<parentSpecVersion, StartBlockHeight, blockNumberBuffer, fillNext, fillBlock,
                     latestBufferedHeight>>
  BY DEF TakeBlock, TakeItem, TakeRest, fillNextVars, StartBlockHeight
<1>2. blockBuffer \in Seq(BlockType) /\ blockBuffer # << >>
  BY DEF FetchInv, TypeInv, TypeOK, TakeBlock, CanTake
<1>3. /\ Len(blockBuffer) \in Nat \ {0} /\ DOMAIN blockBuffer = 1 .. Len(blockBuffer)
      /\ Head(blockBuffer) = blockBuffer[1]
      /\ DOMAIN Tail(blockBuffer) = 1 .. Len(blockBuffer) - 1
      /\ \A i \in 1 .. Len(blockBuffer) - 1 : Tail(blockBuffer)[i] = blockBuffer[i + 1]
  BY <1>2
<1>4. \A i \in 1 .. Len(blockBuffer) : RightVersion(blockBuffer[i])
  BY <1>3 DEF VersionInv, BlocksRight, RightVersion
<1>5. \A i \in DOMAIN Tail(blockBuffer) : RightVersion(Tail(blockBuffer)[i])
  BY <1>3, <1>4
<1>6. RightVersion(Head(blockBuffer))
  BY <1>3, <1>4
<1>7. \A i \in DOMAIN << Head(blockBuffer) >> : RightVersion(<< Head(blockBuffer) >>[i])
  BY <1>6
<1>8. BlocksRight'
  BY <1>1, <1>5, <1>7 DEF BlocksRight, RightVersion
<1>9. \A i \in 1 .. Len(fillBlock.batch) :
          RightVersion(FetchedBlock(fillBlock.batch[i]))' = RightVersion(FetchedBlock(fillBlock.batch[i]))
  BY <1>1 DEF RightVersion, FetchedBlock
<1>10. ASSUME NEW h \in Nat, VersionOf(h)
       PROVE  VersionOf(h)'
  BY <1>1, <1>10 DEF VersionOf
<1> QED  BY <1>1, <1>8, <1>9, <1>10 DEF VersionInv

\* The version that fillNextBlockBuffer asks for before its first round: the
\* other loop has had nothing to fetch yet.
LEMMA FirstMetaKeepsVersion ==
    ASSUME InitBlockHeight > 0, FetchInv, VersionInv, FillNextMeta
    PROVE  VersionInv'
<1>1. /\ Previous(InitBlockHeight) <= BestHead
      /\ parentSpecVersion' = RuntimeAt[Previous(InitBlockHeight)]
      /\ blockNumberBuffer = << >> /\ fillBlock.pc \in {"loop", "done"}
      /\ latestBufferedHeight = 0
      /\ UNCHANGED <<blockNumberBuffer, fillBlock, indexing, blockBuffer, latestBufferedHeight>>
  BY DEF FillNextMeta, FetchMeta, MetaAvailable, registerVars, VersionInv
<1>2. fillNext'.pc = "loop"
  BY DEF FillNextMeta, FetchInv, TypeInv, TypeOK
<1>3. /\ Previous(InitBlockHeight) \in 0 .. MaxHeight + BestLead
      /\ Previous(InitBlockHeight) < InitBlockHeight
  BY <1>1, BatchSizeTypes, FetchAssumption
  DEF FetchAssumption, Previous, FetchInv
<1>4. StartBlockHeight' = InitBlockHeight
  BY <1>1 DEF StartBlockHeight
<1>5. PICK h \in 0 .. MaxHeight + BestLead : h = Previous(InitBlockHeight)
  BY <1>3
<1>6. VersionOf(h)'
  BY <1>1, <1>3, <1>4, <1>5 DEF VersionOf
<1> QED  BY <1>1, <1>2, <1>6 DEF VersionInv, BlocksRight

LEMMA VersionStep ==
    ASSUME InitBlockHeight > 0, FetchInv, VersionInv, ~countedDown, ~countedDown',
           [Next]_vars
    PROVE  VersionInv'
<1>1. CASE FillNextMeta
  BY <1>1, FirstMetaKeepsVersion
<1>2. CASE FillNextByRange \/ DictionarySkipped \/ DictionaryDisabled \/ DictionaryAnswer
  <2>1. UNCHANGED <<parentSpecVersion, fillBlock, indexing, blockBuffer>>
    BY <1>2
    DEF FillNextByRange, DictionarySkipped, DictionaryDisabled, DictionaryAnswer, registerVars
  <2>2. fillNext'.pc # "meta"
    BY <1>2
    DEF FillNextByRange, FillNextReady, DictionarySkipped, DictionaryDisabled, DictionaryAnswer,
        BufferRange, FetchInv, TypeInv, TypeOK
  <2> QED  BY <1>2, <2>1, <2>2, RoundKeeps, RoundKeepsVersion
<1>3. CASE TakeBatch
  BY <1>3, TakeBatchKeepsVersion
<1>4. CASE FetchBatchMeta
  BY <1>4, BatchMetaKeepsVersion
<1>5. CASE FetchBlocks
  BY <1>5, FetchBlocksKeepsVersion
<1>6. CASE TakeBlock
  BY <1>6, TakeBlockKeepsVersion
<1>7. CASE /\ UNCHANGED <<parentSpecVersion, blockNumberBuffer, latestBufferedHeight, blockBuffer>>
           /\ indexing' \in {indexing, << >>}
           /\ \/ UNCHANGED fillBlock
              \/ fillBlock'.pc = "done" /\ fillBlock.pc = "loop"
           /\ fillNext'.pc = "meta" => fillNext.pc = "meta"
  <2>1. UNCHANGED StartBlockHeight
    BY <1>7 DEF StartBlockHeight
  <2>2. ASSUME NEW h \in Nat, VersionOf(h)
        PROVE  VersionOf(h)'
    BY <1>7, <2>1, <2>2 DEF VersionOf
  <2>3. BlocksRight'
    BY <1>7 DEF VersionInv, BlocksRight
  <2>4. fillBlock'.pc = "blocks" =>
            \A i \in 1 .. Len(fillBlock'.batch) : RightVersion(FetchedBlock(fillBlock.batch[i]))'
    BY <1>7 DEF VersionInv, RightVersion, FetchedBlock
  <2> QED  BY <1>7, <2>2, <2>3, <2>4 DEF VersionInv
<1>8. \/ FillNextMeta \/ FillNextByRange \/ DictionarySkipped \/ DictionaryDisabled
      \/ DictionaryAnswer \/ TakeBatch \/ FetchBatchMeta \/ FetchBlocks \/ TakeBlock
      \/ /\ UNCHANGED <<parentSpecVersion, blockNumberBuffer, latestBufferedHeight, blockBuffer>>
         /\ indexing' \in {indexing, << >>}
         /\ \/ UNCHANGED fillBlock
            \/ fillBlock'.pc = "done" /\ fillBlock.pc = "loop"
         /\ fillNext'.pc = "meta" => fillNext.pc = "meta"
  <2>1. FillBlockStops => fillBlock'.pc = "done" /\ fillBlock.pc = "loop"
    BY DEF FillBlockStops, FetchInv, TypeInv, TypeOK
  <2>2. QueryDictionary \/ FillNextStops => fillNext'.pc # "meta"
    BY DEF QueryDictionary, FillNextStops, FetchInv, TypeInv, TypeOK
  <2> QED
    BY <2>1, <2>2
    DEF Next, vars, headVars, fillNextVars, registerVars, ChainFinalizes, PollFinalizedHead,
        FinalizedHeadAnswer, FinalizedHeadError, CheckBatchScale, OnApplicationShutdown,
        FillNextStep, FillNextMetaFails, MetaFails, Exit, QueryDictionary, FillNextStops,
        FillBlockStep, FetchBatchMetaFails, FetchBlocksFails, FillBlockStops, RegisterStep,
        BlockIndexed, IndexingFails
<1> QED  BY <1>1, <1>2, <1>3, <1>4, <1>5, <1>6, <1>7, <1>8

\* Until a range counts down every block reaches the indexer with the version of
\* the runtime that executed it, however the heights are batched: one version is
\* asked for per batch, and taken over from the batch before when it has not
\* changed.
THEOREM BlocksHaveTheirSpecVersion ==
    ASSUME InitBlockHeight > 0
    PROVE  Spec => []SpecVersionsRight
<1> DEFINE Inv == FetchInv /\ (countedDown \/ VersionInv)
<1>1. Init => Inv
  BY FetchInit, VersionInit
<1>2. Inv /\ [Next]_vars => Inv'
  <2> SUFFICES ASSUME Inv, [Next]_vars, ~countedDown' PROVE FetchInv' /\ VersionInv'
    BY FetchStep
  <2>1. ~countedDown
    BY CountingDown, Zenon DEF FetchInv
  <2> QED  BY <2>1, FetchStep, VersionStep
<1>3. Inv => SpecVersionsRight
  BY DEF VersionInv, BlocksRight, SpecVersionsRight
<1> HIDE DEF Inv
<1> QED  BY <1>1, <1>2, <1>3, PTL DEF Spec
-----------------------------------------------------------------------------
(* The stream                                                               *)

\* As long as no range counts down, and the poll of init() has returned, the fetch
\* service implements the block stream its consumer is written for.
THEOREM StreamWithoutCountingDown ==
    ASSUME InitBlockHeight > 0, ~InitialPollMayFail
    PROVE  Spec /\ []~countedDown => ImplementsStream
<1> DEFINE Inv == FetchInv /\ HeadInv /\ FinalizedInv
<1>1. Init => Inv
  BY FetchInit, HeadInit, FinalizedInit
<1>2. Inv /\ [Next]_vars => Inv'
  BY FetchStep, HeadStep, FinalizedStep DEF FetchInv
<1>3. Init => Stream!Init
  BY DEF Init, Stream!Init
<1>4. Inv /\ ~countedDown /\ ~countedDown' /\ [Next]_vars =>
          [Stream!Next]_<<finalizedHead, latestProcessedHeight>>
  <2> SUFFICES ASSUME Inv, ~countedDown, ~countedDown', [Next]_vars
               PROVE  [Stream!Next]_<<finalizedHead, latestProcessedHeight>>
    OBVIOUS
  <2>1. CASE ChainFinalizes
    BY <2>1 DEF ChainFinalizes, registerVars, Stream!Next, Stream!Finalize
  <2>2. CASE BlockIndexed
    <3>1. /\ latestProcessedHeight < latestProcessedHeight'
          /\ latestProcessedHeight' <= finalizedHead
          /\ \A h \in latestProcessedHeight + 1 .. latestProcessedHeight' - 1 :
                 h \notin NeededHeights
      BY <2>2, IndexedKeeps DEF FetchInv, FinalizedInv
    <3>2. /\ latestProcessedHeight \in Int /\ latestProcessedHeight' \in Int
          /\ finalizedHead \in Int
      BY <1>2, FetchAssumption
      DEF FetchAssumption, FetchInv, TypeInv, TypeOK
    <3>3. latestProcessedHeight' \in latestProcessedHeight + 1 .. finalizedHead
      BY <3>1, <3>2
    <3>4. UNCHANGED finalizedHead
      BY <2>2 DEF BlockIndexed, headVars
    <3> QED  BY <3>1, <3>3, <3>4 DEF Stream!Next, Stream!Deliver
  <2>3. CASE ~ChainFinalizes /\ ~BlockIndexed
    <3>1. UNCHANGED latestProcessedHeight
      BY <2>3, PipelineStep
    <3>2. UNCHANGED finalizedHead
      BY <2>3
      DEF Next, vars, headVars, PollFinalizedHead, FinalizedHeadAnswer,
          FinalizedHeadError, CheckBatchScale, OnApplicationShutdown,
          FillNextStep, FillNextMeta, FillNextMetaFails, MetaFails, Exit,
          FillNextByRange, QueryDictionary, DictionaryAnswer,
          DictionarySkipped, DictionaryDisabled, FillNextStops, FillBlockStep,
          TakeBatch, FetchBatchMeta, FetchBatchMetaFails, FetchBlocks,
          FetchBlocksFails, FillBlockStops, RegisterStep, TakeBlock,
          IndexingFails
    <3> QED  BY <3>1, <3>2
  <2> QED  BY <2>1, <2>2, <2>3
<1> HIDE DEF Inv
<1> QED
  BY <1>1, <1>2, <1>3, <1>4, PTL DEF Spec, ImplementsStream, Stream!Spec

\* Hence it implements the stream when one poll at a time is under way and the
\* first one returned, or there is no dictionary.
THEOREM ServiceImplementsStream ==
    ASSUME InitBlockHeight > 0, ~InitialPollMayFail, UseDictionary => MaxPolls = 1
    PROVE  Spec => ImplementsStream
<1>1. Spec => []~countedDown
  BY LonePollsNeverCountDown
<1>2. Spec /\ []~countedDown => ImplementsStream
  BY StreamWithoutCountingDown
<1> QED  BY <1>1, <1>2, PTL

-----------------------------------------------------------------------------
(* The cache of the Algorand provider: its inductive invariant              *)

\* The hash of a block that is not of the chain is not asked for.
FetchedExists == \A h \in Rounds : fetches[h] # "none" => h <= round

\* A block waits in the cache for the one who has its hash, unless it was a head.
WaitsForFetch ==
    \A h \in Rounds : fetches[h] \in {"header", "block"} => h \in hashToBlock \cup heads

\* A poll asks for the block of a round.
PollsRound == \A p \in Begun : headPolls[p].step = "block" => headPolls[p].hash # None

\* The head was brought by a poll.
HeadWasPolled == lastHash # None => \E q \in Begun : Answered(q) /\ headPolls[q].hash = lastHash

\* The header of the best head is asked for after the poll it awaits has its answer.
BestWasPolled == best.step \in {"found", "missed"} => best.poll \in Begun /\ Answered(best.poll)

ProviderInv ==
    /\ ProviderTypeOK /\ FetchedExists /\ WaitsForFetch /\ MissedOnlyHeads /\ NothingKeptForEver
    /\ PollsRound /\ HeadWasPolled /\ BestWasPolled /\ HeadKeptBetweenRounds

-----------------------------------------------------------------------------
\* A height of the chain is a round.
LEMMA CachedRounds ==
    ASSUME ProviderTypeOK
    PROVE  /\ \A h \in hashToBlock : h # 0 => h \in Rounds
           /\ \A h \in Rounds : h <= round => h \in 0 .. round /\ h \in 1 .. round
           /\ None \notin heads
<1>1. round \in Nat /\ MaxRound \in Nat /\ round <= MaxRound
  BY ProviderAssumption DEF ProviderAssumption, ProviderTypeOK, Rounds
<1>2. hashToBlock \subseteq 0 .. round /\ heads \subseteq 1 .. round /\ None \notin Nat
  BY ProviderAssumption DEF ProviderAssumption, ProviderTypeOK
<1>3. \A h \in hashToBlock : h # 0 => h \in Rounds
  BY <1>1, <1>2 DEF Rounds
<1>4. \A h \in Rounds : h <= round => h \in 0 .. round /\ h \in 1 .. round
  BY <1>1 DEF Rounds
<1>5. None \notin heads
  <2>1. \A h \in heads : h \in Nat
    BY <1>1, <1>2
  <2> QED  BY <1>2, <2>1
<1> QED  BY <1>3, <1>4, <1>5

LEMMA ProviderInvInit == ProviderInit => ProviderInv
<1> SUFFICES ASSUME ProviderInit PROVE ProviderInv
  OBVIOUS
<1>1. Begun = {} /\ Rounds \subseteq Nat
  BY ProviderAssumption DEF ProviderAssumption, ProviderInit, Begun, Rounds
<1>2. ProviderTypeOK
  <2>1. headPolls \in [Begun -> [step : PollSteps, hash : 1 .. round \cup {None}]]
    BY <1>1 DEF ProviderInit
  <2>2. fetches \in [Rounds -> Steps]
    BY DEF ProviderInit, Steps
  <2>3. round \in Rounds /\ hashToBlock \subseteq 0 .. round /\ lastRoundHash \in 0 .. MaxHeadPolls
        /\ best \in [poll : 0 .. lastRoundHash, step : {"none", "awaited", "found", "missed"}]
        /\ (best.poll = 0 <=> best.step = "none")
    BY ProviderAssumption DEF ProviderAssumption, ProviderInit, Rounds
  <2> QED  BY <1>1, <2>1, <2>2, <2>3 DEF ProviderInit, ProviderTypeOK
<1>3. FetchedExists /\ WaitsForFetch /\ MissedOnlyHeads /\ NothingKeptForEver
  BY DEF ProviderInit, FetchedExists, WaitsForFetch, MissedOnlyHeads, NothingKeptForEver
<1>4. PollsRound /\ HeadWasPolled /\ BestWasPolled /\ HeadKeptBetweenRounds
  BY <1>1 DEF ProviderInit, PollsRound, HeadWasPolled, BestWasPolled, HeadKeptBetweenRounds, HeadKept
<1> QED  BY <1>2, <1>3, <1>4 DEF ProviderInv

-----------------------------------------------------------------------------
(* Steps that leave the cache and the heads as they are                     *)

\* What is known of the polls and of the heads is of no concern to a fetch.
LEMMA FetchLeaves ==
    ASSUME ProviderInv, UNCHANGED <<lastHash, lastRoundHash, heads, headPolls, best>>
    PROVE  /\ PollsRound' /\ HeadWasPolled' /\ BestWasPolled'
           /\ HeadsDiffer' = HeadsDiffer
BY DEF ProviderInv, PollsRound, HeadWasPolled, BestWasPolled, HeadsDiffer, Answered, Begun

LEMMA NewRoundStep ==
    ASSUME ProviderInv, NewRound
    PROVE  ProviderInv'
<1> USE DEF ProviderInv
<1>1. PollsRound' /\ HeadWasPolled' /\ BestWasPolled' /\ HeadsDiffer' = HeadsDiffer
  BY FetchLeaves DEF NewRound, provider
<1>2. round \in 1 .. MaxRound /\ round' = round + 1 /\ round' \in 1 .. MaxRound
  BY ProviderAssumption DEF ProviderAssumption, NewRound, ProviderTypeOK, Rounds
<1>3. headPolls' \in [Begun' -> [step : PollSteps, hash : 1 .. round' \cup {None}]]
  <2>1. 1 .. round \subseteq 1 .. round'
    BY <1>2
  <2> QED  BY <2>1 DEF NewRound, provider, ProviderTypeOK, Begun
<1>4. ProviderTypeOK'
  <2>1. 0 .. round \subseteq 0 .. round' /\ 1 .. round \subseteq 1 .. round'
    BY <1>2
  <2> QED  BY <1>2, <1>3, <2>1 DEF NewRound, provider, ProviderTypeOK, Answered, Begun, Rounds
<1>5. FetchedExists' /\ WaitsForFetch' /\ MissedOnlyHeads' /\ NothingKeptForEver'
  <2>1. \A h \in Rounds : h <= round => h <= round'
    BY <1>2, ProviderAssumption DEF ProviderAssumption, Rounds
  <2>2. FetchedExists'
    BY <2>1 DEF NewRound, provider, FetchedExists
  <2> QED  BY <2>2 DEF NewRound, provider, WaitsForFetch, MissedOnlyHeads, NothingKeptForEver
<1>6. HeadKeptBetweenRounds'
  BY <1>1 DEF NewRound, provider, HeadKeptBetweenRounds, HeadKept
<1> QED  BY <1>1, <1>4, <1>5, <1>6

-----------------------------------------------------------------------------
(* Fetches of blocks by height                                              *)

\* A fetch goes on, and nothing happens to the cache but that its own block comes or,
\* when it is not the head, goes.
LEMMA FetchMoves ==
    ASSUME ProviderInv, NEW h \in Rounds, NEW step \in Steps, h <= round,
           UNCHANGED <<round, lastHash, lastRoundHash, heads, headPolls, best>>,
           fetches' = [fetches EXCEPT ![h] = step],
           hashToBlock' \subseteq hashToBlock \cup {h},
           hashToBlock \ {h} \subseteq hashToBlock',
           h \in hashToBlock /\ h = lastHash => h \in hashToBlock',
           step \in {"header", "block"} => h \in hashToBlock' \cup heads,
           step = "missed" => h \in heads,
           h \in hashToBlock' /\ h # lastHash => step \in {"header", "block", "hash alone"}
    PROVE  ProviderInv'
<1> USE DEF ProviderInv
<1>1. PollsRound' /\ HeadWasPolled' /\ BestWasPolled' /\ HeadsDiffer' = HeadsDiffer
  BY FetchLeaves
<1>2. /\ fetches' \in [Rounds -> Steps]
      /\ fetches'[h] = step
      /\ \A k \in Rounds \ {h} : fetches'[k] = fetches[k]
  BY DEF ProviderTypeOK
<1>3. ProviderTypeOK'
  <2>1. hashToBlock' \subseteq 0 .. round
    <3>1. h \in 0 .. round
      BY CachedRounds
    <3> QED  BY <3>1 DEF ProviderTypeOK
  <2>2. UNCHANGED <<Begun, best.poll, best.step>> /\ \A p \in Begun : Answered(p)' = Answered(p)
    BY DEF Begun, Answered
  <2> QED  BY <1>2, <2>1, <2>2 DEF ProviderTypeOK
<1>4. FetchedExists' /\ WaitsForFetch' /\ MissedOnlyHeads'
  BY <1>2 DEF FetchedExists, WaitsForFetch, MissedOnlyHeads
<1>5. NothingKeptForEver'
  <2> SUFFICES ASSUME NEW k \in hashToBlock', k # 0, k # lastHash
               PROVE  fetches'[k] \in {"header", "block", "hash alone"}
    BY DEF NothingKeptForEver
  <2>1. CASE k = h
    BY <1>2, <2>1
  <2>2. CASE k # h
    <3>1. k \in hashToBlock
      BY <2>2
    <3>2. k \in Rounds
      BY <3>1, CachedRounds
    <3> QED  BY <1>2, <2>2, <3>1, <3>2 DEF NothingKeptForEver
  <2> QED  BY <2>1, <2>2
<1>6. HeadKeptBetweenRounds'
  BY <1>1 DEF HeadKeptBetweenRounds, HeadKept
<1> QED  BY <1>1, <1>3, <1>4, <1>5, <1>6

LEMMA BlockFetchStep ==
    ASSUME ProviderInv, NEW h \in Rounds, Fetch(h)
    PROVE  ProviderInv'
<1>1. \/ fetches[h] \in {"hash", "header", "block"} /\ h <= round
      \/ GetBlockHash(h)
  BY DEF Fetch, HashAnswered, HashFails, GetHeader, SkipHeader, GetBlock, HashAlone, ProviderInv,
         FetchedExists
<1>2. h <= round
  BY <1>1 DEF GetBlockHash
<1>3. h # 0
  BY ProviderAssumption DEF ProviderAssumption, Rounds
<1>4. h \in hashToBlock /\ h # lastHash => fetches[h] \in {"header", "block", "hash alone"}
  BY <1>3 DEF ProviderInv, NothingKeptForEver
<1>5. CASE GetBlockHash(h) \/ HashFails(h) \/ HashAlone(h)
  <2>1. PICK step \in {"hash", "null", "hash alone"} :
            /\ fetches' = [fetches EXCEPT ![h] = step]
            /\ h \in hashToBlock' /\ h # lastHash => step = "hash alone"
    BY <1>4, <1>5 DEF GetBlockHash, HashFails, HashAlone, provider
  <2>2. step \in Steps /\ step \notin {"header", "block", "missed"}
    BY DEF Steps
  <2>3. UNCHANGED <<round, provider, headPolls, best>>
    BY <1>5 DEF GetBlockHash, HashFails, HashAlone
  <2> QED  BY <1>2, <2>1, <2>2, <2>3, FetchMoves DEF provider
<1>6. CASE HashAnswered(h)
  <2>1. "header" \in Steps
    BY DEF Steps
  <2> QED  BY <1>2, <1>6, <2>1, FetchMoves DEF HashAnswered
<1>7. CASE GetHeader(h) \/ SkipHeader(h)
  <2>1. PICK step \in {"block", "missed"} :
            /\ fetches' = [fetches EXCEPT ![h] = step]
            /\ step = "missed" => h \notin hashToBlock
    BY <1>7 DEF GetHeader, SkipHeader, Served
  <2>2. fetches[h] = "header" /\ UNCHANGED <<round, provider, headPolls, best>>
    BY <1>7 DEF GetHeader, SkipHeader
  <2>3. h \in hashToBlock \cup heads
    BY <2>2 DEF ProviderInv, WaitsForFetch
  <2>4. step \in Steps
    BY DEF Steps
  <2> QED  BY <1>2, <2>1, <2>2, <2>3, <2>4, FetchMoves DEF provider
<1>8. CASE GetBlock(h)
  <2>1. PICK step \in {"found", "missed"} :
            /\ fetches' = [fetches EXCEPT ![h] = step]
            /\ step = "missed" => h \notin hashToBlock
    BY <1>8 DEF GetBlock, Served
  <2>2. /\ fetches[h] = "block"
        /\ UNCHANGED <<round, lastHash, lastRoundHash, heads, headPolls, best>>
        /\ hashToBlock' = IF h = lastHash THEN hashToBlock ELSE hashToBlock \ {h}
    BY <1>8 DEF GetBlock, LeftByGetBlock
  <2>3. h \in hashToBlock \cup heads
    BY <2>2 DEF ProviderInv, WaitsForFetch
  <2>4. step \in Steps /\ step \notin {"header", "block"}
    BY DEF Steps
  <2> QED  BY <1>2, <2>1, <2>2, <2>3, <2>4, FetchMoves
<1> QED  BY <1>5, <1>6, <1>7, <1>8 DEF Fetch

-----------------------------------------------------------------------------
(* Polls of the finalized head                                              *)

PollType == [step : PollSteps, hash : 1 .. round \cup {None}]

\* One poll goes on; the others stay as they are.
LEMMA PollMoves ==
    ASSUME ProviderTypeOK, NEW p \in Begun, NEW poll \in PollType, headPolls' = [headPolls EXCEPT ![p] = poll],
           UNCHANGED <<round, lastRoundHash>>
    PROVE  /\ headPolls' \in [Begun' -> PollType'] /\ Begun' = Begun
           /\ headPolls'[p] = poll /\ \A q \in Begun \ {p} : headPolls'[q] = headPolls[q]
BY DEF ProviderTypeOK, PollType, Begun

LEMMA GetFinalizedHeadStep ==
    ASSUME ProviderInv, GetFinalizedHead
    PROVE  ProviderInv'
<1> USE DEF ProviderInv
<1> DEFINE new == lastRoundHash + 1
           asked == [step |-> "status", hash |-> None]
<1>1. /\ lastRoundHash \in Nat /\ lastRoundHash' = new /\ new \in 1 .. MaxHeadPolls
      /\ Begun' = Begun \cup {new} /\ new \notin Begun
  <2>1. lastRoundHash \in Nat /\ lastRoundHash' = new /\ MaxHeadPolls \in Nat /\ lastRoundHash < MaxHeadPolls
    BY ProviderAssumption DEF ProviderAssumption, GetFinalizedHead, ProviderTypeOK
  <2>2. 1 .. new = 1 .. lastRoundHash \cup {new}
    BY <2>1
  <2> QED  BY <2>1, <2>2 DEF Begun
<1>2. headPolls' = [p \in Begun' |-> IF p \in Begun THEN headPolls[p] ELSE asked]
  BY <1>1 DEF GetFinalizedHead
<1> HIDE DEF new
<1>3. /\ \A p \in Begun : headPolls'[p] = headPolls[p]
      /\ headPolls'[new] = asked
  BY <1>1, <1>2
<1>4. UNCHANGED <<round, hashToBlock, lastHash, heads, fetches, best>>
  BY DEF GetFinalizedHead
<1>5. ProviderTypeOK'
  <2>1. headPolls' \in [Begun' -> [step : PollSteps, hash : 1 .. round \cup {None}]]
    <3>1. asked \in [step : PollSteps, hash : 1 .. round \cup {None}]
      BY DEF PollSteps
    <3> HIDE DEF asked
    <3> QED  BY <1>2, <3>1 DEF ProviderTypeOK
  <2>2. \A p \in Begun' : Answered(p)' => headPolls'[p].hash \in heads
    BY <1>1, <1>3 DEF ProviderTypeOK, Answered
  <2>3. 0 .. lastRoundHash \subseteq 0 .. lastRoundHash'
    BY <1>1 DEF new
  <2>4. best' \in [poll : 0 .. lastRoundHash', step : {"none", "awaited", "found", "missed"}]
    BY <1>4, <2>3 DEF ProviderTypeOK
  <2>5. lastRoundHash' \in 0 .. MaxHeadPolls
    BY <1>1
  <2> QED  BY <1>4, <2>1, <2>2, <2>4, <2>5 DEF ProviderTypeOK
<1>6. FetchedExists' /\ WaitsForFetch' /\ MissedOnlyHeads' /\ NothingKeptForEver'
  BY <1>4 DEF FetchedExists, WaitsForFetch, MissedOnlyHeads, NothingKeptForEver
<1>7. PollsRound' /\ HeadWasPolled' /\ BestWasPolled'
  BY <1>1, <1>3, <1>4 DEF PollsRound, HeadWasPolled, BestWasPolled, Answered
<1>8. HeadKeptBetweenRounds'
  <2>1. HeadsDiffer' => HeadsDiffer
    BY <1>1, <1>3 DEF HeadsDiffer, Answered
  <2>2. best.step = "missed" => headPolls'[best.poll] = headPolls[best.poll]
    BY <1>3 DEF BestWasPolled
  <2> QED  BY <1>4, <2>1, <2>2 DEF HeadKeptBetweenRounds, HeadKept
<1> QED  BY <1>5, <1>6, <1>7, <1>8

\* The request before the block, and a failure, are nothing to the cache.
LEMMA QuietPollStep ==
    ASSUME ProviderInv, NEW p \in Begun, StatusAnswered(p) \/ PollFails(p)
    PROVE  ProviderInv'
<1> USE DEF ProviderInv
<1>1. UNCHANGED <<round, provider, fetches, best>> /\ ~Answered(p)
  BY DEF StatusAnswered, PollFails, Answered
<1>2. PICK poll \in PollType :
          /\ headPolls' = [headPolls EXCEPT ![p] = poll] /\ poll.step \in {"block", "failed"}
          /\ poll.step = "block" => poll.hash # None
  <2>1. round \in 1 .. round /\ round # None
    BY ProviderAssumption DEF ProviderAssumption, ProviderTypeOK, Rounds
  <2>2. [step |-> "block", hash |-> round] \in PollType
    BY <2>1 DEF PollType, PollSteps
  <2>3. [step |-> "failed", hash |-> None] \in PollType
    BY DEF PollType, PollSteps
  <2> QED  BY <2>1, <2>2, <2>3 DEF StatusAnswered, PollFails, LastRound
<1>3. /\ headPolls' \in [Begun' -> PollType'] /\ Begun' = Begun
      /\ headPolls'[p] = poll /\ \A q \in Begun \ {p} : headPolls'[q] = headPolls[q]
  BY <1>1, <1>2, PollMoves DEF provider
<1>4. ~Answered(p)' /\ \A q \in Begun \ {p} : Answered(q)' = Answered(q)
  BY <1>2, <1>3 DEF Answered
<1>5. ProviderTypeOK'
  <2>1. headPolls' \in [Begun' -> [step : PollSteps, hash : 1 .. round' \cup {None}]]
    BY <1>3 DEF PollType
  <2>2. \A q \in Begun : Answered(q)' => headPolls'[q].hash \in heads
    BY <1>3, <1>4 DEF ProviderTypeOK
  <2> QED  BY <1>1, <1>3, <2>1, <2>2 DEF provider, ProviderTypeOK
<1>6. FetchedExists' /\ WaitsForFetch' /\ MissedOnlyHeads' /\ NothingKeptForEver'
  BY <1>1 DEF provider, FetchedExists, WaitsForFetch, MissedOnlyHeads, NothingKeptForEver
<1>7. PollsRound' /\ HeadWasPolled' /\ BestWasPolled'
  <2>1. PollsRound'
    BY <1>2, <1>3 DEF PollsRound
  <2> QED  BY <1>1, <1>3, <1>4, <2>1 DEF provider, HeadWasPolled, BestWasPolled
<1>8. HeadKeptBetweenRounds'
  <2>1. HeadsDiffer' => HeadsDiffer
    BY <1>1, <1>3, <1>4 DEF HeadsDiffer
  <2>2. best.step = "missed" => headPolls'[best.poll] = headPolls[best.poll]
    BY <1>1, <1>3 DEF BestWasPolled
  <2> QED  BY <1>1, <2>1, <2>2 DEF provider, HeadKeptBetweenRounds, HeadKept
<1> QED  BY <1>5, <1>6, <1>7, <1>8

\* A poll that has its answer keeps it, and no other poll is touched.
LEMMA AnswerMoves ==
    ASSUME ProviderTypeOK, NEW p \in Begun, NEW step \in {"answered", "found", "missed"},
           headPolls' = [headPolls EXCEPT ![p].step = step], UNCHANGED <<round, lastRoundHash>>
    PROVE  /\ headPolls' \in [Begun' -> [step : PollSteps, hash : 1 .. round' \cup {None}]]
           /\ Begun' = Begun
           /\ headPolls'[p].step = step /\ headPolls'[p].hash = headPolls[p].hash
           /\ \A q \in Begun \ {p} : headPolls'[q] = headPolls[q]
           /\ Answered(p)' /\ \A q \in Begun \ {p} : Answered(q)' = Answered(q)
<1> DEFINE poll == [step |-> step, hash |-> headPolls[p].hash]
<1>1. headPolls[p] \in PollType
  BY DEF ProviderTypeOK, PollType
<1>2. poll \in PollType
  BY <1>1 DEF PollType, PollSteps
<1>3. headPolls' = [headPolls EXCEPT ![p] = poll]
  <2>1. [headPolls[p] EXCEPT !.step = step] = poll
    BY <1>1 DEF PollType
  <2>2. headPolls' = [headPolls EXCEPT ![p] = [headPolls[p] EXCEPT !.step = step]]
    OBVIOUS
  <2> QED  BY <2>1, <2>2
<1>4. poll.step = step /\ poll.hash = headPolls[p].hash
  OBVIOUS
<1> HIDE DEF poll
<1>5. /\ headPolls' \in [Begun' -> PollType'] /\ Begun' = Begun
      /\ headPolls'[p] = poll /\ \A q \in Begun \ {p} : headPolls'[q] = headPolls[q]
  BY <1>2, <1>3, PollMoves
<1> QED  BY <1>4, <1>5 DEF PollType, Answered

\* The new head takes the place of the old one.
LEMMA HeadAnsweredStep ==
    ASSUME ProviderInv, NEW p \in Begun, HeadAnswered(p)
    PROVE  ProviderInv'
<1> USE DEF ProviderInv
<1> DEFINE hash == headPolls[p].hash
<1>1. /\ headPolls[p].step = "block"
      /\ hashToBlock' = (hashToBlock \cup {hash}) \ {lastHash}
      /\ lastHash' = hash
      /\ heads' = heads \cup {hash}
      /\ UNCHANGED <<round, lastRoundHash, fetches, best>>
  BY DEF HeadAnswered, KeptByNewHead
<1>2. /\ headPolls' \in [Begun' -> [step : PollSteps, hash : 1 .. round' \cup {None}]]
      /\ Begun' = Begun
      /\ headPolls'[p].step = "answered" /\ headPolls'[p].hash = hash
      /\ \A q \in Begun \ {p} : headPolls'[q] = headPolls[q]
      /\ Answered(p)' /\ \A q \in Begun \ {p} : Answered(q)' = Answered(q)
  BY <1>1, AnswerMoves DEF HeadAnswered
<1>3. hash \in 1 .. round /\ hash \in 0 .. round /\ hash # 0 /\ hash # None
  <2>1. hash \in 1 .. round
    BY <1>1 DEF ProviderTypeOK, PollsRound
  <2> QED  BY <1>1, <2>1 DEF PollsRound
<1>4. ~Answered(p)
  BY <1>1 DEF Answered
<1> HIDE DEF hash
<1>5. ProviderTypeOK'
  <2>1. \A q \in Begun : Answered(q)' => headPolls'[q].hash \in heads'
    BY <1>1, <1>2 DEF ProviderTypeOK
  <2> QED  BY <1>1, <1>2, <1>3, <2>1 DEF ProviderTypeOK
<1>6. FetchedExists' /\ MissedOnlyHeads'
  BY <1>1 DEF FetchedExists, MissedOnlyHeads
<1>7. WaitsForFetch'
  <2>1. lastHash \in heads \/ lastHash \notin Rounds
    BY ProviderAssumption DEF ProviderAssumption, ProviderTypeOK, Rounds
  <2> QED  BY <1>1, <2>1 DEF WaitsForFetch
<1>8. NothingKeptForEver'
  BY <1>1 DEF NothingKeptForEver
<1>9. PollsRound' /\ HeadWasPolled' /\ BestWasPolled'
  BY <1>1, <1>2 DEF PollsRound, HeadWasPolled, BestWasPolled
<1>10. HeadKeptBetweenRounds'
  <2> SUFFICES ASSUME HeadsDiffer' PROVE HeadKept' /\ (best.step = "missed" => headPolls'[best.poll].hash # hash)
    BY <1>1 DEF HeadKeptBetweenRounds
  <2>1. lastHash # None => hash # lastHash
    BY <1>2, <1>4 DEF HeadsDiffer, HeadWasPolled
  <2>2. HeadKept'
    BY <1>1, <1>3, <2>1 DEF HeadKept
  <2>3. best.step = "missed" => headPolls'[best.poll].hash # hash
    BY <1>2, <1>4 DEF HeadsDiffer, BestWasPolled
  <2> QED  BY <2>2, <2>3
<1> QED  BY <1>5, <1>6, <1>7, <1>8, <1>9, <1>10

\* The block of the head leaves the cache only when there is another head.
LEMMA GetHeadBlockStep ==
    ASSUME ProviderInv, NEW p \in Begun, GetHeadBlock(p)
    PROVE  ProviderInv'
<1> USE DEF ProviderInv
<1> DEFINE hash == headPolls[p].hash
<1>1. /\ headPolls[p].step = "answered" /\ Answered(p)
      /\ hashToBlock' = IF hash = lastHash THEN hashToBlock ELSE hashToBlock \ {hash}
      /\ UNCHANGED <<round, lastHash, lastRoundHash, heads, fetches, best>>
  BY DEF GetHeadBlock, LeftByGetBlock, Answered
<1>2. /\ headPolls' \in [Begun' -> [step : PollSteps, hash : 1 .. round' \cup {None}]]
      /\ Begun' = Begun
      /\ headPolls'[p].step \in {"found", "missed"} /\ headPolls'[p].hash = hash
      /\ \A q \in Begun \ {p} : headPolls'[q] = headPolls[q]
      /\ Answered(p)' /\ \A q \in Begun \ {p} : Answered(q)' = Answered(q)
  <2>1. PICK step \in {"found", "missed"} : headPolls' = [headPolls EXCEPT ![p].step = step]
    BY DEF GetHeadBlock, Served
  <2> QED  BY <1>1, <2>1, AnswerMoves
<1>3. hash \in heads
  BY <1>1 DEF ProviderTypeOK
<1> HIDE DEF hash
<1>4. ProviderTypeOK'
  <2>1. \A q \in Begun : Answered(q)' => headPolls'[q].hash \in heads'
    BY <1>1, <1>2, <1>3 DEF ProviderTypeOK
  <2> QED  BY <1>1, <1>2, <2>1 DEF ProviderTypeOK
<1>5. FetchedExists' /\ MissedOnlyHeads'
  BY <1>1 DEF FetchedExists, MissedOnlyHeads
<1>6. WaitsForFetch'
  BY <1>1, <1>3 DEF WaitsForFetch
<1>7. NothingKeptForEver'
  BY <1>1 DEF NothingKeptForEver
<1>8. PollsRound' /\ HeadWasPolled' /\ BestWasPolled'
  BY <1>1, <1>2 DEF PollsRound, HeadWasPolled, BestWasPolled, hash
<1>9. HeadKeptBetweenRounds'
  <2>1. \A q \in Begun : headPolls'[q].hash = headPolls[q].hash /\ (Answered(q)' <=> Answered(q))
    <3>1. headPolls'[p].hash = headPolls[p].hash
      BY <1>2 DEF hash
    <3> QED  BY <1>1, <1>2, <3>1
  <2>2. HeadsDiffer' => HeadsDiffer
    BY <1>2, <2>1 DEF HeadsDiffer
  <2>3. HeadKept => HeadKept'
    BY <1>1 DEF HeadKept
  <2>4. best.step = "missed" => headPolls'[best.poll].hash = headPolls[best.poll].hash
    BY <2>1 DEF BestWasPolled
  <2> QED  BY <1>1, <2>2, <2>3, <2>4 DEF HeadKeptBetweenRounds
<1> QED  BY <1>4, <1>5, <1>6, <1>7, <1>8, <1>9

-----------------------------------------------------------------------------
(* Polls of the best head                                                   *)

LEMMA BestHeadStep ==
    ASSUME ProviderInv, GetBestHead \/ BestHeadAnswered \/ BestHeadFails
    PROVE  ProviderInv'
<1> USE DEF ProviderInv
<1>1. UNCHANGED <<round, hashToBlock, lastHash, lastRoundHash, heads, headPolls, fetches>>
  BY DEF GetBestHead, BestHeadAnswered, BestHeadFails, provider
<1>2. Begun' = Begun /\ \A p \in Begun : Answered(p)' = Answered(p)
  BY <1>1 DEF Begun, Answered
<1>3. FetchedExists' /\ WaitsForFetch' /\ MissedOnlyHeads' /\ NothingKeptForEver'
      /\ PollsRound' /\ HeadWasPolled' /\ HeadsDiffer' = HeadsDiffer /\ HeadKept' = HeadKept
  BY <1>1, <1>2 DEF FetchedExists, WaitsForFetch, MissedOnlyHeads, NothingKeptForEver,
                    PollsRound, HeadWasPolled, HeadsDiffer, HeadKept
<1>4. /\ best' \in [poll : 0 .. lastRoundHash, step : {"none", "awaited", "found", "missed"}]
      /\ best'.poll = 0 <=> best'.step = "none"
      /\ best'.step \in {"found", "missed"} =>
             /\ best'.poll = best.poll /\ best.poll \in Begun /\ Answered(best.poll)
             /\ best'.step = "missed" => headPolls[best.poll].hash \notin hashToBlock
  <2>1. lastRoundHash \in Nat /\ best \in [poll : 0 .. lastRoundHash,
                                         step : {"none", "awaited", "found", "missed"}]
        /\ (best.poll = 0 <=> best.step = "none")
    BY ProviderAssumption DEF ProviderAssumption, ProviderTypeOK
  <2>2. CASE GetBestHead
    BY <2>1, <2>2 DEF GetBestHead
  <2>3. CASE BestHeadFails
    BY <2>1, <2>3 DEF BestHeadFails
  <2>4. CASE BestHeadAnswered
    <3>1. PICK step \in {"found", "missed"} :
              /\ best' = [best EXCEPT !.step = step]
              /\ step = "missed" => headPolls[best.poll].hash \notin hashToBlock
      BY <2>4 DEF BestHeadAnswered, Served
    <3>2. best.poll \in Begun /\ Answered(best.poll) /\ best.step = "awaited"
      BY <2>1, <2>4 DEF BestHeadAnswered, Begun, Answered
    <3> QED  BY <2>1, <3>1, <3>2
  <2> QED  BY <2>2, <2>3, <2>4
<1>5. ProviderTypeOK'
  BY <1>1, <1>2, <1>4 DEF ProviderTypeOK
<1>6. BestWasPolled'
  BY <1>2, <1>4 DEF BestWasPolled
<1>7. HeadKeptBetweenRounds'
  <2>1. ASSUME HeadKept, best'.step = "missed" PROVE headPolls[best'.poll].hash # lastHash
    <3>1. headPolls[best.poll].hash \in heads /\ best'.poll = best.poll
          /\ headPolls[best.poll].hash \notin hashToBlock
      BY <1>4, <2>1 DEF ProviderTypeOK
    <3>2. lastHash = None \/ lastHash \in hashToBlock
      BY <2>1 DEF HeadKept
    <3> QED  BY <3>1, <3>2, CachedRounds
  <2> QED  BY <1>1, <1>3, <2>1 DEF HeadKeptBetweenRounds
<1> QED  BY <1>3, <1>5, <1>6, <1>7

-----------------------------------------------------------------------------
(* What the cache promises                                                  *)

LEMMA ProviderInvStep == ProviderInv /\ [ProviderNext]_providerVars => ProviderInv'
<1> SUFFICES ASSUME ProviderInv, [ProviderNext]_providerVars PROVE ProviderInv'
  OBVIOUS
<1>1. CASE NewRound
  BY <1>1, NewRoundStep
<1>2. CASE GetFinalizedHead
  BY <1>2, GetFinalizedHeadStep
<1>3. CASE GetBestHead \/ BestHeadAnswered \/ BestHeadFails
  BY <1>3, BestHeadStep
<1>4. CASE \E p \in Begun : Poll(p)
  BY <1>4, QuietPollStep, HeadAnsweredStep, GetHeadBlockStep DEF Poll
<1>5. CASE \E h \in Rounds : Fetch(h)
  BY <1>5, BlockFetchStep
<1>6. CASE UNCHANGED providerVars
  <2>1. UNCHANGED <<round, hashToBlock, lastHash, lastRoundHash, heads, headPolls, fetches, best>>
    BY <1>6 DEF providerVars, provider
  <2>2. PollsRound' /\ HeadWasPolled' /\ BestWasPolled' /\ HeadsDiffer' = HeadsDiffer
    BY <2>1, FetchLeaves
  <2> QED  BY <2>1, <2>2
       DEF ProviderInv, ProviderTypeOK, Begun, Answered, FetchedExists, WaitsForFetch, MissedOnlyHeads,
           NothingKeptForEver, HeadKeptBetweenRounds, HeadKept
<1> QED  BY <1>1, <1>2, <1>3, <1>4, <1>5, <1>6 DEF ProviderNext

\* The inductive invariant holds from the first request on.
THEOREM ProviderInvariant == ProviderSpec => []ProviderInv
BY ProviderInvInit, ProviderInvStep, PTL DEF ProviderSpec

\* Every variable keeps its type.
THEOREM ProviderTypeCorrect == ProviderSpec => []ProviderTypeOK
<1>1. ProviderInv => ProviderTypeOK
  BY DEF ProviderInv
<1> QED  BY <1>1, ProviderInvariant, PTL

\* A block whose hash was answered is served, unless it was a head: the polls that
\* interleave with its fetch do not take it (chain_getBlock, chain_getFinalizedHead).
THEOREM OnlyHeadsAreMissed == ProviderSpec => []MissedOnlyHeads
<1>1. ProviderInv => MissedOnlyHeads
  BY DEF ProviderInv
<1> QED  BY <1>1, ProviderInvariant, PTL

\* The cache does not grow but by hashes nobody came back for (hashToBlock).
THEOREM CacheIsBounded == ProviderSpec => []NothingKeptForEver
<1>1. ProviderInv => NothingKeptForEver
  BY DEF ProviderInv
<1> QED  BY <1>1, ProviderInvariant, PTL

\* While each poll brings another round, the head can be asked for (lastHash).
THEOREM HeadIsKept == ProviderSpec => []HeadKeptBetweenRounds
<1>1. ProviderInv => HeadKeptBetweenRounds
  BY DEF ProviderInv
<1> QED  BY <1>1, ProviderInvariant, PTL
=============================================================================
