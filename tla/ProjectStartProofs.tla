-------------------------- MODULE ProjectStartProofs --------------------------
(* What any number of launches leaves in the schemas of a project: blocks     *)
(* without a gap, a launch's own blocks after a forced clean, right roots.    *)
EXTENDS ProjectStart, SequenceTheorems, TLAPS

----------------------------------------------------------------------------
(* One schema, under the launches there have been                           *)

\* The leaves of the rows of a schema, for given launches.
HashIn(s, ls, id) == [k \in {j \in DOMAIN s.roots : j <= id} |-> ls[s.rows[k]].project]

Leaf(s, ls, k) ==
    IF s.blockOffset + k \in DOMAIN s.roots THEN HashIn(s, ls, s.blockOffset + k)
    ELSE DefaultLeaf

LeavesIn(s, ls, id) == [k \in 1 .. id - s.blockOffset |-> Leaf(s, ls, k)]

LeafSet(s, ls) == {Leaf(s, ls, k) : k \in Nat}

\* The blocks with a row of _poi go up to the stored height.
SchemaInv(s, ls) ==
    /\ s = [blockOffset |-> s.blockOffset, lastProcessedHeight |-> s.lastProcessedHeight,
            rows |-> s.rows, roots |-> s.roots]
    /\ s.roots = [id \in DOMAIN s.roots |-> s.roots[id]]
    /\ s.blockOffset \in Nat \cup {None}
    /\ s.lastProcessedHeight \in Nat \cup {None}
    /\ s.lastProcessedHeight = None => DOMAIN s.roots = {}
    /\ s.lastProcessedHeight # None =>
        /\ s.blockOffset \in Nat
        /\ \E kept \in 1 .. s.lastProcessedHeight :
              DOMAIN s.roots = kept .. s.lastProcessedHeight
    /\ DOMAIN s.roots \subseteq DOMAIN s.rows
    /\ \A h \in DOMAIN s.rows : s.rows[h] \in 0 .. Len(ls)
    /\ \A h \in DOMAIN s.roots : s.rows[h] > 0

\* Every root there is covers the leaves up to its own.
RootsInv(s, ls) ==
    \A id \in DOMAIN s.roots : s.roots[id] # << >> => s.roots[id] = LeavesIn(s, ls, id)

\* A schema this version created.
OwnRows(s) ==
    IF s.lastProcessedHeight = None
    THEN DOMAIN s.rows = {}
    ELSE \E first \in 1 .. s.lastProcessedHeight :
            /\ DOMAIN s.rows = first .. s.lastProcessedHeight
            /\ s.rows[first] > 0

\* A schema an older version began.
LegacyRows(s) ==
    /\ DOMAIN s.rows = 1 .. LastBlock(s) /\ s.rows[1] = 0
    /\ s.lastProcessedHeight # None => s.lastProcessedHeight > LegacyHeight

\* It begins with the start block of the launch that began with it.
BegunRight(s, ls) ==
    \A first \in DOMAIN s.rows :
        (\A h \in DOMAIN s.rows : first <= h) => first = ls[s.rows[first]].startBlock

\* The leaves of a file that was used with this schema only: none yet, or those of
\* the row that was synced last.
OwnLeaves(s, ls, leaves) ==
    \/ leaves = << >>
    \/ \E id \in DOMAIN s.roots : id > s.blockOffset /\ leaves = LeavesIn(s, ls, id)

\* A sequence is the leaves of a row when it has them one by one.
LEMMA LeavesAreSeq ==
    ASSUME NEW s, NEW ls, s.blockOffset \in Nat, NEW id \in Nat, id >= s.blockOffset
    PROVE  /\ LeavesIn(s, ls, id) \in Seq(LeafSet(s, ls))
           /\ Len(LeavesIn(s, ls, id)) = id - s.blockOffset
           /\ \A k \in 1 .. id - s.blockOffset : LeavesIn(s, ls, id)[k] = Leaf(s, ls, k)
           /\ \A q \in Seq(LeafSet(s, ls)) :
                Len(q) = id - s.blockOffset
                /\ (\A k \in 1 .. id - s.blockOffset : q[k] = Leaf(s, ls, k))
                => q = LeavesIn(s, ls, id)
<1> DEFINE n == id - s.blockOffset
           L == LeavesIn(s, ls, id)
<1>1. n \in Nat
  OBVIOUS
<1>2. \A k \in 1 .. n : Leaf(s, ls, k) \in LeafSet(s, ls)
  BY <1>1 DEF LeafSet
<1>3. L = [k \in 1 .. n |-> Leaf(s, ls, k)]
  BY DEF LeavesIn
<1> HIDE DEF n, L
<1>4. L \in [1 .. n -> LeafSet(s, ls)] /\ \A k \in 1 .. n : L[k] = Leaf(s, ls, k)
  BY <1>2, <1>3
<1>5. L \in Seq(LeafSet(s, ls))
  BY <1>1, <1>4, SeqDef
<1>6. Len(L) = n
  <2>1. DOMAIN L = 1 .. Len(L) /\ Len(L) \in Nat
    BY <1>5, LenProperties
  <2>2. DOMAIN L = 1 .. n
    BY <1>3
  <2>3. ASSUME NEW a \in Nat, NEW b \in Nat, 1 .. a = 1 .. b
        PROVE  a = b
    <3>1. a > b => a \in 1 .. a /\ a \notin 1 .. b
      OBVIOUS
    <3>2. b > a => b \in 1 .. b /\ b \notin 1 .. a
      OBVIOUS
    <3> QED
      BY <2>3, <3>1, <3>2
  <2> QED
    BY <1>1, <2>1, <2>2, <2>3
<1>7. ASSUME NEW q \in Seq(LeafSet(s, ls)), Len(q) = n,
             \A k \in 1 .. n : q[k] = Leaf(s, ls, k)
      PROVE  q = L
  <2>1. Len(q) = Len(L) /\ \A k \in 1 .. Len(q) : q[k] = L[k]
    BY <1>4, <1>6, <1>7
  <2> QED
    BY <1>5, <2>1, SeqEqual, Zenon
<1> QED
  BY <1>4, <1>5, <1>6, <1>7 DEF n, L

\* A later launch changes nothing for a schema.
LEMMA LaunchKeeps ==
    ASSUME NEW s, NEW ls \in Seq(Manifests), NEW m \in Manifests, SchemaInv(s, ls)
    PROVE  /\ SchemaInv(s, Append(ls, m))
           /\ \A id : LeavesIn(s, Append(ls, m), id) = LeavesIn(s, ls, id)
           /\ RootsInv(s, ls) => RootsInv(s, Append(ls, m))
           /\ \A leaves : OwnLeaves(s, ls, leaves) => OwnLeaves(s, Append(ls, m), leaves)
<1> DEFINE more == Append(ls, m)
<1>1. /\ Len(ls) \in Nat /\ Len(more) = Len(ls) + 1
      /\ \A i \in 1 .. Len(ls) : more[i] = ls[i]
  BY AppendProperties
<1> HIDE DEF more
<1>2. SchemaInv(s, more)
  <2>1. \A h \in DOMAIN s.rows : s.rows[h] \in 0 .. Len(more)
    BY <1>1 DEF SchemaInv
  <2> QED
    BY <2>1 DEF SchemaInv
<1>3. \A h \in DOMAIN s.roots : more[s.rows[h]] = ls[s.rows[h]]
  <2>1. \A h \in DOMAIN s.roots : s.rows[h] \in 1 .. Len(ls)
    BY <1>1 DEF SchemaInv
  <2> QED
    BY <1>1, <2>1
<1>4. \A id : HashIn(s, more, id) = HashIn(s, ls, id)
  BY <1>3 DEF HashIn
<1>5. \A k : Leaf(s, more, k) = Leaf(s, ls, k)
  BY <1>4 DEF Leaf
<1>6. \A id : LeavesIn(s, more, id) = LeavesIn(s, ls, id)
  BY <1>5 DEF LeavesIn
<1> QED
  BY <1>2, <1>6 DEF RootsInv, OwnLeaves, more

LEMMA BegunStays ==
    ASSUME NEW s, NEW ls \in Seq(Manifests), NEW m \in Manifests, SchemaInv(s, ls),
           OwnRows(s), BegunRight(s, ls)
    PROVE  BegunRight(s, Append(ls, m))
<1>1. /\ Len(ls) \in Nat /\ \A i \in 1 .. Len(ls) : Append(ls, m)[i] = ls[i]
  BY AppendProperties
<1> SUFFICES ASSUME NEW first \in DOMAIN s.rows, \A h \in DOMAIN s.rows : first <= h
             PROVE  first = Append(ls, m)[s.rows[first]].startBlock
  BY DEF BegunRight
<1>2. s.rows[first] \in 1 .. Len(ls)
  <2>1. PICK f \in 1 .. s.lastProcessedHeight :
            DOMAIN s.rows = f .. s.lastProcessedHeight /\ s.rows[f] > 0
    BY DEF OwnRows
  <2>2. s.lastProcessedHeight \in Nat /\ s.rows[f] \in 0 .. Len(ls)
    BY <2>1, StartAssumption DEF SchemaInv, OwnRows
  <2>3. first = f
    BY <2>1, <2>2
  <2> QED
    BY <1>1, <2>1, <2>2, <2>3
<1> QED
  BY <1>1, <1>2 DEF BegunRight

\* A schema with a block more.
Grown(s, h, n) ==
    [s EXCEPT !.lastProcessedHeight = h, !.rows = With(@, h, n), !.roots = With(@, h, << >>)]

\* A block that is indexed after all of a schema leaves what was there as it was.
LEMMA BlockKeeps ==
    ASSUME NEW s, NEW ls \in Seq(Manifests), Len(ls) > 0, SchemaInv(s, ls),
           s.blockOffset \in Nat, NEW h \in Nat \ {0},
           s.lastProcessedHeight # None => h = s.lastProcessedHeight + 1,
           \A k \in DOMAIN s.rows : k < h,
           NEW t, t = Grown(s, h, Len(ls))
    PROVE  /\ t.lastProcessedHeight = h /\ t.blockOffset = s.blockOffset
           /\ DOMAIN t.rows = DOMAIN s.rows \cup {h} /\ t.rows[h] = Len(ls)
           /\ \A k \in DOMAIN s.rows : t.rows[k] = s.rows[k]
           /\ SchemaInv(t, ls)
           /\ RootsInv(s, ls) => RootsInv(t, ls)
           /\ DOMAIN s.roots \subseteq DOMAIN t.roots
           /\ \A id \in DOMAIN s.roots : LeavesIn(t, ls, id) = LeavesIn(s, ls, id)
           /\ \A leaves : OwnLeaves(s, ls, leaves) => OwnLeaves(t, ls, leaves)
<1>1. Len(ls) \in Nat
  BY LenProperties
<1>2. t = [blockOffset |-> s.blockOffset, lastProcessedHeight |-> h,
           rows |-> With(s.rows, h, Len(ls)), roots |-> With(s.roots, h, << >>)]
  <2> DEFINE a == s.blockOffset
             b == s.lastProcessedHeight
             c == s.rows
             d == s.roots
  <2>1. s = [blockOffset |-> a, lastProcessedHeight |-> b, rows |-> c, roots |-> d]
    BY DEF SchemaInv
  <2> HIDE DEF a, b, c, d
  <2> DEFINE e == With(c, h, Len(ls))
             f == With(d, h, << >>)
  <2>2. t = [s EXCEPT !.lastProcessedHeight = h, !.rows = e, !.roots = f]
    BY DEF Grown, a, b, c, d
  <2> HIDE DEF e, f
  <2>3. t = [blockOffset |-> a, lastProcessedHeight |-> h, rows |-> e, roots |-> f]
    BY <2>1, <2>2
  <2> QED
    BY <2>3 DEF a, c, d, e, f
<1>3. /\ t.lastProcessedHeight = h /\ t.blockOffset = s.blockOffset
      /\ t.rows = With(s.rows, h, Len(ls)) /\ t.roots = With(s.roots, h, << >>)
  BY <1>2
<1>4. /\ DOMAIN t.rows = DOMAIN s.rows \cup {h} /\ t.rows[h] = Len(ls)
      /\ \A k \in DOMAIN s.rows : t.rows[k] = s.rows[k]
  BY <1>3 DEF With
<1>5. /\ DOMAIN t.roots = DOMAIN s.roots \cup {h} /\ t.roots[h] = << >>
      /\ \A k \in DOMAIN s.roots : t.roots[k] = s.roots[k]
      /\ t.roots = [id \in DOMAIN t.roots |-> t.roots[id]]
  <2>1. \A k \in DOMAIN s.roots : k < h
    BY DEF SchemaInv
  <2> QED
    BY <1>3, <2>1 DEF With
<1>6. SchemaInv(t, ls)
  <2>1. \E kept \in 1 .. h : DOMAIN t.roots = kept .. h
    <3>1. CASE s.lastProcessedHeight = None
      <4>1. DOMAIN s.roots = {}
        BY <3>1 DEF SchemaInv
      <4>2. DOMAIN t.roots = {h}
        BY <1>5, <4>1
      <4>3. h .. h = {h} /\ h \in 1 .. h
        OBVIOUS
      <4> QED
        BY <4>2, <4>3
    <3>2. CASE s.lastProcessedHeight # None
      <4>1. PICK kept \in 1 .. s.lastProcessedHeight :
                DOMAIN s.roots = kept .. s.lastProcessedHeight
        BY <3>2 DEF SchemaInv
      <4>2. s.lastProcessedHeight \in Nat /\ h = s.lastProcessedHeight + 1
        BY <3>2 DEF SchemaInv
      <4>3. ASSUME NEW n \in Nat, NEW k \in 1 .. n
            PROVE  (k .. n) \cup {n + 1} = k .. n + 1 /\ k \in 1 .. n + 1
        OBVIOUS
      <4>4. DOMAIN t.roots = (kept .. s.lastProcessedHeight) \cup {s.lastProcessedHeight + 1}
        BY <1>5, <4>1, <4>2
      <4>5. DOMAIN t.roots = kept .. h /\ kept \in 1 .. h
        BY <4>2, <4>3, <4>4
      <4> QED
        BY <4>5
    <3> QED
      BY <3>1, <3>2
  <2>2. DOMAIN t.roots \subseteq DOMAIN t.rows
    BY <1>4, <1>5 DEF SchemaInv
  <2>3. \A k \in DOMAIN t.rows : t.rows[k] \in 0 .. Len(ls)
    BY <1>1, <1>4 DEF SchemaInv
  <2>4. \A k \in DOMAIN t.roots : t.rows[k] > 0
    BY <1>4, <1>5 DEF SchemaInv
  <2>5. t = [blockOffset |-> t.blockOffset, lastProcessedHeight |-> t.lastProcessedHeight,
             rows |-> t.rows, roots |-> t.roots]
    BY <1>2, <1>3
  <2>6. t.lastProcessedHeight \in Nat /\ t.blockOffset \in Nat
    BY <1>3
  <2>7. t.lastProcessedHeight # None
    BY <2>6, StartAssumption
  <2> HIDE DEF SchemaInv
  <2> QED
    BY <1>3, <1>5, <2>1, <2>2, <2>3, <2>4, <2>5, <2>6, <2>7 DEF SchemaInv
<1>7. \A id \in DOMAIN s.roots : LeavesIn(t, ls, id) = LeavesIn(s, ls, id)
  <2> SUFFICES ASSUME NEW id \in DOMAIN s.roots
               PROVE  LeavesIn(t, ls, id) = LeavesIn(s, ls, id)
    OBVIOUS
  <2>1. id \in Nat /\ id < h /\ \A k \in DOMAIN s.roots : k \in Nat
    <3>1. s.lastProcessedHeight # None
      BY DEF SchemaInv
    <3>2. /\ s.lastProcessedHeight \in Nat
          /\ \E kept \in 1 .. s.lastProcessedHeight :
                DOMAIN s.roots = kept .. s.lastProcessedHeight
      BY <3>1 DEF SchemaInv
    <3> QED
      BY <3>1, <3>2
  <2>2. \A o : o \in Nat /\ o <= id =>
            /\ o \in DOMAIN t.roots <=> o \in DOMAIN s.roots
            /\ HashIn(t, ls, o) = HashIn(s, ls, o)
    <3> SUFFICES ASSUME NEW o \in Nat, o <= id
                 PROVE  /\ o \in DOMAIN t.roots <=> o \in DOMAIN s.roots
                        /\ HashIn(t, ls, o) = HashIn(s, ls, o)
      OBVIOUS
    <3>1. {j \in DOMAIN t.roots : j <= o} = {j \in DOMAIN s.roots : j <= o}
      BY <1>5, <2>1
    <3>2. \A j \in DOMAIN s.roots : t.rows[j] = s.rows[j]
      BY <1>4 DEF SchemaInv
    <3> QED
      BY <1>5, <2>1, <3>1, <3>2 DEF HashIn
  <2>3. \A k \in 1 .. id - s.blockOffset : Leaf(t, ls, k) = Leaf(s, ls, k)
    <3>1. \A k \in 1 .. id - s.blockOffset : s.blockOffset + k \in Nat /\ s.blockOffset + k <= id
      BY <2>1
    <3> QED
      BY <1>3, <2>2, <3>1 DEF Leaf
  <2> QED
    BY <1>3, <2>3 DEF LeavesIn
<1>8. RootsInv(s, ls) => RootsInv(t, ls)
  BY <1>5, <1>7 DEF RootsInv
<1>9. \A leaves : OwnLeaves(s, ls, leaves) => OwnLeaves(t, ls, leaves)
  BY <1>3, <1>5, <1>7 DEF OwnLeaves
<1> QED
  BY <1>3, <1>4, <1>5, <1>6, <1>7, <1>8, <1>9

\* A schema without an offset has no proofs yet.
LEMMA OffsetKeeps ==
    ASSUME NEW s, NEW ls, SchemaInv(s, ls), NEW o \in Nat,
           s.blockOffset = None \/ o = s.blockOffset,
           NEW t, t = [s EXCEPT !.blockOffset = o]
    PROVE  /\ t.lastProcessedHeight = s.lastProcessedHeight /\ t.rows = s.rows
           /\ t.blockOffset = o
           /\ SchemaInv(t, ls)
           /\ RootsInv(s, ls) => RootsInv(t, ls)
           /\ \A leaves : OwnLeaves(s, ls, leaves) => OwnLeaves(t, ls, leaves)
<1> DEFINE a == s.blockOffset
           b == s.lastProcessedHeight
           c == s.rows
           d == s.roots
<1>1. s = [blockOffset |-> a, lastProcessedHeight |-> b, rows |-> c, roots |-> d]
  BY DEF SchemaInv
<1> HIDE DEF a, b, c, d
<1>2. t = [blockOffset |-> o, lastProcessedHeight |-> b, rows |-> c, roots |-> d]
  BY <1>1
<1>3. t.blockOffset = o /\ t.lastProcessedHeight = b /\ t.rows = c /\ t.roots = d
  BY <1>2
<1>4. SchemaInv(t, ls)
  <2>1. t = [blockOffset |-> t.blockOffset, lastProcessedHeight |-> t.lastProcessedHeight,
             rows |-> t.rows, roots |-> t.roots]
    BY <1>2, <1>3
  <2> QED
    BY <1>3, <2>1 DEF SchemaInv, b, c, d
<1>5. CASE s.blockOffset = None
  <2>1. DOMAIN s.roots = {}
    BY <1>5, StartAssumption DEF SchemaInv
  <2>2. RootsInv(t, ls)
    BY <1>3, <2>1 DEF RootsInv, d
  <2>3. \A leaves : OwnLeaves(s, ls, leaves) => leaves = << >>
    BY <2>1 DEF OwnLeaves
  <2> QED
    BY <1>3, <1>4, <2>2, <2>3 DEF OwnLeaves, b, c
<1>6. CASE o = s.blockOffset
  <2>1. t = s
    BY <1>1, <1>2, <1>6 DEF a
  <2> QED
    BY <1>6, <2>1
<1> QED
  BY <1>5, <1>6

Stored(s, r, root) == [s EXCEPT !.roots[r] = root]

\* A root that is stored changes no leaf.
LEMMA StoredKeeps ==
    ASSUME NEW s, NEW ls, SchemaInv(s, ls), NEW r, NEW root,
           NEW t, t = Stored(s, r, root)
    PROVE  /\ t.lastProcessedHeight = s.lastProcessedHeight /\ t.rows = s.rows
           /\ t.blockOffset = s.blockOffset /\ DOMAIN t.roots = DOMAIN s.roots
           /\ SchemaInv(t, ls)
           /\ \A id : LeavesIn(t, ls, id) = LeavesIn(s, ls, id)
           /\ RootsInv(s, ls) /\ root = LeavesIn(s, ls, r) => RootsInv(t, ls)
           /\ \A leaves : OwnLeaves(s, ls, leaves) => OwnLeaves(t, ls, leaves)
<1> DEFINE a == s.blockOffset
           b == s.lastProcessedHeight
           c == s.rows
           d == s.roots
           e == [d EXCEPT ![r] = root]
<1>1. s = [blockOffset |-> a, lastProcessedHeight |-> b, rows |-> c, roots |-> d]
      /\ t = [s EXCEPT !.roots = e]
  BY DEF SchemaInv, Stored
<1> HIDE DEF a, b, c, d, e
<1>2. t = [blockOffset |-> a, lastProcessedHeight |-> b, rows |-> c, roots |-> e]
  BY <1>1
<1>3. t.blockOffset = a /\ t.lastProcessedHeight = b /\ t.rows = c /\ t.roots = e
  BY <1>2
<1>4. /\ DOMAIN e = DOMAIN d /\ e = [id \in DOMAIN e |-> e[id]]
      /\ \A id \in DOMAIN d : e[id] = IF id = r THEN root ELSE d[id]
  <2>1. d = [id \in DOMAIN d |-> d[id]]
    BY DEF SchemaInv, d
  <2> QED
    BY <2>1 DEF e
<1>5. SchemaInv(t, ls)
  <2>1. t = [blockOffset |-> t.blockOffset, lastProcessedHeight |-> t.lastProcessedHeight,
             rows |-> t.rows, roots |-> t.roots]
    BY <1>2, <1>3
  <2> QED
    <3>1. /\ a \in Nat \cup {None} /\ b \in Nat \cup {None}
          /\ b = None => DOMAIN d = {}
          /\ b # None => a \in Nat /\ \E kept \in 1 .. b : DOMAIN d = kept .. b
          /\ DOMAIN d \subseteq DOMAIN c
          /\ \A h \in DOMAIN c : c[h] \in 0 .. Len(ls)
          /\ \A h \in DOMAIN d : c[h] > 0
      BY DEF SchemaInv, a, b, c, d
    <3> QED
      BY <1>3, <1>4, <2>1, <3>1 DEF SchemaInv
<1>6. \A k : Leaf(t, ls, k) = Leaf(s, ls, k)
  BY <1>3, <1>4 DEF Leaf, HashIn, a, c, d
<1>7. \A id : LeavesIn(t, ls, id) = LeavesIn(s, ls, id)
  BY <1>3, <1>6 DEF LeavesIn, a
<1>8. RootsInv(s, ls) /\ root = LeavesIn(s, ls, r) => RootsInv(t, ls)
  BY <1>3, <1>4, <1>7 DEF RootsInv, d
<1>9. \A leaves : OwnLeaves(s, ls, leaves) => OwnLeaves(t, ls, leaves)
  BY <1>3, <1>4, <1>7 DEF OwnLeaves, a, d
<1> QED
  BY <1>3, <1>4, <1>5, <1>7, <1>8, <1>9 DEF a, b, c, d

LEMMA NextLeaf ==
    ASSUME NEW s, NEW ls, s.blockOffset \in Nat, NEW r \in Nat, r > s.blockOffset,
           r \in DOMAIN s.roots
    PROVE  Append(LeavesIn(s, ls, r - 1), HashIn(s, ls, r)) = LeavesIn(s, ls, r)
<1> DEFINE before == LeavesIn(s, ls, r - 1)
           n == r - 1 - s.blockOffset
           hash == HashIn(s, ls, r)
<1>1. /\ before \in Seq(LeafSet(s, ls)) /\ Len(before) = n /\ n \in Nat
      /\ \A k \in 1 .. n : before[k] = Leaf(s, ls, k)
  <2>1. r - 1 \in Nat /\ r - 1 >= s.blockOffset /\ n \in Nat
    OBVIOUS
  <2> QED
    BY <2>1, LeavesAreSeq
<1>2. s.blockOffset + (n + 1) = r /\ r - s.blockOffset = n + 1 /\ n + 1 \in Nat
  BY <1>1
<1>3. hash = Leaf(s, ls, n + 1)
  BY <1>2 DEF Leaf
<1>4. hash \in LeafSet(s, ls)
  BY <1>2, <1>3 DEF LeafSet
<1>5. \A q \in Seq(LeafSet(s, ls)) :
          Len(q) = r - s.blockOffset
          /\ (\A k \in 1 .. r - s.blockOffset : q[k] = Leaf(s, ls, k))
          => q = LeavesIn(s, ls, r)
  <2>1. r >= s.blockOffset
    OBVIOUS
  <2> QED
    BY <2>1, LeavesAreSeq
<1> HIDE DEF before, n, hash
<1>6. /\ Append(before, hash) \in Seq(LeafSet(s, ls)) /\ Len(Append(before, hash)) = n + 1
      /\ \A k \in 1 .. n : Append(before, hash)[k] = before[k]
      /\ Append(before, hash)[n + 1] = hash
  BY <1>1, <1>4, AppendProperties
<1>7. \A k \in 1 .. n + 1 : Append(before, hash)[k] = Leaf(s, ls, k)
  BY <1>1, <1>3, <1>6
<1> QED
  BY <1>2, <1>5, <1>6, <1>7 DEF before, hash

LEMMA NoGap ==
    ASSUME NEW a \in Int, a <= 0
    PROVE  [k \in 1 .. a |-> DefaultLeaf] = << >>
  OBVIOUS

\* A file that is in step with the rows, up to the next row.
InStep(s, ls, leaves, next) ==
    \/ leaves = << >> /\ next = s.blockOffset
    \/ \E id \in DOMAIN s.roots : /\ id > s.blockOffset /\ leaves = LeavesIn(s, ls, id)
                                 /\ next \in {id, id + 1}

\* The leaves with the gap before a row, and with its own.
Filled(leaves, next, r) == leaves \o [k \in 1 .. r - next - 1 |-> DefaultLeaf]

WithLeaf(s, ls, gap, r) ==
    IF r - s.blockOffset - 1 = Len(gap) THEN Append(gap, HashIn(s, ls, r)) ELSE gap

LEMMA RootsContiguous ==
    ASSUME NEW s, NEW ls, SchemaInv(s, ls), DOMAIN s.roots # {}
    PROVE  \E kept \in Nat, last \in Nat : kept > 0 /\ DOMAIN s.roots = kept .. last
<1>1. s.lastProcessedHeight # None
  BY DEF SchemaInv
<1>2. /\ s.lastProcessedHeight \in Nat
      /\ \E kept \in 1 .. s.lastProcessedHeight :
            DOMAIN s.roots = kept .. s.lastProcessedHeight
  BY <1>1 DEF SchemaInv
<1>3. PICK kept \in 1 .. s.lastProcessedHeight :
          DOMAIN s.roots = kept .. s.lastProcessedHeight
  BY <1>2
<1>4. kept \in Nat /\ kept > 0
  BY <1>2
<1> QED
  BY <1>2, <1>3, <1>4

\* A file in step with the rows holds, after the next row is synced, the leaves of
\* this row.
LEMMA LeavesOfNext ==
    ASSUME NEW s, NEW ls, SchemaInv(s, ls), s.blockOffset \in Nat, NEW leaves, NEW next,
           InStep(s, ls, leaves, next),
           NEW r \in DOMAIN s.roots, r >= next,
           \A o \in DOMAIN s.roots : o >= next => r <= o,
           r > s.blockOffset
    PROVE  WithLeaf(s, ls, Filled(leaves, next, r), r) = LeavesIn(s, ls, r)
<1> DEFINE offset == s.blockOffset
           gap == Filled(leaves, next, r)
<1> HIDE DEF gap
<1>1. PICK kept \in Nat, last \in Nat : kept > 0 /\ DOMAIN s.roots = kept .. last
  BY RootsContiguous
<1>2. r \in Nat
  BY <1>1
<1>3. ASSUME Len(gap) = r - offset - 1, gap = LeavesIn(s, ls, r - 1)
      PROVE  WithLeaf(s, ls, gap, r) = LeavesIn(s, ls, r)
  <2>1. WithLeaf(s, ls, gap, r) = Append(gap, HashIn(s, ls, r))
    BY <1>3 DEF WithLeaf
  <2> QED
    BY <1>2, <1>3, <2>1, NextLeaf
<1>4. CASE leaves = << >> /\ next = offset
  <2> DEFINE g == [k \in 1 .. r - next - 1 |-> DefaultLeaf]
  <2>1. \A k \in 1 .. r - next - 1 : Leaf(s, ls, k) = DefaultLeaf
    <3>1. \A k \in 1 .. r - next - 1 : offset + k >= next /\ ~(r <= offset + k)
      BY <1>2, <1>4
    <3> QED
      BY <3>1 DEF Leaf
  <2>2. g = LeavesIn(s, ls, r - 1)
    <3>1. r - next - 1 = (r - 1) - offset
      BY <1>2, <1>4
    <3> QED
      BY <2>1, <3>1 DEF LeavesIn
  <2> HIDE DEF g
  <2>3. g \in Seq(LeafSet(s, ls)) /\ Len(g) = r - 1 - offset
    <3>1. r - 1 \in Nat /\ r - 1 >= offset
      BY <1>2
    <3> QED
      BY <2>2, <3>1, LeavesAreSeq
  <2>4. gap = << >> \o g
    BY <1>4 DEF g, gap, Filled
  <2>5. gap = g
    BY <2>3, <2>4, ConcatEmptySeq
  <2>6. Len(gap) = r - offset - 1
    <3>1. r - 1 - offset = r - offset - 1
      BY <1>2
    <3> QED
      BY <2>3, <2>5, <3>1
  <2> QED
    BY <1>3, <2>2, <2>5, <2>6 DEF gap
<1>5. ASSUME NEW id \in DOMAIN s.roots, id > offset, leaves = LeavesIn(s, ls, id),
             next \in {id, id + 1}
      PROVE  WithLeaf(s, ls, gap, r) = LeavesIn(s, ls, r)
  <2>1. id \in Nat /\ kept <= id /\ id <= last /\ r <= last
    BY <1>1
  <2>2. next \in Nat /\ next <= r
    BY <1>5, <2>1
  <2>3. next \in DOMAIN s.roots
    <3>1. kept <= next /\ next <= last
      BY <1>2, <1>5, <2>1, <2>2
    <3> QED
      BY <1>1, <2>2, <3>1
  <2>4. r <= next
    <3>1. next >= next
      BY <2>2
    <3> QED
      BY <2>3, <3>1
  <2>5. r = next
    BY <1>2, <2>2, <2>4
  <2>6. leaves \in Seq(LeafSet(s, ls)) /\ Len(leaves) = id - offset
    <3>1. id >= offset
      BY <1>5, <2>1
    <3> QED
      BY <1>5, <2>1, <3>1, LeavesAreSeq
  <2>7. gap = leaves
    <3>1. r - next - 1 \in Int /\ r - next - 1 <= 0
      BY <2>2, <2>5
    <3>2. [k \in 1 .. r - next - 1 |-> DefaultLeaf] = << >>
      BY <3>1, NoGap
    <3>3. gap = leaves \o << >>
      BY <3>2 DEF gap, Filled
    <3> QED
      BY <2>6, <3>3, ConcatEmptySeq
  <2>8. CASE r = id
    <3>1. Len(gap) # r - offset - 1
      BY <2>1, <2>6, <2>7, <2>8
    <3>2. WithLeaf(s, ls, gap, r) = gap
      BY <3>1 DEF WithLeaf
    <3> QED
      BY <1>5, <2>7, <2>8, <3>2
  <2>9. CASE r = id + 1
    <3>1. r - 1 = id /\ r - offset - 1 = id - offset
      BY <2>1, <2>9
    <3> QED
      BY <1>3, <1>5, <2>6, <2>7, <3>1
  <2> QED
    BY <1>5, <2>5, <2>8, <2>9
<1> QED
  BY <1>4, <1>5 DEF InStep, gap

\* There is a next row when there is a row to sync.
LEMMA NextRowExists ==
    ASSUME NEW s, NEW ls, SchemaInv(s, ls), NEW next \in Nat,
           {id \in DOMAIN s.roots : id >= next} # {}
    PROVE  \E r \in {id \in DOMAIN s.roots : id >= next} :
               \A o \in {id \in DOMAIN s.roots : id >= next} : r <= o
<1>1. PICK kept \in Nat, last \in Nat : kept > 0 /\ DOMAIN s.roots = kept .. last
  BY RootsContiguous
<1>2. PICK id \in kept .. last : id >= next
  BY <1>1
<1>3. ASSUME kept >= next
      PROVE  kept \in kept .. last /\ \A o \in kept .. last : o >= next => kept <= o
  BY <1>2
<1>4. ASSUME ~(kept >= next)
      PROVE  next \in kept .. last /\ next >= next /\ \A o \in kept .. last : o >= next => next <= o
  BY <1>2, <1>4
<1> QED
  BY <1>1, <1>3, <1>4

----------------------------------------------------------------------------
(* The invariant of the launches                                            *)

Phases == {"down", "schemas", "fallback", "drop", "delete", "create", "sync",
           "metadata", "mmr", "height", "running", "exited"}

\* The schema of the process is known to be there.
InUse == {"metadata", "mmr", "height", "running"}

\* The file is open.
Proving == {"height", "running"}

Live(n) == schemas[n] # None \/ (n = schema /\ pc \in InUse)

TypeInv ==
    /\ schemas = [n \in Names |-> schemas[n]]
    /\ \/ subqueries = None
       \/ subqueries = [dbSchema |-> LegacySchema, nextBlockHeight |-> LegacyHeight + 1]
    /\ life \in Nat /\ mixed \subseteq Names /\ cleanFailed \in BOOLEAN /\ forceClean \in BOOLEAN
    /\ pc \in Phases /\ schema \in Names
    /\ launches \in Seq(Manifests)
    /\ pc \notin {"down", "exited"} => Len(launches) > 0

\* What a schema that is there holds.
NameInv(n) ==
    /\ SchemaInv(schemas[n], launches)
    /\ n \notin mixed => RootsInv(schemas[n], launches)
    /\ n = DbSchema => /\ life > 0 /\ OwnRows(schemas[n])
                       /\ cleanFailed \/ BegunRight(schemas[n], launches)
    /\ n = LegacySchema => LegacyRows(schemas[n])

SchemasInv == \A n \in Names : Live(n) => NameInv(n)

\* Why a schema is dropped before it is created again, and the older version's is
\* only used while its row is there.
PhaseInv ==
    /\ pc \in {"schemas", "fallback"} => schema = DbSchema
    /\ pc \in {"fallback", "delete"} => schemas[DbSchema] = None
    /\ pc = "drop" /\ schema = LegacySchema => schemas[DbSchema] = None
    /\ pc = "create" => cleanFailed \/ schemas[DbSchema] = None
    /\ pc = "create" => cleanFailed \/ subqueries = None
    /\ pc \in {"sync"} \cup InUse /\ schema = LegacySchema => subqueries # None
    /\ Live(DbSchema) => cleanFailed \/ subqueries = None

HeightInv == pc = "running" => height = StartHeight

\* A schema that holds what the last of the launches put there, and nothing else.
CleanRows(s, ls) ==
    /\ s.blockOffset \in {None, ls[Len(ls)].startBlock - 1}
    /\ \A h \in DOMAIN s.rows : s.rows[h] = Len(ls)

\* After a forced clean.
CleanInv ==
    pc \in {"sync"} \cup InUse /\ forceClean =>
        /\ schema = DbSchema
        /\ cleanFailed \/ CleanRows(schemas[DbSchema], launches)

FileInv ==
    file # None \/ pc \in Proving =>
        /\ file = [life |-> file.life, leaves |-> file.leaves]
        /\ file.life = None \/ (file.life \in Nat /\ file.life <= life)
        /\ \A n \in Names : Live(n) /\ file.life = Life(n) =>
               OwnLeaves(schemas[n], launches, file.leaves)

SyncInv ==
    /\ pc \in {"mmr"} \cup Proving => current.blockOffset \in Nat
    /\ pc \in Proving =>
        /\ file.life \in {Life(schema), None}
        /\ file.life = None => schema \in mixed
        /\ file.life # None => InStep(current, launches, file.leaves, nextMmrHeight)

StartInv ==
    TypeInv /\ SchemasInv /\ PhaseInv /\ HeightInv /\ CleanInv /\ FileInv /\ SyncInv

LEMMA StartInit == Init => StartInv
<1> SUFFICES ASSUME Init PROVE StartInv
  OBVIOUS
<1>1. /\ pc = "down" /\ file = None /\ schema = DbSchema /\ life = 0
      /\ launches = << >> /\ mixed = {} /\ cleanFailed = FALSE /\ forceClean = FALSE
  BY DEF Init
<1>2. DbSchema \in Names /\ LegacySchema \in Names /\ DbSchema # LegacySchema
  BY StartAssumption DEF Names
<1>3. schemas[DbSchema] = None
  BY <1>2 DEF Init
<1>4. TypeInv
  <2>1. schemas = [n \in Names |-> schemas[n]]
    <3>1. CASE schemas = [n \in Names |-> None]
      BY <3>1
    <3>2. CASE schemas = [n \in Names |-> IF n = LegacySchema THEN LegacyContent ELSE None]
      BY <3>2
    <3> QED
      BY <3>1, <3>2 DEF Init
  <2>2. \/ subqueries = None
        \/ subqueries = [dbSchema |-> LegacySchema, nextBlockHeight |-> LegacyHeight + 1]
    BY DEF Init
  <2>3. launches \in Seq(Manifests)
    BY <1>1
  <2> QED
    BY <1>1, <1>2, <2>1, <2>2, <2>3 DEF TypeInv, Phases
<1>5. schemas[LegacySchema] # None => schemas[LegacySchema] = LegacyContent
  BY <1>2 DEF Init
<1>6. SchemasInv
  <2>1. SUFFICES ASSUME Live(LegacySchema) PROVE NameInv(LegacySchema)
    BY <1>1, <1>2, <1>3 DEF SchemasInv, Live, InUse, Names
  <2>2. schemas[LegacySchema] = LegacyContent
    BY <1>1, <1>5, <2>1 DEF Live, InUse
  <2> DEFINE rows == [h \in 1 .. LegacyHeight |-> 0]
             s == LegacyContent
  <2>3. s = [blockOffset |-> None, lastProcessedHeight |-> None, rows |-> rows, roots |-> NoRows]
    <3>1. s = [EmptySchema EXCEPT !.rows = rows]
      BY DEF LegacyContent
    <3> HIDE DEF s, rows
    <3>2. EmptySchema = [blockOffset |-> None, lastProcessedHeight |-> None,
                         rows |-> NoRows, roots |-> NoRows]
      BY DEF EmptySchema
    <3> QED
      BY <3>1, <3>2
  <2>4. DOMAIN NoRows = {} /\ NoRows = [id \in DOMAIN NoRows |-> NoRows[id]]
    <3>1. DOMAIN NoRows = {}
      BY DEF NoRows
    <3>2. NoRows = [id \in {} |-> NoRows[id]]
      BY DEF NoRows
    <3> QED
      BY <3>1, <3>2
  <2>5. DOMAIN rows = 1 .. LegacyHeight /\ \A h \in 1 .. LegacyHeight : rows[h] = 0
    OBVIOUS
  <2> HIDE DEF rows, s
  <2>6. /\ s.blockOffset = None /\ s.lastProcessedHeight = None /\ s.rows = rows
        /\ s.roots = NoRows
        /\ s = [blockOffset |-> s.blockOffset, lastProcessedHeight |-> s.lastProcessedHeight,
                rows |-> s.rows, roots |-> s.roots]
    BY <2>3
  <2>7. Len(launches) = 0
    BY <1>1
  <2>8. SchemaInv(s, launches)
    BY <2>4, <2>5, <2>6, <2>7 DEF SchemaInv
  <2>9. RootsInv(s, launches)
    BY <2>4, <2>6 DEF RootsInv
  <2>10. LegacyRows(s)
    <3>1. 1 \in 1 .. LegacyHeight
      BY StartAssumption
    <3>2. LastBlock(s) = LegacyHeight
      BY <2>6 DEF LastBlock
    <3> QED
      BY <2>5, <2>6, <3>1, <3>2 DEF LegacyRows
  <2> QED
    BY <1>2, <2>2, <2>8, <2>9, <2>10 DEF NameInv, s
<1>7. PhaseInv /\ HeightInv /\ CleanInv /\ SyncInv /\ FileInv
  BY <1>1, <1>3 DEF PhaseInv, HeightInv, CleanInv, SyncInv, FileInv, Live, InUse, Proving
<1> QED
  BY <1>4, <1>6, <1>7 DEF StartInv

----------------------------------------------------------------------------
(* The steps that leave the schemas and the file alone                      *)

LEMMA QuietKeeps ==
    ASSUME SchemasInv, FileInv, UNCHANGED <<schemas, life, mixed, file, launches>>,
           cleanFailed => cleanFailed',
           \A n \in Names : (schemas'[n] # None \/ (n = schema' /\ pc' \in InUse)) => Live(n),
           pc' \in Proving => pc \in Proving
    PROVE  SchemasInv' /\ FileInv'
<1>1. \A n \in Names : Live(n)' => Live(n)
  BY DEF Live
<1>2. ASSUME NEW n \in Names, NameInv(n)
      PROVE  NameInv(n)'
  BY <1>2 DEF NameInv
<1>3. SchemasInv'
  BY <1>1, <1>2 DEF SchemasInv
<1>4. FileInv'
  BY <1>1 DEF FileInv, Life
<1> QED
  BY <1>3, <1>4

LEMMA CrashKeeps ==
    ASSUME StartInv, Crash
    PROVE  StartInv'
<1>1. /\ pc' = "down" /\ UNCHANGED <<database, file, launch, schema, height, nextMmrHeight>>
      /\ UNCHANGED <<schemas, subqueries, life, mixed, cleanFailed, forceClean, launches>>
  BY DEF Crash, database, launch
<1>2. TypeInv /\ SchemasInv /\ PhaseInv /\ FileInv
  BY DEF StartInv
<1>3. SchemasInv' /\ FileInv'
  BY <1>1, <1>2, QuietKeeps DEF Live, InUse, Proving
<1>4. TypeInv'
  BY <1>1, <1>2 DEF TypeInv, Phases
<1>5. PhaseInv'
  BY <1>1, <1>2 DEF PhaseInv, Live, InUse
<1>6. HeightInv' /\ CleanInv' /\ SyncInv'
  BY <1>1 DEF HeightInv, CleanInv, SyncInv, InUse, Proving
<1> QED
  BY <1>3, <1>4, <1>5, <1>6 DEF StartInv

LEMMA FetchSchemasKeeps ==
    ASSUME StartInv, FetchSchemas
    PROVE  StartInv'
<1>1. /\ pc = "schemas"
      /\ UNCHANGED <<schemas, subqueries, life, mixed, cleanFailed, forceClean, launches,
                     file, schema, height, nextMmrHeight>>
  BY DEF FetchSchemas, database, launch
<1>2. TypeInv /\ SchemasInv /\ PhaseInv /\ FileInv
  BY DEF StartInv
<1>3. \/ schemas[DbSchema] = None /\ pc' = "fallback"
      \/ schemas[DbSchema] # None /\ forceClean /\ pc' = "drop"
      \/ schemas[DbSchema] # None /\ ~forceClean /\ pc' = "sync"
  BY DEF FetchSchemas, AfterSchemaFound
<1>4. pc' \in {"fallback", "drop", "sync"}
  BY <1>3
<1>5. SchemasInv' /\ FileInv'
  BY <1>1, <1>2, <1>4, QuietKeeps DEF Live, InUse, Proving
<1>6. TypeInv'
  BY <1>1, <1>2, <1>4 DEF TypeInv, Phases
<1>7. schema = DbSchema /\ schema # LegacySchema
  BY <1>1, <1>2, StartAssumption DEF PhaseInv
<1>8. Live(DbSchema)' => Live(DbSchema)
  BY <1>1, <1>4 DEF Live, InUse
<1>9. PhaseInv'
  BY <1>1, <1>2, <1>3, <1>7, <1>8 DEF PhaseInv, InUse
<1>10. CleanInv'
  BY <1>1, <1>3 DEF CleanInv, InUse
<1>11. HeightInv' /\ SyncInv'
  BY <1>4 DEF HeightInv, SyncInv, Proving
<1> QED
  BY <1>5, <1>6, <1>9, <1>10, <1>11 DEF StartInv

LEMMA FindSubqueryKeeps ==
    ASSUME StartInv, FindSubquery
    PROVE  StartInv'
<1>1. /\ pc = "fallback"
      /\ UNCHANGED <<schemas, subqueries, life, mixed, cleanFailed, forceClean, launches,
                     file, height, nextMmrHeight>>
  BY DEF FindSubquery, database, launch
<1>2. TypeInv /\ SchemasInv /\ PhaseInv /\ FileInv
  BY DEF StartInv
<1>3. schema = DbSchema /\ schemas[DbSchema] = None
  BY <1>1, <1>2 DEF PhaseInv
<1>4. \/ subqueries = None /\ pc' = "create" /\ schema' = schema
      \/ /\ subqueries # None /\ schema' = LegacySchema
         /\ forceClean => pc' = "drop"
         /\ ~forceClean => pc' = "sync"
  BY <1>2 DEF FindSubquery, AfterSchemaFound, TypeInv
<1>5. pc' \in {"create", "drop", "sync"} /\ schema' \in Names
  BY <1>2, <1>3, <1>4 DEF TypeInv, Names
<1>6. SchemasInv' /\ FileInv'
  BY <1>1, <1>2, <1>5, QuietKeeps DEF Live, InUse, Proving
<1>7. TypeInv'
  BY <1>1, <1>2, <1>5 DEF TypeInv, Phases
<1>8. ~Live(DbSchema)'
  BY <1>1, <1>3, <1>5 DEF Live, InUse
<1>9. PhaseInv'
  BY <1>1, <1>3, <1>4, <1>8 DEF PhaseInv, InUse
<1>10. CleanInv'
  BY <1>1, <1>4 DEF CleanInv, InUse
<1>11. HeightInv' /\ SyncInv'
  BY <1>5 DEF HeightInv, SyncInv, Proving
<1> QED
  BY <1>6, <1>7, <1>9, <1>10, <1>11 DEF StartInv

LEMMA DeleteSubqueryKeeps ==
    ASSUME StartInv, DeleteSubquery
    PROVE  StartInv'
<1>1. /\ pc = "delete" /\ pc' = "create" /\ subqueries' = None
      /\ UNCHANGED <<schemas, life, mixed, cleanFailed, forceClean, launches,
                     file, schema, height, nextMmrHeight>>
  BY DEF DeleteSubquery, launch
<1>2. TypeInv /\ SchemasInv /\ PhaseInv /\ FileInv
  BY DEF StartInv
<1>3. SchemasInv' /\ FileInv'
  BY <1>1, <1>2, QuietKeeps DEF Live, InUse, Proving
<1>4. TypeInv'
  BY <1>1, <1>2 DEF TypeInv, Phases
<1>5. schemas[DbSchema] = None
  BY <1>1, <1>2 DEF PhaseInv
<1>6. PhaseInv'
  BY <1>1, <1>5 DEF PhaseInv, InUse
<1>7. HeightInv' /\ CleanInv' /\ SyncInv'
  BY <1>1 DEF HeightInv, CleanInv, SyncInv, InUse, Proving
<1> QED
  BY <1>3, <1>4, <1>6, <1>7 DEF StartInv

LEMMA CleanFailsKeeps ==
    ASSUME StartInv, CleanFails
    PROVE  StartInv'
<1>1. /\ pc' = "create" /\ cleanFailed' = TRUE
      /\ UNCHANGED <<schemas, subqueries, life, mixed, forceClean, launches,
                     file, schema, height, nextMmrHeight>>
      /\ pc \in {"drop", "delete"}
  BY DEF CleanFails, launch
<1>2. TypeInv /\ SchemasInv /\ PhaseInv /\ FileInv
  BY DEF StartInv
<1>3. SchemasInv' /\ FileInv'
  BY <1>1, <1>2, QuietKeeps DEF Live, InUse, Proving
<1>4. TypeInv'
  BY <1>1, <1>2 DEF TypeInv, Phases
<1>5. PhaseInv'
  BY <1>1 DEF PhaseInv, InUse
<1>6. HeightInv' /\ CleanInv' /\ SyncInv'
  BY <1>1 DEF HeightInv, CleanInv, SyncInv, InUse, Proving
<1> QED
  BY <1>3, <1>4, <1>5, <1>6 DEF StartInv

LEMMA SyncSchemaKeeps ==
    ASSUME StartInv, SyncSchema
    PROVE  StartInv'
<1>1. /\ pc = "sync"
      /\ UNCHANGED <<schemas, subqueries, life, mixed, cleanFailed, forceClean, launches,
                     file, schema, height, nextMmrHeight>>
      /\ pc' = "exited" \/ (schemas[schema] # None /\ pc' = "metadata")
  <2>1. pc = "sync" /\ (pc' = "exited" \/ (schemas[schema] # None /\ pc' = "metadata"))
    BY DEF SyncSchema, current
  <2>2. UNCHANGED <<schemas, subqueries, life, mixed, cleanFailed, forceClean, launches,
                    file, schema, height, nextMmrHeight>>
    BY DEF SyncSchema, launch
  <2> QED
    BY <2>1, <2>2
<1>2. TypeInv /\ SchemasInv /\ PhaseInv /\ FileInv /\ CleanInv
  BY DEF StartInv
<1>3. \A n \in Names : (schemas'[n] # None \/ (n = schema' /\ pc' \in InUse)) => Live(n)
  BY <1>1 DEF Live, InUse
<1>4. SchemasInv' /\ FileInv'
  BY <1>1, <1>2, <1>3, QuietKeeps DEF Proving
<1>5. TypeInv'
  BY <1>1, <1>2 DEF TypeInv, Phases
<1>6. Live(DbSchema)' => Live(DbSchema)
  BY <1>1 DEF Live, InUse
<1>7. PhaseInv'
  BY <1>1, <1>2, <1>6 DEF PhaseInv, InUse
<1>8. CleanInv'
  BY <1>1, <1>2 DEF CleanInv, InUse
<1>9. HeightInv' /\ SyncInv'
  BY <1>1 DEF HeightInv, SyncInv, Proving
<1> QED
  BY <1>4, <1>5, <1>7, <1>8, <1>9 DEF StartInv

LEMMA StartIndexingKeeps ==
    ASSUME StartInv, StartIndexing
    PROVE  StartInv'
<1>1. /\ pc = "height" /\ height' = StartHeight
      /\ UNCHANGED <<schemas, subqueries, life, mixed, cleanFailed, forceClean, launches,
                     file, schema, nextMmrHeight>>
      /\ pc' \in {"running", "exited"}
  BY DEF StartIndexing, database, launch
<1>2. TypeInv /\ SchemasInv /\ PhaseInv /\ FileInv /\ CleanInv /\ SyncInv
  BY DEF StartInv
<1>3. \A n \in Names : (schemas'[n] # None \/ (n = schema' /\ pc' \in InUse)) => Live(n)
  BY <1>1 DEF Live, InUse
<1>4. SchemasInv' /\ FileInv'
  BY <1>1, <1>2, <1>3, QuietKeeps DEF Proving
<1>5. TypeInv'
  BY <1>1, <1>2 DEF TypeInv, Phases
<1>6. Live(DbSchema)' => Live(DbSchema)
  BY <1>1 DEF Live, InUse
<1>7. PhaseInv'
  BY <1>1, <1>2, <1>6 DEF PhaseInv, InUse
<1>8. CleanInv'
  BY <1>1, <1>2 DEF CleanInv, InUse
<1>9. HeightInv'
  BY <1>1 DEF HeightInv, StartHeight, current, manifest
<1>10. SyncInv'
  BY <1>1, <1>2 DEF SyncInv, Proving, current, Life
<1> QED
  BY <1>4, <1>5, <1>7, <1>8, <1>9, <1>10 DEF StartInv

----------------------------------------------------------------------------
(* The steps that change a schema, or the file                              *)

LEMMA NamesAre ==
    /\ Names = {DbSchema, LegacySchema} /\ DbSchema # LegacySchema
    /\ DbSchema \in Names /\ LegacySchema \in Names
    /\ Life(DbSchema) = life /\ Life(LegacySchema) = 0
  BY StartAssumption DEF Names, Life

LEMMA LaunchStepKeeps ==
    ASSUME StartInv, Launch
    PROVE  StartInv'
<1>1. PICK m \in Manifests : launches' = Append(launches, m)
  BY DEF Launch
<1>2. /\ pc \in {"down", "exited"} /\ pc' = "schemas" /\ schema' = DbSchema
      /\ forceClean' \in BOOLEAN /\ file' \in {file, None}
      /\ UNCHANGED <<schemas, subqueries, life, mixed, cleanFailed>>
  BY DEF Launch, database
<1>3. TypeInv /\ SchemasInv /\ PhaseInv /\ FileInv
  BY DEF StartInv
<1>4. launches \in Seq(Manifests) /\ launches' \in Seq(Manifests) /\ Len(launches') > 0
  <2>1. launches \in Seq(Manifests)
    BY <1>3 DEF TypeInv
  <2>2. Len(launches) \in Nat
    BY <2>1, LenProperties
  <2> QED
    BY <1>1, <2>1, <2>2, AppendProperties
<1>5. \A n \in Names : Live(n)' => Live(n)
  BY <1>2 DEF Live, InUse
<1>6. ASSUME NEW n \in Names, NameInv(n)
      PROVE  NameInv(n)'
  <2>1. /\ SchemaInv(schemas[n], launches')
        /\ RootsInv(schemas[n], launches) => RootsInv(schemas[n], launches')
    BY <1>1, <1>4, <1>6, LaunchKeeps DEF NameInv
  <2>2. OwnRows(schemas[n]) /\ BegunRight(schemas[n], launches)
            => BegunRight(schemas[n], launches')
    BY <1>1, <1>4, <1>6, BegunStays DEF NameInv
  <2> QED
    BY <1>2, <1>6, <2>1, <2>2 DEF NameInv
<1>7. SchemasInv'
  BY <1>3, <1>5, <1>6 DEF SchemasInv
<1>8. TypeInv'
  BY <1>2, <1>3, <1>4, NamesAre DEF TypeInv, Phases
<1>9. FileInv'
  <2>1. SUFFICES ASSUME file # None, file' = file PROVE FileInv'
    BY <1>2 DEF FileInv, Proving
  <2>2. ASSUME NEW n \in Names, Live(n)', file.life = Life(n)
        PROVE  OwnLeaves(schemas[n], launches', file.leaves)
    <3>1. OwnLeaves(schemas[n], launches, file.leaves) /\ NameInv(n)
      BY <1>3, <1>5, <2>1, <2>2 DEF FileInv, SchemasInv
    <3> QED
      BY <1>1, <1>4, <3>1, LaunchKeeps DEF NameInv
  <2> QED
    BY <1>2, <1>3, <2>1, <2>2 DEF FileInv, Life
<1>10. PhaseInv'
  BY <1>2, <1>3, <1>5, NamesAre DEF PhaseInv, InUse
<1>11. HeightInv' /\ CleanInv' /\ SyncInv'
  BY <1>2 DEF HeightInv, CleanInv, SyncInv, InUse, Proving
<1> QED
  BY <1>7, <1>8, <1>9, <1>10, <1>11 DEF StartInv

LEMMA DropSchemaKeeps ==
    ASSUME StartInv, DropSchema
    PROVE  StartInv'
<1>1. /\ pc = "drop" /\ pc' = "delete" /\ schemas' = [schemas EXCEPT ![schema] = None]
      /\ UNCHANGED <<subqueries, life, mixed, cleanFailed, file, forceClean, launches, schema>>
  BY DEF DropSchema, launch
<1>2. TypeInv /\ SchemasInv /\ PhaseInv /\ FileInv
  BY DEF StartInv
<1>3. /\ schemas' = [n \in Names |-> schemas'[n]] /\ schemas'[schema] = None
      /\ \A n \in Names : n # schema => schemas'[n] = schemas[n]
  BY <1>1, <1>2 DEF TypeInv
<1>4. \A n \in Names : Live(n)' => n # schema /\ Live(n) /\ schemas'[n] = schemas[n]
  BY <1>1, <1>3 DEF Live, InUse
<1>5. SchemasInv'
  <2>1. ASSUME NEW n \in Names, Live(n)' PROVE NameInv(n)'
    <3>1. NameInv(n) /\ schemas'[n] = schemas[n]
      BY <1>2, <1>4, <2>1 DEF SchemasInv
    <3> QED
      BY <1>1, <3>1 DEF NameInv
  <2> QED
    BY <2>1 DEF SchemasInv
<1>6. FileInv'
  BY <1>1, <1>2, <1>4 DEF FileInv, Proving, Life
<1>7. TypeInv'
  BY <1>1, <1>2, <1>3 DEF TypeInv, Phases
<1>8. schemas'[DbSchema] = None
  <2>1. CASE schema = DbSchema
    BY <1>3, <2>1
  <2>2. CASE schema = LegacySchema
    BY <1>1, <1>2, <1>3, <2>2, NamesAre DEF PhaseInv
  <2> QED
    BY <1>2, <2>1, <2>2, NamesAre DEF TypeInv
<1>9. PhaseInv'
  BY <1>1, <1>8 DEF PhaseInv, Live, InUse
<1>10. HeightInv' /\ CleanInv' /\ SyncInv'
  BY <1>1 DEF HeightInv, CleanInv, SyncInv, InUse, Proving
<1> QED
  BY <1>5, <1>6, <1>7, <1>9, <1>10 DEF StartInv

LEMMA EmptyIsFine ==
    ASSUME NEW ls, NEW s, s = EmptySchema
    PROVE  SchemaInv(s, ls) /\ RootsInv(s, ls) /\ OwnRows(s) /\ BegunRight(s, ls)
           /\ DOMAIN s.rows = {} /\ s.blockOffset = None
<1>1. DOMAIN NoRows = {} /\ NoRows = [id \in DOMAIN NoRows |-> NoRows[id]]
  <2>1. DOMAIN NoRows = {}
    BY DEF NoRows
  <2>2. NoRows = [id \in {} |-> NoRows[id]]
    BY DEF NoRows
  <2> QED
    BY <2>1, <2>2
<1>2. s = [blockOffset |-> None, lastProcessedHeight |-> None,
           rows |-> NoRows, roots |-> NoRows]
  BY DEF EmptySchema
<1>3. /\ s.blockOffset = None /\ s.lastProcessedHeight = None
      /\ s.rows = NoRows /\ s.roots = NoRows
      /\ s = [blockOffset |-> s.blockOffset, lastProcessedHeight |-> s.lastProcessedHeight,
              rows |-> s.rows, roots |-> s.roots]
  BY <1>2
<1> QED
  BY <1>1, <1>3 DEF SchemaInv, RootsInv, OwnRows, BegunRight

LEMMA CreateKeeps ==
    ASSUME StartInv, CreateProjectSchema
    PROVE  StartInv'
<1>1. /\ pc = "create" /\ pc' = "sync" /\ schema' = DbSchema
      /\ UNCHANGED <<subqueries, cleanFailed, file, forceClean, launches>>
  BY DEF CreateProjectSchema, launch, SchemaToCreate
<1>2. TypeInv /\ SchemasInv /\ PhaseInv /\ FileInv
  BY DEF StartInv
<1>3. HeightInv' /\ SyncInv'
  BY <1>1 DEF HeightInv, SyncInv, Proving
<1>4. CASE schemas[DbSchema] # None
  <2>1. UNCHANGED <<schemas, life, mixed>> /\ cleanFailed
    BY <1>1, <1>2, <1>4 DEF CreateProjectSchema, PhaseInv
  <2>2. \A n \in Names : (schemas'[n] # None \/ (n = schema' /\ pc' \in InUse)) => Live(n)
    BY <1>1, <2>1 DEF Live, InUse
  <2>3. SchemasInv' /\ FileInv'
    BY <1>1, <1>2, <2>1, <2>2, QuietKeeps DEF Proving
  <2>4. TypeInv'
    BY <1>1, <1>2, <2>1, NamesAre DEF TypeInv, Phases
  <2>5. PhaseInv' /\ CleanInv'
    BY <1>1, <2>1, NamesAre DEF PhaseInv, CleanInv
  <2> QED
    BY <1>3, <2>3, <2>4, <2>5 DEF StartInv
<1>5. CASE schemas[DbSchema] = None
  <2>1. /\ schemas' = [schemas EXCEPT ![DbSchema] = EmptySchema]
        /\ life' = life + 1 /\ mixed' = mixed \ {DbSchema}
    BY <1>5 DEF CreateProjectSchema
  <2>2. /\ schemas' = [n \in Names |-> schemas'[n]] /\ schemas'[DbSchema] = EmptySchema
        /\ \A n \in Names : n # DbSchema => schemas'[n] = schemas[n]
    BY <1>2, <2>1, NamesAre DEF TypeInv
  <2>3. life \in Nat
    BY <1>2 DEF TypeInv
  <2>4. \A n \in Names : n # DbSchema /\ Live(n)' => Live(n)
    BY <1>1, <2>2 DEF Live, InUse
  <2>5. NameInv(DbSchema)'
    <3>1. /\ SchemaInv(schemas'[DbSchema], launches') /\ RootsInv(schemas'[DbSchema], launches')
          /\ OwnRows(schemas'[DbSchema]) /\ BegunRight(schemas'[DbSchema], launches')
      BY <2>2, EmptyIsFine
    <3>2. life' > 0
      BY <2>1, <2>3
    <3> QED
      BY <3>1, <3>2, NamesAre DEF NameInv
  <2>6. ASSUME NEW n \in Names, n # DbSchema, Live(n)'
        PROVE  NameInv(n)'
    <3>1. NameInv(n) /\ schemas'[n] = schemas[n] /\ (n \notin mixed' => n \notin mixed)
      BY <1>2, <2>1, <2>2, <2>4, <2>6 DEF SchemasInv
    <3> QED
      BY <1>1, <2>6, <3>1 DEF NameInv
  <2>7. SchemasInv'
    BY <2>5, <2>6 DEF SchemasInv
  <2>8. TypeInv'
    BY <1>1, <1>2, <2>1, <2>2, NamesAre DEF TypeInv, Phases
  <2>9. FileInv'
    <3>1. SUFFICES ASSUME file # None PROVE FileInv'
      BY <1>1 DEF FileInv, Proving
    <3>2. file.life = None \/ (file.life \in Nat /\ file.life <= life)
      BY <1>2, <3>1 DEF FileInv
    <3>3. Life(DbSchema)' = life + 1 /\ Life(LegacySchema)' = Life(LegacySchema)
      BY <2>1, StartAssumption DEF Life
    <3>4. file.life # Life(DbSchema)'
      <4>1. file.life # life + 1
        <5>1. CASE file.life = None
          BY <2>3, <5>1, StartAssumption
        <5>2. CASE file.life \in Nat /\ file.life <= life
          BY <2>3, <5>2
        <5> QED
          BY <3>2, <5>1, <5>2
      <4> QED
        BY <3>3, <4>1
    <3>5. ASSUME NEW n \in Names, Live(n)', file'.life = Life(n)'
          PROVE  OwnLeaves(schemas'[n], launches', file'.leaves)
      <4>1. n # DbSchema /\ n = LegacySchema
        BY <1>1, <3>4, <3>5, NamesAre
      <4>2. Live(n) /\ schemas'[n] = schemas[n] /\ file.life = Life(n)
        BY <1>1, <2>2, <2>4, <3>3, <3>5, <4>1
      <4> QED
        BY <1>1, <1>2, <3>1, <4>2 DEF FileInv
    <3>6. file.life = None \/ (file.life \in Nat /\ file.life <= life')
      <4>1. file.life \in Nat /\ file.life <= life => file.life <= life + 1
        BY <2>3
      <4> QED
        BY <2>1, <3>2, <4>1
    <3>7. file = [life |-> file.life, leaves |-> file.leaves]
      BY <1>2, <3>1 DEF FileInv
    <3> QED
      BY <1>1, <3>5, <3>6, <3>7 DEF FileInv
  <2>10. PhaseInv'
    <3>1. cleanFailed \/ subqueries = None
      BY <1>1, <1>2 DEF PhaseInv
    <3> QED
      BY <1>1, <3>1, NamesAre DEF PhaseInv
  <2>11. CleanInv'
    <3>1. DOMAIN schemas'[DbSchema].rows = {} /\ schemas'[DbSchema].blockOffset = None
      BY <2>2, EmptyIsFine
    <3>2. CleanRows(schemas'[DbSchema], launches')
      BY <3>1 DEF CleanRows
    <3> QED
      BY <1>1, <3>2 DEF CleanInv
  <2> QED
    BY <1>3, <2>7, <2>8, <2>9, <2>10, <2>11 DEF StartInv
<1> QED
  BY <1>4, <1>5

\* A process in the middle of its work changes the schema it uses.
LEMMA CurrentChanges ==
    ASSUME StartInv, pc \in InUse, pc' \in InUse,
           UNCHANGED <<subqueries, life, mixed, cleanFailed, forceClean, launches, schema>>,
           NEW t, schemas' = [schemas EXCEPT ![schema] = t],
           SchemaInv(t, launches),
           schema \notin mixed => RootsInv(t, launches),
           schema = DbSchema => OwnRows(t) /\ (cleanFailed \/ BegunRight(t, launches)),
           schema = LegacySchema => LegacyRows(t),
           forceClean => cleanFailed \/ CleanRows(t, launches)
    PROVE  /\ TypeInv' /\ SchemasInv' /\ PhaseInv' /\ CleanInv'
           /\ schemas'[schema] = t
           /\ \A n \in Names : Live(n)' => Live(n) /\ (n # schema => schemas'[n] = schemas[n])
<1>1. TypeInv /\ SchemasInv /\ PhaseInv /\ CleanInv /\ schema \in Names
  BY DEF StartInv, TypeInv
<1>2. /\ schemas' = [n \in Names |-> schemas'[n]] /\ schemas'[schema] = t
      /\ \A n \in Names : n # schema => schemas'[n] = schemas[n]
  BY <1>1 DEF TypeInv
<1>3. \A n \in Names : Live(n)' => Live(n)
  BY <1>2 DEF Live
<1>4. TypeInv'
  BY <1>1, <1>2 DEF TypeInv, InUse, Phases
<1>5. NameInv(schema)'
  <2>1. life > 0 \/ schema # DbSchema
    BY <1>1 DEF SchemasInv, NameInv, Live
  <2> QED
    BY <1>2, <2>1 DEF NameInv
<1>6. ASSUME NEW n \in Names, n # schema, Live(n)'
      PROVE  NameInv(n)'
  <2>1. NameInv(n) /\ schemas'[n] = schemas[n]
    BY <1>1, <1>2, <1>3, <1>6 DEF SchemasInv
  <2> QED
    BY <2>1 DEF NameInv
<1>7. SchemasInv'
  <2>1. ASSUME NEW n \in Names, Live(n)'
        PROVE  NameInv(n)'
    <3>1. CASE n = schema
      BY <1>5, <3>1 DEF NameInv
    <3> QED
      BY <1>6, <2>1, <3>1
  <2> QED
    BY <2>1 DEF SchemasInv
<1>8. PhaseInv'
  <2>1. schema = LegacySchema => subqueries # None
    BY <1>1 DEF PhaseInv
  <2>2. Live(DbSchema)' => cleanFailed \/ subqueries = None
    BY <1>1, <1>3, NamesAre DEF PhaseInv
  <2>3. pc' \notin {"schemas", "fallback", "delete", "drop", "create"}
    BY DEF InUse
  <2> QED
    BY <2>1, <2>2, <2>3 DEF PhaseInv
<1>9. CleanInv'
  <2>1. forceClean => schema = DbSchema
    BY <1>1 DEF CleanInv
  <2> QED
    BY <1>2, <2>1 DEF CleanInv
<1> QED
  BY <1>2, <1>3, <1>4, <1>7, <1>8, <1>9

\* What the invariant says of the schema in use.
LEMMA CurrentIs ==
    ASSUME StartInv, pc \in InUse
    PROVE  /\ SchemaInv(current, launches)
           /\ schema \notin mixed => RootsInv(current, launches)
           /\ schema = DbSchema => OwnRows(current)
                                   /\ (cleanFailed \/ BegunRight(current, launches))
           /\ schema = LegacySchema => LegacyRows(current)
           /\ forceClean => schema = DbSchema /\ (cleanFailed \/ CleanRows(current, launches))
           /\ schema = DbSchema => cleanFailed \/ subqueries = None
           /\ schema = LegacySchema => subqueries # None
           /\ launches \in Seq(Manifests) /\ Len(launches) > 0 /\ Len(launches) \in Nat
           /\ manifest \in Manifests
<1>1. TypeInv /\ SchemasInv /\ PhaseInv /\ CleanInv /\ schema \in Names
  BY DEF StartInv, TypeInv
<1>2. Live(schema) /\ NameInv(schema)
  BY <1>1 DEF SchemasInv, Live
<1>3. /\ SchemaInv(current, launches)
      /\ schema \notin mixed => RootsInv(current, launches)
      /\ schema = DbSchema => OwnRows(current)
                              /\ (cleanFailed \/ BegunRight(current, launches))
      /\ schema = LegacySchema => LegacyRows(current)
  BY <1>2 DEF NameInv, current
<1>4. forceClean => schema = DbSchema /\ (cleanFailed \/ CleanRows(current, launches))
  BY <1>1 DEF CleanInv, current
<1>5. /\ schema = DbSchema => cleanFailed \/ subqueries = None
      /\ schema = LegacySchema => subqueries # None
  BY <1>1, <1>2 DEF PhaseInv
<1>6. launches \in Seq(Manifests) /\ Len(launches) > 0
  BY <1>1 DEF TypeInv, InUse
<1>7. Len(launches) \in Nat /\ manifest \in Manifests
  <2>1. Len(launches) \in Nat
    BY <1>6, LenProperties
  <2>2. Len(launches) \in 1 .. Len(launches)
    BY <1>6, <2>1
  <2> QED
    BY <1>6, <2>1, <2>2, ElementOfSeq DEF manifest
<1> QED
  BY <1>3, <1>4, <1>5, <1>6, <1>7

LEMMA EnsureMetadataKeeps ==
    ASSUME StartInv, EnsureMetadata
    PROVE  StartInv'
<1>1. /\ pc = "metadata" /\ pc' = "mmr"
      /\ schemas' = [schemas EXCEPT ![schema].blockOffset = Offset]
      /\ UNCHANGED <<subqueries, life, mixed, cleanFailed, file, forceClean, launches, schema>>
  BY DEF EnsureMetadata, launch
<1>2. TypeInv /\ FileInv /\ pc \in InUse /\ pc' \in InUse /\ schema \in Names
  BY <1>1 DEF StartInv, InUse, TypeInv
<1>3. SchemaInv(current, launches) /\ manifest \in Manifests
  BY <1>2, CurrentIs
<1>4. Offset \in Nat /\ (current.blockOffset = None \/ Offset = current.blockOffset)
  <2>1. manifest.startBlock \in Nat \ {0}
    BY <1>3, StartAssumption
  <2>2. manifest.startBlock - 1 \in Nat
    BY <2>1
  <2>3. current.blockOffset \in Nat \cup {None}
    BY <1>3 DEF SchemaInv
  <2> QED
    BY <2>2, <2>3 DEF Offset
<1> DEFINE t == [current EXCEPT !.blockOffset = Offset]
<1>5. schemas' = [schemas EXCEPT ![schema] = t]
  BY <1>1 DEF current
<1>6. /\ t.lastProcessedHeight = current.lastProcessedHeight /\ t.rows = current.rows
      /\ t.blockOffset = Offset /\ SchemaInv(t, launches)
      /\ RootsInv(current, launches) => RootsInv(t, launches)
      /\ \A leaves : OwnLeaves(current, launches, leaves) => OwnLeaves(t, launches, leaves)
  BY <1>3, <1>4, OffsetKeeps
<1> HIDE DEF t
<1>7. /\ OwnRows(current) => OwnRows(t)
      /\ BegunRight(current, launches) => BegunRight(t, launches)
      /\ LegacyRows(current) => LegacyRows(t)
  BY <1>6 DEF OwnRows, BegunRight, LegacyRows, LastBlock
<1>8. /\ TypeInv' /\ SchemasInv' /\ PhaseInv' /\ CleanInv' /\ schemas'[schema] = t
      /\ \A n \in Names : Live(n)' => Live(n) /\ (n # schema => schemas'[n] = schemas[n])
  <2>1. /\ schema \notin mixed => RootsInv(t, launches)
        /\ schema = LegacySchema => LegacyRows(t)
    BY <1>2, <1>6, <1>7, CurrentIs
  <2>2. /\ schema = DbSchema => OwnRows(t) /\ (cleanFailed \/ BegunRight(t, launches))
        /\ forceClean => cleanFailed \/ CleanRows(t, launches)
    <3>1. /\ schema = DbSchema => OwnRows(t) /\ (cleanFailed \/ BegunRight(t, launches))
          /\ forceClean => cleanFailed \/ CleanRows(current, launches)
      BY <1>2, <1>7, CurrentIs
    <3>2. CleanRows(current, launches) => CleanRows(t, launches)
      BY <1>6 DEF CleanRows, Offset, manifest
    <3> QED
      BY <3>1, <3>2
  <2> QED
    BY <1>1, <1>2, <1>5, <1>6, <2>1, <2>2, CurrentChanges
<1>9. FileInv'
  <2>1. SUFFICES ASSUME file # None PROVE FileInv'
    BY <1>1 DEF FileInv, Proving
  <2>2. ASSUME NEW n \in Names, Live(n)', file.life = Life(n)
        PROVE  OwnLeaves(schemas'[n], launches, file.leaves)
    <3>1. OwnLeaves(schemas[n], launches, file.leaves)
      BY <1>2, <1>8, <2>1, <2>2 DEF FileInv
    <3>2. CASE n = schema
      BY <1>6, <1>8, <3>1, <3>2 DEF current
    <3>3. CASE n # schema
      BY <1>8, <2>2, <3>1, <3>3
    <3> QED
      BY <3>2, <3>3
  <2> QED
    BY <1>1, <1>2, <2>1, <2>2 DEF FileInv, Life
<1>10. HeightInv' /\ SyncInv'
  <2>1. current'.blockOffset \in Nat
    BY <1>1, <1>4, <1>6, <1>8 DEF current
  <2> QED
    BY <1>1, <2>1 DEF HeightInv, SyncInv, Proving
<1> QED
  BY <1>8, <1>9, <1>10 DEF StartInv

LEMMA InitMmrKeeps ==
    ASSUME StartInv, InitMmr
    PROVE  StartInv'
<1>1. /\ pc = "mmr" /\ pc' = "height"
      /\ nextMmrHeight' = Len(file'.leaves) + current.blockOffset
      /\ mixed' = IF file'.life = None THEN mixed \cup {schema} ELSE mixed
      /\ UNCHANGED <<schemas, subqueries, life, cleanFailed, forceClean, launches, schema>>
  BY DEF InitMmr, launch
<1>2. /\ TypeInv /\ SchemasInv /\ PhaseInv /\ FileInv /\ CleanInv /\ pc \in InUse
      /\ schema \in Names /\ Live(schema)
  BY <1>1 DEF StartInv, InUse, TypeInv, Live
<1>3. \A n \in Names : Live(n)' => Live(n)
  BY <1>1 DEF Live, InUse
<1>4. current.blockOffset \in Nat /\ SchemaInv(current, launches) /\ current' = current
  BY <1>1, <1>2, CurrentIs DEF StartInv, SyncInv, current
<1>5. \A n \in Names : Life(n) \in Nat /\ Life(n) <= life /\ Life(n)' = Life(n)
  <2>1. life \in Nat
    BY <1>2 DEF TypeInv
  <2> QED
    BY <1>1, <2>1 DEF Life
<1>6. \/ file = None /\ file' = [life |-> Life(schema), leaves |-> << >>]
      \/ file # None /\ file.life = Life(schema) /\ file' = file
      \/ file # None /\ file.life # Life(schema) /\ file' = [file EXCEPT !.life = None]
  BY DEF InitMmr
<1>7. /\ file' = [life |-> file'.life, leaves |-> file'.leaves]
      /\ \/ file'.life = Life(schema) /\ OwnLeaves(current, launches, file'.leaves)
         \/ file'.life = None
      /\ \A n \in Names : Live(n) /\ file'.life = Life(n) =>
            OwnLeaves(schemas[n], launches, file'.leaves)
  <2>1. CASE file = None /\ file' = [life |-> Life(schema), leaves |-> << >>]
    BY <2>1 DEF OwnLeaves
  <2>2. CASE file # None /\ file.life = Life(schema) /\ file' = file
    BY <1>2, <2>2 DEF FileInv, current
  <2>3. CASE file # None /\ file.life # Life(schema) /\ file' = [file EXCEPT !.life = None]
    <3>1. file = [life |-> file.life, leaves |-> file.leaves]
      BY <1>2, <2>3 DEF FileInv
    <3>2. file' = [life |-> None, leaves |-> file.leaves]
      BY <2>3, <3>1
    <3>3. file'.life = None /\ file'.leaves = file.leaves
      BY <3>2
    <3>4. \A n \in Names : file'.life # Life(n)
      BY <1>5, <3>3, StartAssumption
    <3> QED
      BY <3>2, <3>3, <3>4
  <2> QED
    BY <1>6, <2>1, <2>2, <2>3
<1>8. FileInv'
  <2>1. file'.life = None \/ (file'.life \in Nat /\ file'.life <= life')
    BY <1>1, <1>2, <1>5, <1>7
  <2>2. \A n \in Names : Live(n)' /\ file'.life = Life(n)' =>
            OwnLeaves(schemas'[n], launches', file'.leaves)
    BY <1>1, <1>3, <1>5, <1>7
  <2> QED
    BY <1>7, <2>1, <2>2 DEF FileInv
<1>9. SchemasInv'
  <2>1. \A n : n \notin mixed' => n \notin mixed
    BY <1>1
  <2>2. ASSUME NEW n \in Names, NameInv(n) PROVE NameInv(n)'
    BY <1>1, <2>1, <2>2 DEF NameInv
  <2> QED
    BY <1>2, <1>3, <2>2 DEF SchemasInv
<1>10. TypeInv'
  <2>1. mixed' \subseteq Names
    BY <1>1, <1>2 DEF TypeInv
  <2> QED
    BY <1>1, <1>2, <2>1 DEF TypeInv, Phases
<1>11. PhaseInv'
  <2>1. Live(DbSchema)' => Live(DbSchema)
    BY <1>3, NamesAre
  <2> QED
    BY <1>1, <1>2, <2>1 DEF PhaseInv, InUse
<1>12. CleanInv' /\ HeightInv'
  BY <1>1, <1>2 DEF CleanInv, HeightInv, InUse
<1>13. SyncInv'
  <2>1. ASSUME OwnLeaves(current, launches, file'.leaves)
        PROVE  InStep(current, launches, file'.leaves, nextMmrHeight')
    <3>1. CASE file'.leaves = << >>
      <4>1. nextMmrHeight' = current.blockOffset
        BY <1>1, <1>4, <3>1
      <4> QED
        BY <3>1, <4>1 DEF InStep
    <3>2. ASSUME NEW id \in DOMAIN current.roots, id > current.blockOffset,
                 file'.leaves = LeavesIn(current, launches, id)
          PROVE  InStep(current, launches, file'.leaves, nextMmrHeight')
      <4>1. id \in Nat
        <5>1. PICK kept \in Nat, last \in Nat :
                  kept > 0 /\ DOMAIN current.roots = kept .. last
          BY <1>4, RootsContiguous
        <5> QED
          BY <5>1
      <4>2. id >= current.blockOffset
        BY <1>4, <3>2, <4>1
      <4>3. Len(file'.leaves) = id - current.blockOffset
        BY <1>4, <3>2, <4>1, <4>2, LeavesAreSeq
      <4>4. nextMmrHeight' = id
        BY <1>1, <1>4, <4>1, <4>3
      <4> QED
        BY <3>2, <4>4 DEF InStep
    <3> QED
      BY <2>1, <3>1, <3>2 DEF OwnLeaves
  <2>2. /\ file'.life \in {Life(schema), None}
        /\ file'.life = None => schema \in mixed'
        /\ file'.life # None => InStep(current, launches, file'.leaves, nextMmrHeight')
    BY <1>1, <1>7, <2>1
  <2> QED
    BY <1>1, <1>2, <1>4, <1>5, <2>2 DEF SyncInv
<1> QED
  BY <1>8, <1>9, <1>10, <1>11, <1>12, <1>13 DEF StartInv

\* The next block of a process comes after all there are in its schema.
LEMMA NextBlock ==
    ASSUME StartInv, pc = "running"
    PROVE  /\ height \in Nat \ {0}
           /\ current.blockOffset \in Nat
           /\ current.lastProcessedHeight # None =>
                current.lastProcessedHeight \in Nat /\ height = current.lastProcessedHeight + 1
           /\ \A k \in DOMAIN current.rows : k < height
           /\ schema = DbSchema /\ current.lastProcessedHeight = None =>
                cleanFailed \/ height = launches[Len(launches)].startBlock
           /\ schema = LegacySchema => height > LegacyHeight
<1>1. pc \in InUse /\ height = StartHeight /\ current.blockOffset \in Nat /\ schema \in Names
  BY DEF StartInv, InUse, HeightInv, SyncInv, Proving, TypeInv
<1>2. SchemaInv(current, launches) /\ manifest.startBlock \in Nat \ {0}
  BY <1>1, CurrentIs, StartAssumption
<1>3. subqueries # None => subqueries.nextBlockHeight = LegacyHeight + 1
  BY DEF StartInv, TypeInv
<1>4. LegacyHeight \in Nat \ {0}
  BY StartAssumption
<1>5. CASE current.lastProcessedHeight # None
  <2>1. current.lastProcessedHeight \in Nat /\ height = current.lastProcessedHeight + 1
    BY <1>1, <1>2, <1>5 DEF SchemaInv, StartHeight
  <2>2. \A k \in DOMAIN current.rows : k < height
    <3>1. CASE schema = DbSchema
      BY <1>1, <1>5, <2>1, <3>1, CurrentIs DEF OwnRows
    <3>2. CASE schema = LegacySchema
      BY <1>1, <1>5, <2>1, <3>2, CurrentIs DEF LegacyRows, LastBlock
    <3> QED
      BY <1>1, <3>1, <3>2, NamesAre
  <2>3. schema = LegacySchema => height > LegacyHeight
    BY <1>1, <1>4, <1>5, <2>1, CurrentIs DEF LegacyRows
  <2> QED
    BY <1>1, <1>5, <2>1, <2>2, <2>3
<1>6. CASE current.lastProcessedHeight = None
  <2>1. height = IF subqueries # None THEN subqueries.nextBlockHeight ELSE manifest.startBlock
    BY <1>1, <1>6 DEF StartHeight
  <2>2. CASE schema = DbSchema
    <3>1. DOMAIN current.rows = {}
      BY <1>1, <1>6, <2>2, CurrentIs DEF OwnRows
    <3>2. height \in Nat \ {0}
      BY <1>2, <1>3, <1>4, <2>1
    <3>3. cleanFailed \/ subqueries = None
      BY <1>1, <2>2, CurrentIs
    <3>4. subqueries = None => height = launches[Len(launches)].startBlock
      BY <2>1 DEF manifest
    <3> QED
      BY <1>1, <1>6, <2>2, <3>1, <3>2, <3>3, <3>4, NamesAre
  <2>3. CASE schema = LegacySchema
    <3>1. DOMAIN current.rows = 1 .. LegacyHeight
      BY <1>1, <1>6, <2>3, CurrentIs DEF LegacyRows, LastBlock
    <3>2. height = LegacyHeight + 1
      BY <1>1, <1>3, <2>1, <2>3, CurrentIs
    <3> QED
      BY <1>1, <1>4, <1>6, <2>3, <3>1, <3>2, NamesAre
  <2> QED
    BY <1>1, <2>2, <2>3, NamesAre
<1> QED
  BY <1>5, <1>6

LEMMA IndexBlockKeeps ==
    ASSUME StartInv, IndexBlock
    PROVE  StartInv'
<1> DEFINE t == Grown(current, height, Len(launches))
<1>0. schemas' = [schemas EXCEPT ![schema] = t]
  <2>1. schemas' = [schemas EXCEPT ![schema] =
                       [current EXCEPT !.lastProcessedHeight = height,
                                       !.rows = With(current.rows, height, Len(launches)),
                                       !.roots = With(current.roots, height, << >>)]]
    BY DEF IndexBlock
  <2> QED
    BY <2>1 DEF Grown
<1>1. /\ pc = "running" /\ pc' = "running" /\ height' = height + 1
      /\ UNCHANGED <<subqueries, life, mixed, cleanFailed, file, forceClean, launches,
                     schema, nextMmrHeight>>
  BY DEF IndexBlock, launch
<1>2. /\ TypeInv /\ FileInv /\ SyncInv /\ pc \in InUse /\ pc' \in InUse /\ schema \in Names
  BY <1>1 DEF StartInv, InUse, TypeInv
<1>3. /\ SchemaInv(current, launches) /\ launches \in Seq(Manifests) /\ Len(launches) > 0
      /\ Len(launches) \in Nat
  BY <1>2, CurrentIs
<1>4. /\ height \in Nat \ {0} /\ current.blockOffset \in Nat
      /\ current.lastProcessedHeight # None =>
            current.lastProcessedHeight \in Nat /\ height = current.lastProcessedHeight + 1
      /\ \A k \in DOMAIN current.rows : k < height
      /\ schema = DbSchema /\ current.lastProcessedHeight = None =>
            cleanFailed \/ height = launches[Len(launches)].startBlock
      /\ schema = LegacySchema => height > LegacyHeight
  BY <1>1, NextBlock
<1> HIDE DEF t
<1>5. /\ t.lastProcessedHeight = height /\ t.blockOffset = current.blockOffset
      /\ DOMAIN t.rows = DOMAIN current.rows \cup {height} /\ t.rows[height] = Len(launches)
      /\ \A k \in DOMAIN current.rows : t.rows[k] = current.rows[k]
      /\ SchemaInv(t, launches)
      /\ RootsInv(current, launches) => RootsInv(t, launches)
      /\ DOMAIN current.roots \subseteq DOMAIN t.roots
      /\ \A id \in DOMAIN current.roots :
            LeavesIn(t, launches, id) = LeavesIn(current, launches, id)
      /\ \A leaves : OwnLeaves(current, launches, leaves) => OwnLeaves(t, launches, leaves)
  <2>1. current.lastProcessedHeight # None => height = current.lastProcessedHeight + 1
    BY <1>4
  <2> QED
    BY <1>3, <1>4, <2>1, BlockKeeps DEF t
<1>6. t.lastProcessedHeight # None
  BY <1>4, <1>5, StartAssumption
<1>7. schema = DbSchema => OwnRows(t) /\ (cleanFailed \/ BegunRight(t, launches))
  <2> SUFFICES ASSUME schema = DbSchema
               PROVE  OwnRows(t) /\ (cleanFailed \/ BegunRight(t, launches))
    OBVIOUS
  <2>1. OwnRows(current) /\ (cleanFailed \/ BegunRight(current, launches))
    BY <1>2, CurrentIs
  <2>2. CASE current.lastProcessedHeight = None
    <3>1. DOMAIN t.rows = {height}
      BY <1>5, <2>1, <2>2 DEF OwnRows
    <3>2. {height} = height .. height /\ height \in 1 .. height
      BY <1>4
    <3>3. OwnRows(t)
      BY <1>3, <1>5, <1>6, <3>1, <3>2 DEF OwnRows
    <3>4. height = launches[Len(launches)].startBlock => BegunRight(t, launches)
      BY <1>5, <3>1 DEF BegunRight
    <3> QED
      BY <1>4, <2>2, <3>3, <3>4
  <2>3. CASE current.lastProcessedHeight # None
    <3> DEFINE last == current.lastProcessedHeight
    <3>1. PICK first \in 1 .. last :
              DOMAIN current.rows = first .. last /\ current.rows[first] > 0
      BY <2>1, <2>3 DEF OwnRows
    <3>2. last \in Nat /\ height = last + 1
      BY <1>4, <2>3
    <3> HIDE DEF last
    <3>3. ASSUME NEW n \in Nat, NEW f \in 1 .. n
          PROVE  (f .. n) \cup {n + 1} = f .. n + 1 /\ f \in 1 .. n + 1 /\ f \in f .. n
      OBVIOUS
    <3>4. DOMAIN t.rows = first .. height /\ first \in 1 .. height /\ first \in DOMAIN current.rows
      BY <1>5, <3>1, <3>2, <3>3
    <3>5. OwnRows(t)
      BY <1>5, <1>6, <3>1, <3>4 DEF OwnRows
    <3>6. BegunRight(current, launches) => BegunRight(t, launches)
      <4> SUFFICES ASSUME BegunRight(current, launches), NEW f \in DOMAIN t.rows,
                          \A h \in DOMAIN t.rows : f <= h
                   PROVE  f = launches[t.rows[f]].startBlock
        BY DEF BegunRight
      <4>1. f \in first .. height /\ f <= first
        BY <1>5, <3>4
      <4>2. f = first
        BY <1>4, <4>1
      <4>3. \A h \in DOMAIN current.rows : f <= h
        BY <1>5
      <4> QED
        BY <1>5, <3>4, <4>2, <4>3 DEF BegunRight
    <3> QED
      BY <2>1, <3>5, <3>6
  <2> QED
    BY <2>2, <2>3
<1>8. schema = LegacySchema => LegacyRows(t)
  <2> SUFFICES ASSUME schema = LegacySchema PROVE LegacyRows(t)
    OBVIOUS
  <2>1. LegacyRows(current) /\ LastBlock(t) = height
    BY <1>2, <1>5, <1>6, CurrentIs DEF LastBlock
  <2>2. LastBlock(current) \in Nat \ {0} /\ height = LastBlock(current) + 1
    <3>1. CASE current.lastProcessedHeight = None
      <4>1. subqueries.nextBlockHeight = LegacyHeight + 1 /\ subqueries # None
        BY <1>2, CurrentIs DEF TypeInv
      <4>2. height = StartHeight
        BY <1>1 DEF StartInv, HeightInv
      <4> QED
        BY <3>1, <4>1, <4>2, StartAssumption DEF LastBlock, StartHeight
    <3>2. CASE current.lastProcessedHeight # None
      <4>1. current.lastProcessedHeight > LegacyHeight
        BY <2>1, <3>2 DEF LegacyRows
      <4> QED
        BY <1>4, <3>2, <4>1, StartAssumption DEF LastBlock
    <3> QED
      BY <3>1, <3>2
  <2>3. DOMAIN t.rows = 1 .. height
    <3>1. ASSUME NEW n \in Nat \ {0}
          PROVE  (1 .. n) \cup {n + 1} = 1 .. n + 1
      OBVIOUS
    <3> QED
      BY <1>5, <2>1, <2>2, <3>1 DEF LegacyRows
  <2>4. t.rows[1] = 0
    <3>1. 1 \in 1 .. LastBlock(current)
      BY <2>2
    <3> QED
      BY <1>5, <2>1, <3>1 DEF LegacyRows
  <2> QED
    BY <1>4, <1>5, <2>1, <2>3, <2>4 DEF LegacyRows
<1>9. forceClean => cleanFailed \/ CleanRows(t, launches)
  <2>1. forceClean => cleanFailed \/ CleanRows(current, launches)
    BY <1>2, CurrentIs
  <2>2. CleanRows(current, launches) => CleanRows(t, launches)
    BY <1>5 DEF CleanRows
  <2> QED
    BY <2>1, <2>2
<1>10. /\ TypeInv' /\ SchemasInv' /\ PhaseInv' /\ CleanInv' /\ schemas'[schema] = t
       /\ \A n \in Names : Live(n)' => Live(n) /\ (n # schema => schemas'[n] = schemas[n])
  <2>1. schema \notin mixed => RootsInv(t, launches)
    BY <1>2, <1>5, CurrentIs
  <2> QED
    BY <1>0, <1>1, <1>2, <1>5, <1>7, <1>8, <1>9, <2>1, CurrentChanges
<1>11. FileInv'
  <2>1. ASSUME NEW n \in Names, Live(n)', file.life = Life(n)
        PROVE  OwnLeaves(schemas'[n], launches, file.leaves)
    <3>1. OwnLeaves(schemas[n], launches, file.leaves)
      BY <1>1, <1>2, <1>10, <2>1 DEF FileInv, Proving
    <3>2. CASE n = schema
      BY <1>5, <1>10, <3>1, <3>2 DEF current
    <3>3. CASE n # schema
      BY <1>10, <2>1, <3>1, <3>3
    <3> QED
      BY <3>2, <3>3
  <2> QED
    BY <1>1, <1>2, <2>1 DEF FileInv, Life, Proving
<1>12. HeightInv'
  BY <1>1, <1>5, <1>6, <1>10 DEF HeightInv, StartHeight, current
<1>13. SyncInv'
  <2>1. current' = t
    BY <1>1, <1>10 DEF current
  <2>2. \A leaves, next : InStep(current, launches, leaves, next) => InStep(t, launches, leaves, next)
    BY <1>5 DEF InStep
  <2>3. /\ file.life \in {Life(schema), None}
        /\ file.life = None => schema \in mixed
        /\ file.life # None => InStep(current, launches, file.leaves, nextMmrHeight)
    BY <1>1, <1>2 DEF SyncInv, Proving
  <2>4. Life(schema)' = Life(schema) /\ t.blockOffset \in Nat
    BY <1>1, <1>4, <1>5 DEF Life
  <2> QED
    BY <1>1, <2>1, <2>2, <2>3, <2>4 DEF SyncInv, Proving
<1> QED
  BY <1>10, <1>11, <1>12, <1>13 DEF StartInv

\* The numbers of two schemas that are there differ.
LEMMA LivesDiffer ==
    ASSUME StartInv, pc \in InUse, NEW n \in Names, Live(n), Life(n) = Life(schema)
    PROVE  n = schema
<1>1. Live(schema) /\ schema \in Names
  BY DEF StartInv, TypeInv, Live
<1>2. ASSUME Live(DbSchema) PROVE life > 0
  BY <1>2, NamesAre DEF StartInv, SchemasInv, NameInv
<1>3. life \in Nat
  BY DEF StartInv, TypeInv
<1> SUFFICES ASSUME n # schema PROVE FALSE
  OBVIOUS
<1>4. Live(DbSchema)
  BY <1>1, NamesAre
<1>5. life = 0
  BY <1>1, NamesAre
<1> QED
  BY <1>2, <1>3, <1>4, <1>5

\* The next row is synced with its own leaves and root, unless the file is of more
\* than one schema.
LEMMA NextRowSynced ==
    ASSUME StartInv, pc = "running", Unsynced # {}, LeafIndex >= 0, file.life # None
    PROVE  /\ NextRow \in DOMAIN current.roots /\ NextRow > current.blockOffset
           /\ NewLeaves = LeavesIn(current, launches, NextRow)
           /\ NewRoot = LeavesIn(current, launches, NextRow)
<1> DEFINE s == current
           ls == launches
           offset == s.blockOffset
           next == nextMmrHeight
<1>1. /\ pc \in InUse /\ offset \in Nat /\ InStep(s, ls, file.leaves, next)
  BY DEF StartInv, InUse, SyncInv, Proving
<1>2. SchemaInv(s, ls)
  BY <1>1, CurrentIs
<1>3. Unsynced = {id \in DOMAIN s.roots : id >= next}
  BY DEF Unsynced
<1> HIDE DEF s, ls, next
<1>4. PICK kept \in Nat, last \in Nat : kept > 0 /\ DOMAIN s.roots = kept .. last
  BY <1>2, <1>3, RootsContiguous
<1>5. next \in Nat
  <2>1. CASE next = offset
    BY <1>1, <2>1
  <2>2. ASSUME NEW id \in DOMAIN s.roots, next \in {id, id + 1} PROVE next \in Nat
    BY <1>4, <2>2
  <2> QED
    BY <1>1, <2>1, <2>2 DEF InStep
<1>6. PICK r \in Unsynced : \A o \in Unsynced : r <= o
  <2>1. {id \in DOMAIN s.roots : id >= next} # {}
    BY <1>3
  <2> QED
    BY <1>2, <1>3, <1>5, <2>1, NextRowExists
<1>7. NextRow \in Unsynced /\ \A o \in Unsynced : NextRow <= o
  BY <1>6 DEF NextRow
<1> DEFINE row == NextRow
<1>8. LeafIndex = row - offset - 1
  BY DEF LeafIndex, s
<1>9. NewLeaves = WithLeaf(s, ls, Filled(file.leaves, next, row), row)
  <2>1. GapFilled = Filled(file.leaves, next, row)
    BY DEF GapFilled, Filled, next
  <2>2. PoiHash(current, NextRow) = HashIn(s, ls, row)
    BY DEF PoiHash, HashIn, s, ls
  <2> QED
    BY <1>8, <2>1, <2>2 DEF NewLeaves, WithLeaf
<1> HIDE DEF row
<1>10. row \in DOMAIN s.roots /\ row >= next /\ \A o \in DOMAIN s.roots : o >= next => row <= o
  BY <1>3, <1>7 DEF row
<1>11. row \in Nat /\ row > offset
  <2>1. row \in Nat
    BY <1>4, <1>10
  <2> QED
    BY <1>1, <1>8, <2>1
<1>12. NewLeaves = LeavesIn(s, ls, row)
  BY <1>1, <1>2, <1>9, <1>10, <1>11, LeavesOfNext
<1>13. NewLeaves \in Seq(LeafSet(s, ls)) /\ Len(NewLeaves) = row - offset
  <2>1. row >= offset
    BY <1>1, <1>11
  <2> QED
    BY <1>1, <1>11, <1>12, <2>1, LeavesAreSeq
<1>14. NewRoot = NewLeaves
  <2>1. LeafIndex < Len(NewLeaves) /\ LeafIndex + 1 = Len(NewLeaves)
    BY <1>1, <1>8, <1>11, <1>13
  <2>2. NewRoot = SubSeq(NewLeaves, 1, Len(NewLeaves))
    BY <2>1 DEF NewRoot
  <2> QED
    BY <1>13, <2>2, SubSeqFull
<1> QED
  BY <1>10, <1>11, <1>12, <1>14 DEF row, s, ls

LEMMA SyncRowKeeps ==
    ASSUME StartInv, SyncRow
    PROVE  StartInv'
<1> DEFINE t == Stored(current, NextRow, NewRoot)
<1>1. /\ pc = "running" /\ pc' = "running" /\ Unsynced # {} /\ LeafIndex >= 0
      /\ schemas' = [schemas EXCEPT ![schema] = t]
      /\ file' = [file EXCEPT !.leaves = NewLeaves] /\ nextMmrHeight' = NextRow + 1
      /\ UNCHANGED <<subqueries, life, mixed, cleanFailed, forceClean, launches, schema, height>>
  BY DEF SyncRow, launch, current, Stored
<1>2. /\ TypeInv /\ FileInv /\ SyncInv /\ pc \in InUse /\ pc' \in InUse /\ schema \in Names
  BY <1>1 DEF StartInv, InUse, TypeInv
<1>3. SchemaInv(current, launches)
  BY <1>2, CurrentIs
<1>4. /\ t.lastProcessedHeight = current.lastProcessedHeight /\ t.rows = current.rows
      /\ t.blockOffset = current.blockOffset /\ DOMAIN t.roots = DOMAIN current.roots
      /\ SchemaInv(t, launches)
      /\ \A id : LeavesIn(t, launches, id) = LeavesIn(current, launches, id)
      /\ RootsInv(current, launches) /\ NewRoot = LeavesIn(current, launches, NextRow)
            => RootsInv(t, launches)
  BY <1>3, StoredKeeps
<1> HIDE DEF t
<1>5. /\ OwnRows(current) => OwnRows(t)
      /\ BegunRight(current, launches) => BegunRight(t, launches)
      /\ LegacyRows(current) => LegacyRows(t)
  BY <1>4 DEF OwnRows, BegunRight, LegacyRows, LastBlock
<1>6. /\ file = [life |-> file.life, leaves |-> file.leaves]
      /\ file.life = None \/ (file.life \in Nat /\ file.life <= life)
      /\ file.life \in {Life(schema), None}
      /\ file.life = None => schema \in mixed
  BY <1>1, <1>2 DEF FileInv, SyncInv, Proving
<1>7. /\ file' = [life |-> file'.life, leaves |-> file'.leaves]
      /\ file'.life = file.life /\ file'.leaves = NewLeaves
  BY <1>1, <1>6
<1>8. file.life # None =>
          /\ NextRow \in DOMAIN current.roots /\ NextRow > current.blockOffset
          /\ NewLeaves = LeavesIn(current, launches, NextRow)
          /\ NewRoot = LeavesIn(current, launches, NextRow)
  BY <1>1, NextRowSynced
<1>9. /\ TypeInv' /\ SchemasInv' /\ PhaseInv' /\ CleanInv' /\ schemas'[schema] = t
      /\ \A n \in Names : Live(n)' => Live(n) /\ (n # schema => schemas'[n] = schemas[n])
  <2>1. schema \notin mixed => RootsInv(t, launches)
    BY <1>2, <1>4, <1>6, <1>8, CurrentIs
  <2>2. schema = LegacySchema => LegacyRows(t)
    BY <1>2, <1>5, CurrentIs
  <2>3. /\ schema = DbSchema => OwnRows(t) /\ (cleanFailed \/ BegunRight(t, launches))
        /\ forceClean => cleanFailed \/ CleanRows(t, launches)
    <3>1. CleanRows(current, launches) => CleanRows(t, launches)
      BY <1>4 DEF CleanRows
    <3> QED
      BY <1>2, <1>5, <3>1, CurrentIs
  <2> QED
    BY <1>1, <1>2, <1>4, <2>1, <2>2, <2>3, CurrentChanges
<1>10. current' = t
  BY <1>1, <1>9 DEF current
<1>11. \A n : Life(n)' = Life(n)
  BY <1>1 DEF Life
<1>12. FileInv'
  <2>1. ASSUME NEW n \in Names, Live(n)', file.life = Life(n)
        PROVE  OwnLeaves(schemas'[n], launches, NewLeaves)
    <3>1. life \in Nat
      BY <1>2 DEF TypeInv
    <3>2. file.life # None
      BY <2>1, <3>1, StartAssumption DEF Life
    <3>3. n = schema
      BY <1>2, <1>6, <1>9, <2>1, <3>2, LivesDiffer
    <3> QED
      BY <1>4, <1>8, <1>9, <3>2, <3>3 DEF OwnLeaves
  <2> QED
    BY <1>1, <1>6, <1>7, <1>11, <2>1 DEF FileInv
<1>13. HeightInv'
  <2>1. height = StartHeight
    BY <1>1 DEF StartInv, HeightInv
  <2> QED
    BY <1>1, <1>4, <1>10, <2>1 DEF HeightInv, StartHeight, manifest
<1>14. SyncInv'
  <2>1. current.blockOffset \in Nat
    BY <1>1, <1>2 DEF SyncInv, Proving
  <2>2. file.life # None => InStep(t, launches, NewLeaves, NextRow + 1)
    BY <1>4, <1>8 DEF InStep
  <2> QED
    BY <1>1, <1>4, <1>6, <1>7, <1>10, <1>11, <2>1, <2>2 DEF SyncInv, Proving
<1> QED
  BY <1>9, <1>12, <1>13, <1>14 DEF StartInv

LEMMA SyncEndsKeeps ==
    ASSUME StartInv, SyncEnds
    PROVE  StartInv'
<1>1. /\ pc = "running" /\ pc' \in {"down", "exited"} /\ Unsynced # {}
      /\ UNCHANGED <<schemas, subqueries, life, mixed, cleanFailed, forceClean, launches,
                     schema, height, nextMmrHeight>>
      /\ \/ file' = file
         \/ LeafIndex >= 0 /\ file' = [file EXCEPT !.leaves = NewLeaves]
  BY DEF SyncEnds, launch, database
<1>2. TypeInv /\ SchemasInv /\ PhaseInv /\ FileInv /\ SyncInv /\ pc \in InUse /\ schema \in Names
  BY <1>1 DEF StartInv, InUse, TypeInv
<1>3. \A n \in Names : Live(n)' => Live(n)
  BY <1>1 DEF Live, InUse
<1>4. SchemasInv'
  <2>1. ASSUME NEW n \in Names, NameInv(n) PROVE NameInv(n)'
    BY <1>1, <2>1 DEF NameInv
  <2> QED
    BY <1>2, <1>3, <2>1 DEF SchemasInv
<1>5. TypeInv'
  BY <1>1, <1>2 DEF TypeInv, Phases
<1>6. PhaseInv'
  <2>1. Live(DbSchema)' => Live(DbSchema)
    BY <1>3, NamesAre
  <2> QED
    BY <1>1, <1>2, <2>1 DEF PhaseInv, InUse
<1>7. HeightInv' /\ CleanInv' /\ SyncInv'
  BY <1>1 DEF HeightInv, CleanInv, SyncInv, InUse, Proving
<1>8. /\ file = [life |-> file.life, leaves |-> file.leaves]
      /\ file.life = None \/ (file.life \in Nat /\ file.life <= life)
      /\ file.life \in {Life(schema), None}
      /\ \A n \in Names : Live(n) /\ file.life = Life(n) =>
            OwnLeaves(schemas[n], launches, file.leaves)
  BY <1>1, <1>2 DEF FileInv, SyncInv, Proving
<1>9. /\ file' = [life |-> file'.life, leaves |-> file'.leaves] /\ file'.life = file.life
      /\ file'.leaves = file.leaves \/ (LeafIndex >= 0 /\ file'.leaves = NewLeaves)
  <2>1. CASE file' = file
    BY <1>8, <2>1
  <2>2. CASE LeafIndex >= 0 /\ file' = [file EXCEPT !.leaves = NewLeaves]
    BY <1>8, <2>2
  <2> QED
    BY <1>1, <2>1, <2>2
<1>10. \A n : Life(n)' = Life(n)
  BY <1>1 DEF Life
<1>11. FileInv'
  <2>1. ASSUME NEW n \in Names, Live(n)', file.life = Life(n)
        PROVE  OwnLeaves(schemas[n], launches, file'.leaves)
    <3>1. CASE file'.leaves = file.leaves
      BY <1>3, <1>8, <2>1, <3>1
    <3>2. CASE LeafIndex >= 0 /\ file'.leaves = NewLeaves
      <4>1. life \in Nat
        BY <1>2 DEF TypeInv
      <4>2. file.life # None
        BY <2>1, <4>1, StartAssumption DEF Life
      <4>3. n = schema
        BY <1>2, <1>3, <1>8, <2>1, <4>2, LivesDiffer
      <4>4. /\ NextRow \in DOMAIN current.roots /\ NextRow > current.blockOffset
            /\ NewLeaves = LeavesIn(current, launches, NextRow)
        BY <1>1, <3>2, <4>2, NextRowSynced
      <4> QED
        BY <3>2, <4>3, <4>4 DEF OwnLeaves, current
    <3> QED
      BY <1>9, <3>1, <3>2
  <2> QED
    BY <1>1, <1>8, <1>9, <1>10, <2>1 DEF FileInv
<1> QED
  BY <1>4, <1>5, <1>6, <1>7, <1>11 DEF StartInv

LEMMA StartStep == StartInv /\ [Next]_vars => StartInv'
<1> SUFFICES ASSUME StartInv, [Next]_vars PROVE StartInv'
  OBVIOUS
<1>1. CASE Launch
  BY <1>1, LaunchStepKeeps
<1>2. CASE Crash
  BY <1>2, CrashKeeps
<1>3. CASE EnsureProject
  BY <1>3, FetchSchemasKeeps, FindSubqueryKeeps, DropSchemaKeeps, DeleteSubqueryKeeps,
     CleanFailsKeeps, CreateKeeps DEF EnsureProject
<1>4. CASE SyncSchema \/ EnsureMetadata \/ InitMmr \/ StartIndexing
  BY <1>4, SyncSchemaKeeps, EnsureMetadataKeeps, InitMmrKeeps, StartIndexingKeeps
<1>5. CASE IndexBlock \/ SyncRow \/ SyncEnds
  BY <1>5, IndexBlockKeeps, SyncRowKeeps, SyncEndsKeeps
<1>6. CASE UNCHANGED vars
  <2>1. UNCHANGED <<schemas, subqueries, file, life, cleanFailed, mixed, pc, forceClean,
                    launches, schema, height, nextMmrHeight>>
    BY <1>6 DEF vars, database, launch, process
  <2>2. SchemasInv' /\ FileInv'
    BY <2>1, QuietKeeps DEF StartInv, Live
  <2>3. TypeInv' /\ PhaseInv' /\ CleanInv'
    BY <2>1 DEF StartInv, TypeInv, PhaseInv, CleanInv, Live
  <2>4. HeightInv' /\ SyncInv'
    BY <2>1 DEF StartInv, HeightInv, SyncInv, StartHeight, current, manifest, Life
  <2> QED
    BY <2>2, <2>3, <2>4 DEF StartInv
<1> QED
  BY <1>1, <1>2, <1>3, <1>4, <1>5, <1>6 DEF Next, Start

----------------------------------------------------------------------------

LEMMA RowsFromInv ==
    ASSUME StartInv
    PROVE  RowsComplete
<1> SUFFICES ASSUME NEW n \in Names, schemas[n] # None, DOMAIN schemas[n].rows # {}
             PROVE  /\ DOMAIN schemas[n].rows = First(schemas[n]) .. LastBlock(schemas[n])
                    /\ cleanFailed \/ First(schemas[n]) = Begun(schemas[n])
  BY DEF RowsComplete
<1> DEFINE s == schemas[n]
<1>1. NameInv(n)
  BY DEF StartInv, SchemasInv, Live
<1>2. ASSUME NEW first \in Nat, NEW last \in Nat, first <= last, DOMAIN s.rows = first .. last
      PROVE  First(s) = first
  <2>1. first \in DOMAIN s.rows /\ \A k \in DOMAIN s.rows : first <= k
    BY <1>2
  <2>2. First(s) \in DOMAIN s.rows /\ \A k \in DOMAIN s.rows : First(s) <= k
    BY <2>1 DEF First
  <2>3. First(s) \in Nat /\ First(s) <= first /\ first <= First(s)
    BY <1>2, <2>1, <2>2
  <2> QED
    BY <2>3
<1> HIDE DEF s
<1>3. CASE n = DbSchema
  <2>1. OwnRows(s) /\ (cleanFailed \/ BegunRight(s, launches)) /\ SchemaInv(s, launches)
    BY <1>1, <1>3 DEF NameInv, s
  <2>2. s.lastProcessedHeight # None
    BY <2>1 DEF OwnRows, s
  <2>3. PICK first \in 1 .. s.lastProcessedHeight :
            DOMAIN s.rows = first .. s.lastProcessedHeight /\ s.rows[first] > 0
    BY <2>1, <2>2 DEF OwnRows
  <2>4. s.lastProcessedHeight \in Nat
    BY <2>1, <2>2 DEF SchemaInv
  <2>5. First(s) = first
    BY <1>2, <2>3, <2>4
  <2>6. LastBlock(s) = s.lastProcessedHeight
    BY <2>2 DEF LastBlock
  <2>7. BegunRight(s, launches) => first = Begun(s)
    <3>1. first \in DOMAIN s.rows /\ \A k \in DOMAIN s.rows : first <= k
      BY <2>3, <2>4
    <3>2. s.rows[first] # 0
      BY <2>3
    <3>3. Begun(s) = launches[s.rows[first]].startBlock
      BY <2>5, <3>2 DEF Begun
    <3> QED
      BY <3>1, <3>3 DEF BegunRight
  <2> QED
    BY <2>1, <2>3, <2>5, <2>6, <2>7 DEF s
<1>4. CASE n = LegacySchema
  <2>1. LegacyRows(s) /\ SchemaInv(s, launches)
    BY <1>1, <1>4 DEF NameInv, s
  <2>2. LastBlock(s) \in Nat /\ 1 <= LastBlock(s)
    <3>1. CASE s.lastProcessedHeight = None
      BY <3>1, StartAssumption DEF LastBlock
    <3>2. CASE s.lastProcessedHeight # None
      BY <2>1, <3>2, StartAssumption DEF LastBlock, LegacyRows, SchemaInv
    <3> QED
      BY <3>1, <3>2
  <2>3. First(s) = 1
    BY <1>2, <2>1, <2>2 DEF LegacyRows
  <2>4. Begun(s) = 1
    BY <2>1, <2>3 DEF Begun, LegacyRows
  <2> QED
    BY <2>1, <2>3, <2>4 DEF LegacyRows, s
<1> QED
  BY <1>3, <1>4, NamesAre

\* Over any number of launches and crashes, edited manifests, forced cleans and
\* databases of an older version, no block is missing from a schema, and it begins
\* where the launch that began with it does, unless a clean failed half-way.
THEOREM NoBlockMissing == Spec => []RowsComplete
<1>1. StartInv => RowsComplete
  BY RowsFromInv
<1> QED
  BY StartInit, StartStep, <1>1, PTL DEF Spec

\* A launch with --force-clean that runs has its own offset, and its own blocks, from
\* its own start block on, and no other, unless an error of a clean was swallowed: for
\* any earlier launches, manifests and databases.
THEOREM ForcedCleanIsClean == Spec => []CleanStart
<1>1. StartInv => CleanStart
  <2> SUFFICES ASSUME StartInv, pc = "running", forceClean, ~cleanFailed
               PROVE  /\ current.blockOffset = manifest.startBlock - 1
                      /\ DOMAIN current.rows = manifest.startBlock .. height - 1
                      /\ \A h \in DOMAIN current.rows : current.rows[h] = Len(launches)
    BY DEF CleanStart, CleanState
  <2>1. /\ OwnRows(current) /\ BegunRight(current, launches) /\ CleanRows(current, launches)
        /\ manifest \in Manifests
    BY CurrentIs DEF InUse
  <2>2. /\ height \in Nat \ {0} /\ current.blockOffset \in Nat
        /\ current.lastProcessedHeight # None =>
             current.lastProcessedHeight \in Nat /\ height = current.lastProcessedHeight + 1
        /\ current.lastProcessedHeight = None => height = manifest.startBlock
    BY NextBlock, CurrentIs DEF InUse, manifest
  <2>3. current.blockOffset = manifest.startBlock - 1
    BY <2>1, <2>2, StartAssumption DEF CleanRows, manifest
  <2>4. DOMAIN current.rows = manifest.startBlock .. height - 1
    <3>1. CASE current.lastProcessedHeight = None
      <4>1. DOMAIN current.rows = {}
        BY <2>1, <3>1 DEF OwnRows
      <4> QED
        BY <2>2, <3>1, <4>1
    <3>2. CASE current.lastProcessedHeight # None
      <4> DEFINE last == current.lastProcessedHeight
      <4>1. PICK first \in 1 .. last : DOMAIN current.rows = first .. last
        BY <2>1, <3>2 DEF OwnRows
      <4>2. last \in Nat /\ height - 1 = last
        BY <2>2, <3>2
      <4> HIDE DEF last
      <4>3. first \in DOMAIN current.rows /\ \A h \in DOMAIN current.rows : first <= h
        BY <4>1, <4>2
      <4>4. first = manifest.startBlock
        BY <2>1, <4>3 DEF BegunRight, CleanRows, manifest
      <4> QED
        BY <4>1, <4>2, <4>4
    <3> QED
      BY <3>1, <3>2
  <2> QED
    BY <2>1, <2>3, <2>4 DEF CleanRows
<1> QED
  BY StartInit, StartStep, <1>1, PTL DEF Spec

\* Each stored root covers the proofs of exactly the blocks up to its own, in every
\* schema that was not used with the file of another one.
THEOREM RootsCoverTheirBlocks == Spec => []RootsRight
<1>1. StartInv => RootsRight
  <2> SUFFICES ASSUME StartInv, NEW n \in Names, schemas[n] # None, n \notin mixed,
                      NEW id \in DOMAIN schemas[n].roots, schemas[n].roots[id] # << >>
               PROVE  schemas[n].roots[id] = LeavesOf(schemas[n], id)
    BY DEF RootsRight
  <2>1. RootsInv(schemas[n], launches)
    BY DEF StartInv, SchemasInv, NameInv, Live
  <2>2. LeavesOf(schemas[n], id) = LeavesIn(schemas[n], launches, id)
    BY DEF LeavesOf, LeavesIn, Leaf, PoiHash, HashIn
  <2> QED
    BY <2>1, <2>2 DEF RootsInv
<1> QED
  BY StartInit, StartStep, <1>1, PTL DEF Spec
=============================================================================
