---------------------------- MODULE InitrdProofs ----------------------------
(***************************************************************************)
(* The walk over the archive counts the entries of every directory, and    *)
(* reading a directory, which relies on these counts, misses none of them. *)
(***************************************************************************)
EXTENDS Initrd, FiniteSetTheorems, SequenceTheorems, WellFoundedInduction, TLAPS

----------------------------------------------------------------------------
\* The archive: depths start at 1 and grow by one at a time, below a directory.

Entry == [name : Names, depth : Nat, dir : BOOLEAN]
Archive == Seq(Entry)

\* The depth of node n, the root's being 0, and whether it is a directory.
D(n) == IF n = 0 THEN 0 ELSE archive[n].depth
IsDir(n) == n = 0 \/ archive[n].dir

ArchiveOK ==
    /\ archive \in Archive
    /\ \A k \in 1 .. Len(archive) :
          D(k) >= 1 /\ (D(k) > D(k - 1) => D(k) = D(k - 1) + 1 /\ IsDir(k - 1))

\* What makes node n the directory of entry k.
IsParent(k, n) ==
    /\ n \in 0 .. k - 1 /\ D(n) < D(k)
    /\ \A h \in n + 1 .. k - 1 : D(h) >= D(k)

\* The entries of node n among the first m of the archive.
Kids(n, m) == {k \in 1 .. m : Parent(k) = n}

----------------------------------------------------------------------------
\* The walk.

Frame == [depth : Nat, parent : Nat, sub_ent_num : Nat]
Frames == Seq(Frame)
Node == [name : Names \cup {"/"}, dir : BOOLEAN, sub_ent_num : Int]
NodeSeq == Seq(Node)
Passed == Len(nodes) - 1

\* Node k is entry k of the archive.
NodesMatch ==
    /\ nodes \in NodeSeq /\ Len(nodes) >= 1 /\ Passed <= Len(archive)
    /\ nodes[1].dir
    /\ \A k \in 1 .. Passed : nodes[k + 1].name = archive[k].name /\ nodes[k + 1].dir = archive[k].dir

\* The count that node n has once its directory has been left.
Settled(n, m) ==
    nodes[n + 1].sub_ent_num = IF IsDir(n) /\ Kids(n, m) = {} THEN Uninit ELSE Cardinality(Kids(n, m))

\* The activations are those of a branch of the tree: the one at depth l has the
\* directory that holds the next entry if that is at depth l.
Branch ==
    /\ stack \in Frames /\ Len(stack) >= 1
    /\ \A l \in 1 .. Len(stack) :
          /\ stack[l].depth = l
          /\ stack[l].parent \in 0 .. Passed /\ D(stack[l].parent) = l - 1
          /\ \A h \in stack[l].parent + 1 .. Passed : D(h) >= l
          /\ stack[l].sub_ent_num = Cardinality(Kids(stack[l].parent, Passed))

\* An activation with no entry yet is about to add one.
NoneEmpty ==
    \A l \in 2 .. Len(stack) :
        \/ Kids(stack[l].parent, Passed) # {}
        \/ /\ l = Len(stack) /\ Passed < Len(archive) /\ D(Passed + 1) = l
           /\ i = 2 * Passed + 3

Walk ==
    /\ NodesMatch /\ Branch /\ NoneEmpty
    /\ archive # <<>>
    /\ i \in {2 * Passed + 2, 2 * Passed + 3}
    /\ i = 2 * Passed + 3 => Passed < Len(archive)
    /\ Passed < Len(archive) /\ D(Passed + 1) > Len(stack) => D(Passed) = Len(stack)
    /\ \A n \in 0 .. Passed :
          (\A l \in 1 .. Len(stack) : stack[l].parent # n) => Settled(n, Passed)

Fresh ==
    /\ i = 2
    /\ stack = << [depth |-> 1, parent |-> 0, sub_ent_num |-> 0] >>
    /\ nodes = << [name |-> "/", dir |-> TRUE, sub_ent_num |-> Uninit] >>

Counted ==
    /\ NodesMatch /\ Passed = Len(archive) /\ i = 2 * Passed + 2 /\ archive # <<>>
    /\ \A n \in 0 .. Passed : Settled(n, Passed)

OpenDirs == [node : Nat, offset : Nat, gave : Seq(Nat)]
Cursor == dir \in OpenDirs /\ dir.node <= Len(archive) /\ dir.offset >= 1

\* Reading directory dir.node has given all its entries up to the offset.
Reading ==
    EmptyDirs = {} =>
        \A k \in Kids(dir.node, Len(archive)) :
            k < dir.node + dir.offset => k \in Range(dir.gave)

\* Node n is entry k or a directory above it.
Above(n, k) == n \in 0 .. k /\ \A h \in n + 1 .. k : D(n) < D(h)

\* The path that is looked up is that of entry k, and leads to it.
Sought(k) ==
    /\ k \in DOMAIN archive /\ look.path = PathTo[k]
    /\ \A j \in DOMAIN archive : IsPrefix(PathTo[j], PathTo[k]) => Unambiguous(j, j = k)

\* The entry above k at this component's depth is still to come.
Ahead(k, b) ==
    /\ b \in 1 .. k /\ Above(b, k) /\ Parent(b) = dir.node
    /\ D(b) = look.component /\ dir.node + dir.offset <= b

Found == EmptyDirs = {} => \A k \in DOMAIN archive : Sought(k) => look.result = k

LookUps == [path : Seq(Names), component : Nat, result : Int]
Looking ==
    /\ look \in LookUps
    /\ EmptyDirs = {} => \A k \in DOMAIN archive : Sought(k) => \E b \in 1 .. k : Ahead(k, b)

RInv ==
    /\ ArchiveOK
    /\ phase = "pack" => Fresh
    /\ phase = "parse" => Walk
    /\ Parsed => Counted
    /\ phase \in {"reading", "look"} => Cursor
    /\ phase = "reading" => Reading
    /\ phase = "look" => Looking
    /\ phase = "found" => Found

----------------------------------------------------------------------------
\* The tree of the archive.

LEMMA LeastOf ==
    ASSUME NEW S \in SUBSET Nat, S # {}
    PROVE  \E x \in S : \A y \in S : x <= y
<1> DEFINE R == OpToRel(<, Nat)
<1>1. PICK x \in S : \A y \in S : ~(<<y, x>> \in R)
  <2>1. IsWellFoundedOn(R, Nat)
    BY NatLessThanWellFounded
  <2> HIDE DEF R
  <2> QED
    BY <2>1, WFMin
<1>2. \A y \in S : ~(y < x)
  BY <1>1 DEF OpToRel
<1> QED
  BY <1>2

LEMMA GreatestOf ==
    ASSUME NEW m \in Nat, NEW S \in SUBSET (0 .. m), S # {}
    PROVE  \E x \in S : \A y \in S : y <= x
<1> DEFINE T == {m - x : x \in S}
<1>1. T \in SUBSET Nat /\ T # {}
  <2>1. ASSUME NEW x \in S PROVE m - x \in Nat
    <3>1. x \in 0 .. m
      OBVIOUS
    <3> QED
      BY <3>1
  <2>2. PICK x \in S : TRUE
    OBVIOUS
  <2>3. m - x \in T
    BY <2>2
  <2> QED
    BY <2>1, <2>3
<1>2. PICK t \in T : \A u \in T : t <= u
  BY <1>1, LeastOf
<1>3. PICK x \in S : t = m - x
  BY <1>2
<1>4. ASSUME NEW y \in S PROVE y <= x
  <2>1. m - x <= m - y
    BY <1>2, <1>3
  <2> QED
    BY <2>1
<1> QED
  BY <1>4

LEMMA Depths ==
    ASSUME ArchiveOK
    PROVE  /\ Len(archive) \in Nat /\ DOMAIN archive = 1 .. Len(archive)
           /\ \A n \in 0 .. Len(archive) : D(n) \in Nat
           /\ \A k \in 1 .. Len(archive) : /\ D(k) = archive[k].depth /\ archive[k] \in Entry
                                           /\ D(k) >= 1
           /\ D(0) = 0
<1>1. archive \in Seq(Entry)
  BY DEF ArchiveOK, Archive
<1>2. /\ Len(archive) \in Nat /\ DOMAIN archive = 1 .. Len(archive)
      /\ \A k \in 1 .. Len(archive) : archive[k] \in Entry
  BY <1>1
<1>3. D(0) = 0
  BY DEF D
<1>4. ASSUME NEW k \in 1 .. Len(archive) PROVE D(k) = archive[k].depth /\ D(k) \in Nat /\ D(k) >= 1
  BY <1>2 DEF D, Entry, ArchiveOK
<1> QED
  BY <1>2, <1>3, <1>4

LEMMA ParentIs ==
    ASSUME ArchiveOK, NEW k \in 1 .. Len(archive)
    PROVE  IsParent(k, Parent(k))
<1> DEFINE above == {j \in 1 .. k - 1 : archive[j].depth < archive[k].depth}
<1>1. /\ Len(archive) \in Nat /\ k \in Nat
      /\ \A n \in 0 .. Len(archive) : D(n) \in Nat
      /\ \A j \in 1 .. Len(archive) : D(j) = archive[j].depth /\ D(j) >= 1
      /\ D(0) = 0
  BY Depths
<1>2. \A j \in 1 .. k - 1 : j \in above \/ D(j) >= D(k)
  BY <1>1
<1>3. \A j \in above : j \in 1 .. k - 1 /\ D(j) < D(k)
  BY <1>1
<1>4. Parent(k) = IF above = {} THEN 0 ELSE CHOOSE j \in above : \A h \in above : h <= j
  BY DEF Parent
<1> HIDE DEF above
<1>5. CASE above = {}
  <2>1. Parent(k) = 0
    BY <1>4, <1>5
  <2> QED
    BY <2>1, <1>5, <1>2, <1>1 DEF IsParent
<1>6. CASE above # {}
  <2>1. above \in SUBSET (0 .. k)
    BY <1>3, <1>1
  <2>2. \E j \in above : \A h \in above : h <= j
    BY <2>1, <1>6, <1>1, GreatestOf
  <2>3. Parent(k) \in above /\ \A h \in above : h <= Parent(k)
    BY <1>4, <1>6, <2>2
  <2>4. \A h \in Parent(k) + 1 .. k - 1 : h \in 1 .. k - 1 /\ h \notin above
    BY <2>3, <1>3, <1>1
  <2> QED
    BY <2>3, <2>4, <1>2, <1>3, <1>1 DEF IsParent
<1> QED
  BY <1>5, <1>6

LEMMA ParentOnly ==
    ASSUME ArchiveOK, NEW k \in 1 .. Len(archive), NEW n, IsParent(k, n)
    PROVE  Parent(k) = n
<1>1. IsParent(k, Parent(k))
  BY ParentIs
<1>2. \A m \in 0 .. Len(archive) : D(m) \in Nat
  BY Depths
<1> DEFINE p == Parent(k)
<1>3. /\ n \in 0 .. k - 1 /\ D(n) < D(k) /\ \A h \in n + 1 .. k - 1 : D(h) >= D(k)
      /\ p \in 0 .. k - 1 /\ D(p) < D(k) /\ \A h \in p + 1 .. k - 1 : D(h) >= D(k)
  BY <1>1 DEF IsParent
<1>4. Len(archive) \in Nat
  BY Depths
<1> HIDE DEF p
<1>5. D(n) \in Nat /\ D(p) \in Nat /\ D(k) \in Nat
  BY <1>2, <1>3, <1>4
<1>6. ~(n < p)
  BY <1>3, <1>4, <1>5
<1>7. ~(p < n)
  BY <1>3, <1>4, <1>5
<1>8. p = n
  BY <1>3, <1>4, <1>6, <1>7
<1> QED
  BY <1>8 DEF p

\* How the entries of a directory grow with the part of the archive looked at.
LEMMA KidsGrow ==
    ASSUME ArchiveOK, NEW m \in 0 .. Len(archive), NEW n
    PROVE  /\ IsFiniteSet(Kids(n, m)) /\ Cardinality(Kids(n, m)) \in Nat
           /\ m < Len(archive) /\ Parent(m + 1) = n =>
                /\ Cardinality(Kids(n, m + 1)) = Cardinality(Kids(n, m)) + 1
                /\ Kids(n, m + 1) # {}
           /\ m < Len(archive) /\ Parent(m + 1) # n => Kids(n, m + 1) = Kids(n, m)
<1>1. Len(archive) \in Nat
  BY Depths
<1>2. IsFiniteSet(Kids(n, m))
  <2>1. IsFiniteSet(1 .. m)
    BY <1>1, FS_Interval
  <2>2. Kids(n, m) \in SUBSET (1 .. m)
    BY DEF Kids
  <2> QED
    BY <2>1, <2>2, FS_Subset
<1>3. Cardinality(Kids(n, m)) \in Nat
  BY <1>2, FS_CardinalityType
<1>4. ASSUME m < Len(archive), Parent(m + 1) = n
      PROVE  /\ Cardinality(Kids(n, m + 1)) = Cardinality(Kids(n, m)) + 1
             /\ Kids(n, m + 1) # {}
  <2>1. Kids(n, m + 1) = Kids(n, m) \cup {m + 1}
    BY <1>1, <1>4 DEF Kids
  <2>2. m + 1 \notin Kids(n, m)
    BY <1>1 DEF Kids
  <2> QED
    BY <2>1, <2>2, <1>2, FS_AddElement
<1>5. ASSUME m < Len(archive), Parent(m + 1) # n PROVE Kids(n, m + 1) = Kids(n, m)
  BY <1>1, <1>5 DEF Kids
<1> QED
  BY <1>2, <1>3, <1>4, <1>5

\* The entries of a node come after it.
LEMMA KidsAfter ==
    ASSUME ArchiveOK, NEW m \in 0 .. Len(archive), NEW n \in Nat
    PROVE  /\ \A k \in Kids(n, m) : k > n /\ k \in 1 .. Len(archive) /\ IsParent(k, n)
           /\ n >= m => Kids(n, m) = {} /\ Cardinality(Kids(n, m)) = 0
<1>1. Len(archive) \in Nat
  BY Depths
<1>2. \A k \in Kids(n, m) : k \in 1 .. Len(archive) /\ k <= m /\ IsParent(k, n)
  BY <1>1, ParentIs DEF Kids
<1>3. \A k \in Kids(n, m) : k > n
  BY <1>1, <1>2 DEF IsParent
<1>4. n >= m => Kids(n, m) = {}
  BY <1>1, <1>2, <1>3
<1> QED
  BY <1>2, <1>3, <1>4, FS_EmptySet

\* The root holds the first entry.
LEMMA FirstEntry ==
    ASSUME ArchiveOK, Len(archive) # 0
    PROVE  1 \in Kids(0, Len(archive))
<1>1. 1 \in 1 .. Len(archive)
  BY Depths
<1>2. IsParent(1, Parent(1))
  BY <1>1, ParentIs
<1>3. Parent(1) = 0
  BY <1>2 DEF IsParent
<1> QED
  BY <1>1, <1>3 DEF Kids

LEMMA SameArchive ==
    ASSUME archive' = archive
    PROVE  /\ \A n, k : IsParent(k, n)' = IsParent(k, n)
           /\ \A n : D(n)' = D(n) /\ IsDir(n)' = IsDir(n)
           /\ \A n, m : Kids(n, m)' = Kids(n, m)
           /\ \A k : Parent(k)' = Parent(k)
           /\ EmptyDirs' = EmptyDirs
           /\ ArchiveOK' = ArchiveOK
BY DEF IsParent, D, IsDir, Kids, Parent, EmptyDirs, Children, ArchiveOK

----------------------------------------------------------------------------
\* The archive is packed.

LEMMA InitStep == ASSUME Init PROVE RInv
<1>1. archive \in Archive /\ Len(archive) = 0
  BY DEF Init, Archive
<1>2. ArchiveOK
  BY <1>1 DEF ArchiveOK
<1>3. Fresh /\ phase = "pack"
  BY DEF Init, Fresh
<1> QED
  BY <1>2, <1>3 DEF RInv, Parsed

LEMMA PackStep ==
    ASSUME RInv, NEW name \in Names, NEW depth \in 1 .. MaxDepth, NEW isdir \in BOOLEAN,
           Pack(name, depth, isdir)
    PROVE  RInv'
<1> DEFINE e == [name |-> name, depth |-> depth, dir |-> isdir]
<1>0. PICK len \in Nat : len = Len(archive)
  BY Depths DEF RInv
<1>1. /\ ArchiveOK /\ Fresh /\ phase = "pack" /\ phase' = "pack"
      /\ archive' = Append(archive, e)
      /\ i' = i /\ stack' = stack /\ nodes' = nodes
      /\ depth = 1 \/ (archive # <<>> /\ depth <= Last(archive).depth + IF Last(archive).dir THEN 1 ELSE 0)
  BY DEF RInv, Pack
<1>2. depth \in Nat /\ depth >= 1
  BY InitrdAssumption
<1>3. archive \in Seq(Entry)
  BY <1>1 DEF ArchiveOK, Archive
<1>4. e \in Entry
  BY <1>2 DEF Entry
<1>5. /\ archive' \in Seq(Entry) /\ Len(archive') = len + 1 /\ len \in Nat
      /\ \A k \in 1 .. len : archive'[k] = archive[k]
      /\ archive'[len + 1] = e
  <2> HIDE DEF e
  <2> QED
    BY <1>0, <1>1, <1>3, <1>4
<1>6. /\ \A n \in 0 .. len : D(n)' = D(n) /\ IsDir(n)' = IsDir(n)
      /\ D(len + 1)' = depth
  BY <1>5 DEF D, IsDir
<1>7. ASSUME NEW k \in 1 .. len + 1
      PROVE  (D(k) >= 1 /\ (D(k) > D(k - 1) => D(k) = D(k - 1) + 1 /\ IsDir(k - 1)))'
  <2>1. CASE k <= len
    BY <2>1, <1>0, <1>1, <1>5, <1>6 DEF ArchiveOK
  <2>2. CASE k = len + 1 /\ len = 0
    <3>1. depth = 1
      BY <2>2, <1>0, <1>1, <1>3
    <3>2. D(0)' = 0 /\ IsDir(0)'
      BY DEF D, IsDir
    <3> QED
      BY <3>1, <3>2, <2>2, <1>6
  <2>3. CASE k = len + 1 /\ len # 0
    <3>1. /\ Last(archive).depth = D(len) /\ Last(archive).dir = IsDir(len)
          /\ D(len) \in Nat /\ D(len) >= 1
      <4>1. archive[len] \in Entry /\ len # 0 /\ len \in 1 .. len
        BY <2>3, <1>0, <1>3, <1>5
      <4>2. D(len) = archive[len].depth /\ IsDir(len) = archive[len].dir
        BY <4>1 DEF D, IsDir, Entry
      <4> QED
        BY <4>1, <4>2, <1>0, <1>1, Depths DEF Last, Entry
    <3>2. D(k)' = depth /\ D(k - 1)' = D(len) /\ IsDir(k - 1)' = IsDir(len)
      BY <2>3, <1>5, <1>6
    <3>3. depth = 1 \/ depth <= D(len) + IF IsDir(len) THEN 1 ELSE 0
      BY <1>1, <3>1
    <3> QED
      BY <3>1, <3>2, <3>3, <1>2
  <2> QED
    BY <2>1, <2>2, <2>3, <1>5
<1>8. ArchiveOK'
  BY <1>5, <1>7 DEF ArchiveOK, Archive
<1>9. Fresh'
  BY <1>1 DEF Fresh
<1> QED
  BY <1>1, <1>8, <1>9 DEF RInv, Parsed

\* The first call of tar_parse_rec.
LEMMA PackedStep == ASSUME RInv, Packed PROVE RInv'
<1>1. /\ ArchiveOK /\ Fresh /\ phase' = "parse" /\ archive # <<>>
      /\ UNCHANGED <<archive, i, stack, nodes>>
  BY DEF RInv, Packed
<1> DEFINE f == [depth |-> 1, parent |-> 0, sub_ent_num |-> 0]
           r == [name |-> "/", dir |-> TRUE, sub_ent_num |-> Uninit]
<1>2. i = 2 /\ stack = <<f>> /\ nodes = <<r>>
  BY <1>1 DEF Fresh
<1>3. /\ stack \in Frames /\ Len(stack) = 1 /\ stack[1] = f
      /\ nodes \in NodeSeq /\ Len(nodes) = 1 /\ nodes[1] = r
  <2>1. f \in Frame /\ r \in Node
    BY DEF Frame, Node, Uninit
  <2> HIDE DEF f, r
  <2> QED
    BY <2>1, <1>2 DEF Frames, NodeSeq
<1>4. Passed = 0
  BY <1>3 DEF Passed
<1>5. Len(archive) \in Nat /\ Len(archive) # 0 /\ D(0) = 0
  BY <1>1, Depths DEF ArchiveOK, Archive
<1>6. Kids(0, 0) = {} /\ Cardinality(Kids(0, 0)) = 0
  BY <1>1, <1>5, KidsAfter
<1>7. NodesMatch
  BY <1>3, <1>4, <1>5 DEF NodesMatch
<1>8. Branch
  BY <1>3, <1>4, <1>5, <1>6 DEF Branch
<1>9. NoneEmpty
  BY <1>3 DEF NoneEmpty
<1>10. D(1) = 1
  <2>1. D(1) >= 1 /\ (D(1) > D(1 - 1) => D(1) = D(1 - 1) + 1) /\ D(1) \in Nat
    BY <1>1, <1>5, Depths DEF ArchiveOK
  <2> QED
    BY <2>1, <1>5
<1>11. Walk
  BY <1>1, <1>2, <1>3, <1>4, <1>5, <1>7, <1>8, <1>9, <1>10 DEF Walk
<1>12. Walk'
  <2>1. Passed' = Passed
    BY <1>1 DEF Passed
  <2>2. NodesMatch' /\ Branch' /\ NoneEmpty'
    BY <1>1, <2>1, <1>11, SameArchive DEF Walk, NodesMatch, Branch, NoneEmpty
  <2>3. \A n \in 0 .. Passed : Settled(n, Passed)' = Settled(n, Passed)
    BY <1>1, <2>1, SameArchive DEF Settled
  <2> QED
    BY <1>1, <1>11, <2>1, <2>2, <2>3, SameArchive DEF Walk
<1>13. ArchiveOK'
  BY <1>1, SameArchive
<1> QED
  BY <1>1, <1>12, <1>13 DEF RInv, Parsed

----------------------------------------------------------------------------
\* The walk, one lemma per step of the loop.

LEMMA WalkFacts ==
    ASSUME ArchiveOK, Walk
    PROVE  /\ Passed \in 0 .. Len(archive) /\ Passed \in Nat /\ Len(archive) \in Nat /\ Len(nodes) = Passed + 1
           /\ Len(stack) \in Nat /\ Len(stack) >= 1 /\ Top = stack[Len(stack)]
           /\ DOMAIN stack = 1 .. Len(stack) /\ DOMAIN nodes = 1 .. Passed + 1
           /\ \A l \in 1 .. Len(stack) : stack[l] \in Frame
           /\ \A n \in 0 .. Passed : nodes[n + 1] \in Node
           /\ i % 2 = 1 => /\ i = 2 * Passed + 3 /\ Passed < Len(archive)
                           /\ Header = archive[Passed + 1] /\ Header.depth = D(Passed + 1)
           /\ i % 2 = 0 => i = 2 * Passed + 2
           /\ AtEnd => Passed = Len(archive)
<1>1. nodes \in Seq(Node) /\ Len(nodes) >= 1 /\ Passed <= Len(archive) /\ stack \in Seq(Frame) /\ Len(stack) >= 1
  BY DEF Walk, NodesMatch, Branch, NodeSeq, Frames
<1>2. Len(archive) \in Nat
  BY Depths
<1>3. /\ Passed \in 0 .. Len(archive) /\ Passed \in Nat /\ Len(nodes) = Passed + 1
      /\ DOMAIN nodes = 1 .. Passed + 1 /\ \A n \in 0 .. Passed : nodes[n + 1] \in Node
  BY <1>1, <1>2 DEF Passed
<1>4. /\ Len(stack) \in Nat /\ DOMAIN stack = 1 .. Len(stack) /\ Top = stack[Len(stack)]
      /\ \A l \in 1 .. Len(stack) : stack[l] \in Frame
  BY <1>1 DEF Top, Last
<1>5. (i = 2 * Passed + 2 \/ i = 2 * Passed + 3) /\ (i = 2 * Passed + 3 => Passed < Len(archive))
  BY DEF Walk
<1>6. ASSUME i % 2 = 1
      PROVE  /\ i = 2 * Passed + 3 /\ Passed < Len(archive)
             /\ Header = archive[Passed + 1] /\ Header.depth = D(Passed + 1)
  <2>1. i = 2 * Passed + 3
    BY <1>3, <1>5, <1>6
  <2>2. (i - 1) \div 2 = Passed + 1
    BY <2>1, <1>3
  <2>3. Header = archive[Passed + 1]
    BY <2>2 DEF Header
  <2>4. Passed + 1 \in 1 .. Len(archive)
    BY <2>1, <1>2, <1>3, <1>5
  <2> QED
    BY <2>1, <2>3, <2>4, <1>5, Depths
<1>7. i % 2 = 0 => i = 2 * Passed + 2
  BY <1>3, <1>5
<1>8. AtEnd => Passed = Len(archive)
  BY <1>2, <1>3, <1>5 DEF AtEnd
<1> QED
  BY <1>1, <1>2, <1>3, <1>4, <1>6, <1>7, <1>8

LEMMA SkipPaxStep == ASSUME RInv, SkipPax PROVE RInv'
<1>1. /\ ArchiveOK /\ Walk /\ phase' = "parse" /\ ~AtEnd /\ i % 2 = 0 /\ i' = i + 1
      /\ UNCHANGED <<archive, stack, nodes>>
  BY DEF RInv, SkipPax
<1>2. /\ Passed \in Nat /\ Passed \in 0 .. Len(archive) /\ Len(archive) \in Nat
      /\ i = 2 * Passed + 2 /\ i' = 2 * Passed + 3
  BY <1>1, WalkFacts
<1>3. Passed < Len(archive)
  BY <1>1, <1>2 DEF AtEnd
<1>4. Passed' = Passed
  BY <1>1 DEF Passed
<1>5. NoneEmpty'
  <2>1. \A l \in 2 .. Len(stack) : Kids(stack[l].parent, Passed) # {}
    BY <1>1, <1>2 DEF Walk, NoneEmpty
  <2> QED
    BY <2>1, <1>1, <1>4, SameArchive DEF NoneEmpty
<1>6. NodesMatch' /\ Branch'
  BY <1>1, <1>4, SameArchive DEF Walk, NodesMatch, Branch
<1>7. \A n \in 0 .. Passed : (\A l \in 1 .. Len(stack) : stack[l].parent # n) => Settled(n, Passed)'
  BY <1>1, <1>4, SameArchive DEF Walk, Settled
<1>8. D(Passed + 1) > Len(stack) => D(Passed) = Len(stack)
  BY <1>1, <1>3 DEF Walk
<1>9. Walk'
  BY <1>1, <1>2, <1>3, <1>4, <1>5, <1>6, <1>7, <1>8, SameArchive DEF Walk
<1> QED
  BY <1>1, <1>9, SameArchive DEF RInv, Parsed

LEMMA AddNodeStep == ASSUME RInv, AddNode PROVE RInv'
<1>1. /\ ArchiveOK /\ Walk /\ phase' = "parse" /\ i % 2 = 1 /\ Header.depth = Top.depth /\ i' = i + 1
      /\ archive' = archive
  BY DEF RInv, AddNode
<1>2. PICK p \in Nat, L \in Nat : p = Passed /\ L = Len(stack)
  BY <1>1, WalkFacts
<1> DEFINE nd == [name |-> Header.name, dir |-> Header.dir,
                  sub_ent_num |-> IF Header.dir THEN Uninit ELSE 0]
<1>3. /\ p < Len(archive) /\ Len(archive) \in Nat /\ p + 1 \in 1 .. Len(archive) /\ p \in 0 .. Len(archive)
      /\ L >= 1 /\ L \in 1 .. L /\ i = 2 * p + 3 /\ i' = 2 * (p + 1) + 2
      /\ Header = archive[p + 1] /\ D(p + 1) = L /\ stack[L].depth = L
      /\ DOMAIN stack = 1 .. L /\ \A l \in 1 .. L : stack[l] \in Frame
      /\ Header \in Entry
  <2>1. /\ p < Len(archive) /\ Len(archive) \in Nat /\ p \in Nat /\ L \in Nat /\ L >= 1 /\ i = 2 * p + 3
        /\ Header = archive[p + 1] /\ D(p + 1) = stack[L].depth
        /\ DOMAIN stack = 1 .. L /\ \A l \in 1 .. L : stack[l] \in Frame
    BY <1>1, <1>2, WalkFacts
  <2>2. stack[L].depth = L
    BY <1>1, <1>2, <2>1 DEF Walk, Branch
  <2>3. p + 1 \in 1 .. Len(archive) /\ p \in 0 .. Len(archive) /\ L \in 1 .. L /\ i' = 2 * (p + 1) + 2
    BY <1>1, <2>1
  <2>4. archive[p + 1] \in Entry
    BY <1>1, <2>3, Depths
  <2> QED
    BY <2>1, <2>2, <2>3, <2>4
<1>4. /\ nodes' = Append(nodes, nd)
      /\ stack' = [stack EXCEPT ![L].sub_ent_num = @ + 1]
  BY <1>2 DEF AddNode
<1>5. nd \in Node /\ nd.name = archive[p + 1].name /\ nd.dir = archive[p + 1].dir
      /\ nd.sub_ent_num = IF IsDir(p + 1) THEN Uninit ELSE 0
  BY <1>3 DEF Node, Entry, Uninit, IsDir
<1> HIDE DEF nd
<1>6. nodes \in Seq(Node) /\ Len(nodes) = p + 1 /\ stack \in Seq(Frame)
  BY <1>1, <1>2, WalkFacts DEF Walk, NodesMatch, Branch, NodeSeq, Frames
<1>7. /\ nodes' \in Seq(Node) /\ Len(nodes') = p + 2
      /\ \A n \in 0 .. p : nodes'[n + 1] = nodes[n + 1]
      /\ nodes'[p + 2] = nd
  BY <1>4, <1>5, <1>6
<1>8. Passed' = p + 1
  BY <1>7 DEF Passed
<1>9. /\ stack' \in Seq(Frame) /\ Len(stack') = L
      /\ \A l \in 1 .. L : /\ stack'[l].depth = stack[l].depth /\ stack'[l].parent = stack[l].parent
                           /\ l # L => stack'[l].sub_ent_num = stack[l].sub_ent_num
      /\ stack'[L].sub_ent_num = stack[L].sub_ent_num + 1
  <2>1. [stack[L] EXCEPT !.sub_ent_num = @ + 1] \in Frame
    <3>1. PICK f \in Frame : f = stack[L]
      BY <1>3
    <3>2. [f EXCEPT !.sub_ent_num = @ + 1] \in Frame
      BY DEF Frame
    <3> QED
      BY <3>1, <3>2
  <2>2. stack' = [stack EXCEPT ![L] = [stack[L] EXCEPT !.sub_ent_num = @ + 1]]
    BY <1>4
  <2>3. stack' \in Seq(Frame) /\ Len(stack') = L
    BY <1>2, <1>3, <1>6, <2>1, <2>2, ExceptSeq
  <2> QED
    BY <2>2, <2>3, <1>3 DEF Frame
\* The entry belongs to the directory of the innermost activation.
<1>10. /\ \A l \in 1 .. L : /\ stack[l].depth = l /\ stack[l].parent \in 0 .. p /\ D(stack[l].parent) = l - 1
                            /\ \A h \in stack[l].parent + 1 .. p : D(h) >= l
                            /\ stack[l].sub_ent_num = Cardinality(Kids(stack[l].parent, p))
  BY <1>1, <1>2 DEF Walk, Branch
<1>11. Parent(p + 1) = stack[L].parent
  <2>1. PICK q \in 0 .. p : q = stack[L].parent /\ D(q) = L - 1 /\ \A h \in q + 1 .. p : D(h) >= L
    BY <1>3, <1>10
  <2>2. p + 1 - 1 = p /\ L - 1 < L
    OBVIOUS
  <2>3. IsParent(p + 1, q)
    BY <1>3, <2>1, <2>2 DEF IsParent
  <2> QED
    BY <1>1, <1>3, <2>1, <2>3, ParentOnly
<1>12. \A l \in 1 .. L : l # L => stack[l].parent # stack[L].parent
  <2>1. \A l \in 1 .. L : l - 1 = L - 1 => l = L
    BY <1>3
  <2>2. \A l \in 1 .. L : D(stack[l].parent) = l - 1
    BY <1>10
  <2> QED
    BY <2>1, <2>2, <1>3
<1>13. /\ \A n : n # stack[L].parent => Kids(n, p + 1) = Kids(n, p)
       /\ Cardinality(Kids(stack[L].parent, p + 1)) = Cardinality(Kids(stack[L].parent, p)) + 1
       /\ Kids(stack[L].parent, p + 1) # {}
  BY <1>1, <1>3, <1>11, KidsGrow
<1>14. NodesMatch'
  <2>1. \A k \in 1 .. p : nodes[k + 1].name = archive[k].name /\ nodes[k + 1].dir = archive[k].dir
    BY <1>1, <1>2 DEF Walk, NodesMatch
  <2>2. nodes[1].dir
    BY <1>1 DEF Walk, NodesMatch
  <2>3. nodes'[1] = nodes[1]
    BY <1>7
  <2>4. \A k \in 1 .. p + 1 : nodes'[k + 1].name = archive[k].name /\ nodes'[k + 1].dir = archive[k].dir
    <3> TAKE k \in 1 .. p + 1
    <3>1. CASE k = p + 1
      BY <3>1, <1>5, <1>7
    <3>2. CASE k # p + 1
      <4>1. k \in 1 .. p /\ k \in 0 .. p
        BY <3>2
      <4> QED
        BY <4>1, <2>1, <1>7
    <3> QED
      BY <3>1, <3>2
  <2> QED
    BY <1>1, <1>3, <1>7, <1>8, <2>2, <2>3, <2>4 DEF NodesMatch, NodeSeq
<1>15. Branch'
  <2>1. ASSUME NEW l \in 1 .. L
        PROVE  /\ stack'[l].depth = l /\ stack'[l].parent \in 0 .. p + 1
               /\ D(stack'[l].parent) = l - 1
               /\ \A h \in stack'[l].parent + 1 .. p + 1 : D(h) >= l
               /\ stack'[l].sub_ent_num = Cardinality(Kids(stack'[l].parent, p + 1))
    <3>0. PICK q \in 0 .. p : /\ q = stack'[l].parent /\ D(q) = l - 1
                              /\ \A h \in q + 1 .. p : D(h) >= l
      BY <1>9, <1>10
    <3>1. stack'[l].depth = l /\ stack'[l].parent \in 0 .. p + 1 /\ D(stack'[l].parent) = l - 1
      <4>1. stack'[l].depth = l
        BY <1>9, <1>10
      <4>2. q \in 0 .. p + 1
        OBVIOUS
      <4> QED
        BY <4>1, <4>2, <3>0
    <3>2. \A h \in q + 1 .. p + 1 : D(h) >= l
      <4> TAKE h \in q + 1 .. p + 1
      <4>1. h \in q + 1 .. p \/ h = p + 1
        OBVIOUS
      <4> QED
        BY <4>1, <3>0, <1>3
    <3>3. stack'[l].sub_ent_num = Cardinality(Kids(stack'[l].parent, p + 1))
      <4>1. CASE l = L
        BY <4>1, <1>9, <1>10, <1>13
      <4>2. CASE l # L
        BY <4>2, <1>9, <1>10, <1>12, <1>13
      <4> QED
        BY <4>1, <4>2
    <3> QED
      BY <3>0, <3>1, <3>2, <3>3
  <2>2. \A n, m : D(n)' = D(n) /\ Kids(n, m)' = Kids(n, m)
    BY <1>1, SameArchive
  <2>3. stack' \in Frames /\ Len(stack') = L /\ L >= 1
    BY <1>3, <1>9 DEF Frames
  <2> QED
    BY <2>1, <2>2, <2>3, <1>8 DEF Branch
<1>16. NoneEmpty'
  <2>1. ASSUME NEW l \in 2 .. L PROVE Kids(stack'[l].parent, p + 1) # {}
    <3>1. CASE l = L
      BY <3>1, <1>3, <1>9, <1>13
    <3>2. CASE l # L
      BY <3>2, <1>1, <1>2, <1>9, <1>12, <1>13 DEF Walk, NoneEmpty
    <3> QED
      BY <3>1, <3>2
  <2> QED
    BY <2>1, <1>1, <1>8, <1>9, SameArchive DEF NoneEmpty
<1>17. ASSUME NEW n \in 0 .. p + 1, \A l \in 1 .. L : stack'[l].parent # n
       PROVE  nodes'[n + 1].sub_ent_num = IF IsDir(n) /\ Kids(n, p + 1) = {} THEN Uninit
                                          ELSE Cardinality(Kids(n, p + 1))
  <2>1. Kids(n, p + 1) = Kids(n, p)
    BY <1>3, <1>9, <1>13, <1>17
  <2>2. CASE n = p + 1
    <3>1. Kids(n, p) = {} /\ Cardinality(Kids(n, p)) = 0
      BY <2>2, <1>1, <1>3, KidsAfter
    <3> QED
      BY <2>1, <2>2, <3>1, <1>5, <1>7
  <2>3. CASE n # p + 1
    <3>1. n \in 0 .. p /\ nodes'[n + 1] = nodes[n + 1]
      BY <2>3, <1>7
    <3>2. Settled(n, p)
      BY <3>1, <1>1, <1>2, <1>9, <1>17 DEF Walk
    <3> QED
      BY <3>1, <3>2, <2>1 DEF Settled
  <2> QED
    BY <2>2, <2>3
<1>18. \A n \in 0 .. p + 1 : (\A l \in 1 .. L : stack'[l].parent # n) => Settled(n, Passed)'
  BY <1>1, <1>8, <1>17, SameArchive DEF Settled
<1>19. Walk'
  BY <1>1, <1>3, <1>8, <1>9, <1>14, <1>15, <1>16, <1>18, SameArchive DEF Walk
<1> QED
  BY <1>1, <1>19, SameArchive DEF RInv, Parsed

LEMMA DescendStep == ASSUME RInv, Descend PROVE RInv'
<1>1. /\ ArchiveOK /\ Walk /\ phase' = "parse" /\ i % 2 = 1 /\ Header.depth > Top.depth
      /\ UNCHANGED <<archive, i, nodes>>
  BY DEF RInv, Descend
<1>2. PICK p \in Nat, L \in Nat : p = Passed /\ L = Len(stack)
  BY <1>1, WalkFacts
<1>3. /\ p < Len(archive) /\ Len(archive) \in Nat /\ p + 1 \in 1 .. Len(archive) /\ p \in 0 .. Len(archive)
      /\ L >= 1 /\ L \in 1 .. L /\ i = 2 * p + 3 /\ Header.depth = D(p + 1) /\ D(p + 1) > L
      /\ Len(nodes) = p + 1 /\ stack \in Seq(Frame)
  <2>1. /\ p < Len(archive) /\ Len(archive) \in Nat /\ p \in Nat /\ L \in Nat /\ L >= 1 /\ i = 2 * p + 3
        /\ Header.depth = D(p + 1) /\ Top = stack[L] /\ Len(nodes) = p + 1
    BY <1>1, <1>2, WalkFacts
  <2>2. stack[L].depth = L /\ stack \in Seq(Frame)
    BY <1>1, <1>2, <2>1 DEF Walk, Branch, Frames
  <2> QED
    BY <1>1, <2>1, <2>2
<1>4. D(p) = L /\ D(p + 1) = L + 1 /\ IsDir(p)
  <2>1. D(p) = L
    BY <1>1, <1>2, <1>3 DEF Walk
  <2>2. D(p + 1) > D(p + 1 - 1) => D(p + 1) = D(p + 1 - 1) + 1 /\ IsDir(p + 1 - 1)
    BY <1>1, <1>3 DEF ArchiveOK
  <2>3. p + 1 - 1 = p
    OBVIOUS
  <2> QED
    BY <2>1, <2>2, <2>3, <1>3
<1> DEFINE f == [depth |-> L + 1, parent |-> p, sub_ent_num |-> 0]
<1>5. stack' = Append(stack, f)
  <2>1. stack' = Append(stack, [depth |-> Header.depth, parent |-> Len(nodes) - 1, sub_ent_num |-> 0])
    BY DEF Descend
  <2>2. Len(nodes) - 1 = p
    BY <1>3
  <2> QED
    BY <2>1, <2>2, <1>3, <1>4
<1>6. f \in Frame /\ f.depth = L + 1 /\ f.parent = p /\ f.sub_ent_num = 0
  BY DEF Frame
<1> HIDE DEF f
<1>7. /\ stack' \in Seq(Frame) /\ Len(stack') = L + 1
      /\ \A l \in 1 .. L : stack'[l] = stack[l]
      /\ stack'[L + 1] = f
  BY <1>2, <1>3, <1>5, <1>6
<1>8. Passed' = p
  BY <1>1, <1>2 DEF Passed
<1>9. Kids(p, p) = {} /\ Cardinality(Kids(p, p)) = 0
  BY <1>1, <1>3, KidsAfter
<1>10. Branch'
  <2>1. ASSUME NEW l \in 1 .. L + 1
        PROVE  /\ stack'[l].depth = l /\ stack'[l].parent \in 0 .. p
               /\ D(stack'[l].parent) = l - 1
               /\ \A h \in stack'[l].parent + 1 .. p : D(h) >= l
               /\ stack'[l].sub_ent_num = Cardinality(Kids(stack'[l].parent, p))
    <3>1. CASE l = L + 1
      <4>1. stack'[l].depth = l /\ stack'[l].parent = p /\ stack'[l].sub_ent_num = 0
        BY <3>1, <1>6, <1>7
      <4>2. p \in 0 .. p /\ l - 1 = L /\ \A h \in p + 1 .. p : FALSE
        BY <3>1
      <4> QED
        BY <4>1, <4>2, <1>4, <1>9
    <3>2. CASE l # L + 1
      <4>1. l \in 1 .. L /\ stack'[l] = stack[l]
        BY <3>2, <1>7
      <4> QED
        BY <4>1, <1>1, <1>2 DEF Walk, Branch
    <3> QED
      BY <3>1, <3>2
  <2>2. \A n, m : D(n)' = D(n) /\ Kids(n, m)' = Kids(n, m)
    BY <1>1, SameArchive
  <2>3. stack' \in Frames /\ Len(stack') = L + 1 /\ L + 1 >= 1
    BY <1>3, <1>7 DEF Frames
  <2> QED
    BY <2>1, <2>2, <2>3, <1>8 DEF Branch
<1>11. NoneEmpty'
  <2>1. ASSUME NEW l \in 2 .. L PROVE Kids(stack'[l].parent, p) # {}
    <3>1. stack'[l] = stack[l]
      BY <1>7
    <3> QED
      BY <3>1, <1>1, <1>2, <1>3 DEF Walk, NoneEmpty
  <2>2. \A n, m : D(n)' = D(n) /\ Kids(n, m)' = Kids(n, m)
    BY <1>1, SameArchive
  <2>3. Len(stack') = L + 1 /\ i' = 2 * p + 3 /\ p < Len(archive') /\ D(p + 1) = L + 1
    BY <1>1, <1>3, <1>4, <1>7
  <2>4. \A l \in 2 .. L + 1 : l \in 2 .. L \/ l = L + 1
    BY <1>3
  <2> QED
    BY <2>1, <2>2, <2>3, <2>4, <1>8 DEF NoneEmpty
<1>12. NodesMatch'
  BY <1>1, <1>2, <1>8, SameArchive DEF Walk, NodesMatch
<1>13. \A n \in 0 .. p : (\A l \in 1 .. L + 1 : stack'[l].parent # n) => Settled(n, Passed)'
  <2>1. \A n \in 0 .. p : (\A l \in 1 .. L + 1 : stack'[l].parent # n) => Settled(n, p)
    BY <1>1, <1>2, <1>7 DEF Walk
  <2> QED
    BY <2>1, <1>1, <1>8, SameArchive DEF Settled
<1>14. Walk'
  BY <1>1, <1>2, <1>3, <1>4, <1>7, <1>8, <1>10, <1>11, <1>12, <1>13, SameArchive DEF Walk
<1> QED
  BY <1>1, <1>14, SameArchive DEF RInv, Parsed

LEMMA AscendStep == ASSUME RInv, Ascend PROVE RInv'
<1>1. /\ ArchiveOK /\ Walk /\ phase = "parse"
      /\ AtEnd \/ (i % 2 = 1 /\ Header.depth < Top.depth)
      /\ archive' = archive /\ i' = i
  BY DEF RInv, Ascend
<1>2. PICK p \in Nat, L \in Nat : p = Passed /\ L = Len(stack)
  BY <1>1, WalkFacts
<1>3. /\ p \in 0 .. Len(archive) /\ Len(archive) \in Nat /\ Len(archive) # 0
      /\ L >= 1 /\ L \in 1 .. L /\ L - 1 \in Nat /\ Top = stack[L]
      /\ nodes \in Seq(Node) /\ Len(nodes) = p + 1 /\ DOMAIN nodes = 1 .. p + 1
      /\ stack \in Seq(Frame) /\ Len(stack) = L
  <2>1. archive # <<>> /\ archive \in Seq(Entry) /\ nodes \in Seq(Node) /\ stack \in Seq(Frame)
    BY <1>1 DEF Walk, ArchiveOK, Archive, NodesMatch, NodeSeq, Branch, Frames
  <2>2. /\ p \in 0 .. Len(archive) /\ Len(archive) \in Nat /\ L >= 1 /\ Top = stack[L]
        /\ Len(nodes) = p + 1 /\ DOMAIN nodes = 1 .. p + 1
    BY <1>1, <1>2, WalkFacts
  <2> QED
    BY <2>1, <2>2, <1>2
<1>4. PICK q \in 0 .. p, c \in Nat :
        /\ q = stack[L].parent /\ c = stack[L].sub_ent_num /\ c = Cardinality(Kids(q, p)) /\ D(q) = L - 1
  <2>1. stack[L].parent \in 0 .. p /\ stack[L].sub_ent_num = Cardinality(Kids(stack[L].parent, p))
        /\ D(stack[L].parent) = L - 1
    BY <1>1, <1>2, <1>3 DEF Walk, Branch
  <2> QED
    BY <2>1, <1>1, <1>3, KidsGrow
<1>5. /\ nodes' = [nodes EXCEPT ![q + 1].sub_ent_num = c]
      /\ stack' = SubSeq(stack, 1, L - 1)
      /\ phase' = IF L = 1 THEN "ready" ELSE "parse"
  BY <1>1, <1>2, <1>3, <1>4 DEF Ascend
\* The directory that is left holds something, so that its count is right.
<1>6. \/ p = Len(archive) /\ i = 2 * p + 2
      \/ p < Len(archive) /\ D(p + 1) < L /\ D(p + 1) >= 1
  <2>1. CASE AtEnd
    <3>1. p = Len(archive)
      BY <2>1, <1>1, <1>2, WalkFacts
    <3> QED
      BY <2>1, <3>1, <1>3 DEF AtEnd
  <2>2. CASE i % 2 = 1 /\ Header.depth < Top.depth
    <3>1. p < Len(archive) /\ Header.depth = D(p + 1)
      BY <2>2, <1>1, <1>2, WalkFacts
    <3>2. Top.depth = L
      BY <1>1, <1>2, <1>3 DEF Walk, Branch
    <3>3. p + 1 \in 1 .. Len(archive)
      BY <3>1, <1>3
    <3> QED
      BY <3>1, <3>2, <3>3, <2>2, <1>1, Depths
  <2> QED
    BY <2>1, <2>2, <1>1
<1>7. Kids(q, p) # {}
  <2>1. CASE L = 1
    <3>1. p = Len(archive) /\ 1 \in 1 .. p
      <4>1. p < Len(archive) => D(p + 1) \in Nat
        <5>1. p < Len(archive) => p + 1 \in 0 .. Len(archive)
          BY <1>3
        <5> QED
          BY <5>1, <1>1, Depths
      <4> QED
        BY <4>1, <2>1, <1>3, <1>6
    <3>2. q = 0
      <4>1. q # 0 => q \in 1 .. Len(archive)
        BY <1>3, <1>4
      <4>2. q # 0 => D(q) >= 1
        BY <4>1, <1>1, Depths
      <4> QED
        BY <4>2, <2>1, <1>4
    <3>3. 1 \in Kids(0, Len(archive))
      BY <1>1, <1>3, FirstEntry
    <3> QED
      BY <3>1, <3>2, <3>3
  <2>2. CASE L # 1
    <3>1. L \in 2 .. L
      BY <2>2, <1>3
    <3> QED
      BY <3>1, <1>1, <1>2, <1>3, <1>4, <1>6 DEF Walk, NoneEmpty
  <2> QED
    BY <2>1, <2>2
<1>8. /\ nodes' \in Seq(Node) /\ Len(nodes') = p + 1
      /\ \A n \in 0 .. p : /\ nodes'[n + 1].name = nodes[n + 1].name /\ nodes'[n + 1].dir = nodes[n + 1].dir
                           /\ n # q => nodes'[n + 1] = nodes[n + 1]
      /\ nodes'[q + 1].sub_ent_num = c
  <2>1. PICK nd \in Node : nd = nodes[q + 1]
    BY <1>3, <1>4
  <2>2. [nd EXCEPT !.sub_ent_num = c] \in Node
    BY DEF Node
  <2>3. nodes' = [nodes EXCEPT ![q + 1] = [nd EXCEPT !.sub_ent_num = c]]
    BY <1>5, <2>1
  <2>4. nodes' \in Seq(Node) /\ Len(nodes') = p + 1
    BY <2>2, <2>3, <1>3, <1>4, ExceptSeq
  <2>5. q + 1 \in DOMAIN nodes /\ \A n \in 0 .. p : n + 1 \in DOMAIN nodes /\ (n + 1 = q + 1 => n = q)
    BY <1>3, <1>4
  <2>6. nodes'[q + 1] = [nd EXCEPT !.sub_ent_num = c] /\ \A n \in 0 .. p : n # q => nodes'[n + 1] = nodes[n + 1]
    BY <2>3, <2>5
  <2> QED
    BY <2>1, <2>4, <2>6 DEF Node
<1>9. Passed' = p
  BY <1>8 DEF Passed
<1>10. /\ stack' \in Seq(Frame) /\ Len(stack') = L - 1
       /\ \A l \in 1 .. L - 1 : stack'[l] = stack[l] /\ l \in 1 .. L
  <2>1. PICK st \in Seq(Frame) : st = stack /\ Len(st) = L
    BY <1>3
  <2>2. \A l \in 1 .. L - 1 : l \in 1 .. L
    BY <1>3
  <2>3. /\ SubSeq(st, 1, L - 1) \in Seq(Frame) /\ Len(SubSeq(st, 1, L - 1)) = L - 1
        /\ \A l \in 1 .. L - 1 : SubSeq(st, 1, L - 1)[l] = st[l]
    BY <2>1, <1>3
  <2> QED
    BY <2>1, <2>2, <2>3, <1>5
<1>11. NodesMatch'
  <2>1. /\ nodes[1].dir
        /\ \A k \in 1 .. p : nodes[k + 1].name = archive[k].name /\ nodes[k + 1].dir = archive[k].dir
    BY <1>1, <1>2 DEF Walk, NodesMatch
  <2>2. nodes'[1].dir = nodes[1].dir
    <3>1. 0 \in 0 .. p /\ 0 + 1 = 1
      OBVIOUS
    <3> QED
      BY <3>1, <1>8
  <2>3. \A k \in 1 .. p : nodes'[k + 1].name = archive[k].name /\ nodes'[k + 1].dir = archive[k].dir
    BY <2>1, <1>8
  <2> QED
    BY <2>1, <2>2, <2>3, <1>1, <1>3, <1>8, <1>9 DEF NodesMatch, NodeSeq
<1>12. ASSUME NEW n \in 0 .. p, \A l \in 1 .. L - 1 : stack'[l].parent # n
       PROVE  Settled(n, Passed)'
  <2>1. nodes'[n + 1].sub_ent_num = IF IsDir(n) /\ Kids(n, p) = {} THEN Uninit ELSE Cardinality(Kids(n, p))
    <3>1. CASE n = q
      BY <3>1, <1>4, <1>7, <1>8
    <3>2. CASE n # q
      <4>1. \A l \in 1 .. L : stack[l].parent # n
        <5> TAKE l \in 1 .. L
        <5>1. l = L \/ l \in 1 .. L - 1
          BY <1>3
        <5> QED
          BY <5>1, <3>2, <1>4, <1>10, <1>12
      <4>2. Settled(n, p)
        BY <4>1, <1>1, <1>2 DEF Walk
      <4> QED
        BY <4>2, <3>2, <1>8 DEF Settled
    <3> QED
      BY <3>1, <3>2
  <2> QED
    BY <2>1, <1>1, <1>9, SameArchive DEF Settled
<1>13. CASE L = 1
  <2>1. \A n \in 0 .. p : Settled(n, Passed)'
    BY <1>12, <1>13
  <2>2. p = Len(archive) /\ i = 2 * p + 2
    <3>1. p < Len(archive) => D(p + 1) \in Nat
      <4>1. p < Len(archive) => p + 1 \in 0 .. Len(archive)
        BY <1>3
      <4> QED
        BY <4>1, <1>1, Depths
    <3> QED
      BY <3>1, <1>6, <1>13
  <2>3. Counted'
    BY <2>1, <2>2, <1>1, <1>9, <1>11 DEF Counted, Walk
  <2>4. phase' = "ready"
    BY <1>5, <1>13
  <2> QED
    BY <2>3, <2>4, <1>1, SameArchive DEF RInv
<1>14. CASE L # 1
  <2>1. Branch'
    <3>1. \A l \in 1 .. L - 1 :
            /\ stack'[l].depth = l
            /\ stack'[l].parent \in 0 .. p /\ D(stack'[l].parent) = l - 1
            /\ \A h \in stack'[l].parent + 1 .. p : D(h) >= l
            /\ stack'[l].sub_ent_num = Cardinality(Kids(stack'[l].parent, p))
      BY <1>1, <1>2, <1>10 DEF Walk, Branch
    <3>2. L - 1 >= 1
      BY <1>3, <1>14
    <3>3. \A n, m : D(n)' = D(n) /\ Kids(n, m)' = Kids(n, m)
      BY <1>1, SameArchive
    <3>4. stack' \in Frames /\ Len(stack') = L - 1
      BY <1>10 DEF Frames
    <3> QED
      BY <3>1, <3>2, <3>3, <3>4, <1>9 DEF Branch
  <2>2. NoneEmpty'
    <3>1. ASSUME NEW l \in 2 .. L - 1 PROVE Kids(stack'[l].parent, p) # {}
      <4>1. l \in 1 .. L - 1 /\ l \in 2 .. L /\ l # L
        BY <1>3
      <4> QED
        BY <4>1, <1>1, <1>2, <1>10 DEF Walk, NoneEmpty
    <3> QED
      BY <3>1, <1>1, <1>9, <1>10, SameArchive DEF NoneEmpty
  <2>3. ~(p < Len(archive) /\ D(p + 1) > L - 1)
    <3>1. p < Len(archive) => D(p + 1) \in Nat
      <4>1. p < Len(archive) => p + 1 \in 0 .. Len(archive)
        BY <1>3
      <4> QED
        BY <4>1, <1>1, Depths
    <3> QED
      BY <3>1, <1>3, <1>6
  <2>4. Walk'
    <3>1. /\ archive # <<>> /\ i \in {2 * p + 2, 2 * p + 3} /\ (i = 2 * p + 3 => p < Len(archive))
      BY <1>1, <1>2 DEF Walk
    <3> QED
      BY <3>1, <2>1, <2>2, <2>3, <1>1, <1>9, <1>10, <1>11, <1>12, SameArchive DEF Walk
  <2>5. phase' = "parse"
    BY <1>5, <1>14
  <2> QED
    BY <2>4, <2>5, <1>1, SameArchive DEF RInv, Parsed
<1> QED
  BY <1>13, <1>14

----------------------------------------------------------------------------
\* The nodes are in order, and directories are read.

LEMMA CountedFacts ==
    ASSUME ArchiveOK, Counted
    PROVE  /\ Len(archive) \in Nat /\ Passed = Len(archive) /\ Len(nodes) = Len(archive) + 1
           /\ i = 2 * Len(archive) + 2
           /\ \A n \in 0 .. Len(archive) :
                /\ nodes[n + 1].dir = IsDir(n)
                /\ Children(n) = Kids(n, Len(archive))
                /\ IsFiniteSet(Children(n)) /\ Cardinality(Children(n)) \in Nat
                /\ n \in EmptyDirs <=> (IsDir(n) /\ Children(n) = {})
                /\ nodes[n + 1].sub_ent_num = IF n \in EmptyDirs THEN Uninit ELSE Cardinality(Children(n))
<1>1. Len(archive) \in Nat /\ DOMAIN archive = 1 .. Len(archive)
  BY Depths
<1>2. Passed = Len(archive) /\ Len(nodes) \in Nat /\ nodes \in Seq(Node) /\ i = 2 * Len(archive) + 2
  BY DEF Counted, NodesMatch, NodeSeq
<1>3. Len(nodes) = Len(archive) + 1
  BY <1>1, <1>2 DEF Passed
<1>4. 1 \in Kids(0, Len(archive))
  <2>1. archive # <<>> /\ archive \in Seq(Entry)
    BY DEF Counted, ArchiveOK, Archive
  <2>2. Len(archive) # 0
    BY <2>1
  <2> QED
    BY <2>2, FirstEntry
<1>5. ASSUME NEW n \in 0 .. Len(archive)
      PROVE  /\ nodes[n + 1].dir = IsDir(n)
             /\ Children(n) = Kids(n, Len(archive))
             /\ IsFiniteSet(Children(n)) /\ Cardinality(Children(n)) \in Nat
             /\ n \in EmptyDirs <=> (IsDir(n) /\ Children(n) = {})
             /\ nodes[n + 1].sub_ent_num = IF n \in EmptyDirs THEN Uninit ELSE Cardinality(Children(n))
  <2>1. Children(n) = Kids(n, Len(archive))
    BY <1>1 DEF Children, Kids
  <2>2. IsFiniteSet(Children(n)) /\ Cardinality(Children(n)) \in Nat
    <3>1. Len(archive) \in 0 .. Len(archive)
      BY <1>1
    <3> QED
      BY <2>1, <3>1, KidsGrow
  <2>3. n \in EmptyDirs <=> (IsDir(n) /\ Children(n) = {})
    <3>1. CASE n = 0
      <4>1. n \notin EmptyDirs
        BY <3>1, <1>1 DEF EmptyDirs
      <4> QED
        BY <4>1, <3>1, <2>1, <1>4
    <3>2. CASE n # 0
      <4>1. n \in DOMAIN archive
        BY <3>2, <1>1
      <4> QED
        BY <4>1, <3>2 DEF EmptyDirs, IsDir
    <3> QED
      BY <3>1, <3>2
  <2>4. Settled(n, Len(archive))
    BY <1>2 DEF Counted
  <2>5. nodes[n + 1].dir = IsDir(n)
    <3>1. CASE n = 0
      <4>1. nodes[1] \in Node /\ nodes[1].dir
        BY <1>1, <1>2, <1>3 DEF Counted, NodesMatch
      <4> QED
        BY <4>1, <3>1 DEF IsDir, Node
    <3>2. CASE n # 0
      <4>1. n \in 1 .. Passed /\ archive[n] \in Entry
        BY <3>2, <1>1, <1>2, Depths
      <4> QED
        BY <4>1, <3>2 DEF Counted, NodesMatch, IsDir, Entry
    <3> QED
      BY <3>1, <3>2
  <2> QED
    BY <2>1, <2>2, <2>3, <2>4, <2>5 DEF Settled
<1> QED
  BY <1>1, <1>2, <1>3, <1>5

\* An entry of the directory that is read, after the one just given, is not among
\* the nodes that are passed: they lie between the two.
LEMMA SkipsNone ==
    ASSUME ArchiveOK, NEW n \in 0 .. Len(archive), NEW e \in 1 .. Len(archive), n < e,
           NEW k \in Kids(n, Len(archive)), e < k
    PROVE  e + Cardinality(Kids(e, Len(archive))) < k
<1>1. /\ Len(archive) \in Nat /\ Len(archive) \in 0 .. Len(archive)
      /\ \A m \in 0 .. Len(archive) : D(m) \in Nat
  BY Depths
<1>2. k \in 1 .. Len(archive) /\ IsParent(k, n) /\ Parent(k) = n
  <2>1. n \in Nat
    BY <1>1
  <2> QED
    BY <2>1, <1>1, KidsAfter DEF Kids
<1>3. D(e) >= D(k)
  BY <1>1, <1>2 DEF IsParent
<1>4. ASSUME NEW c \in Kids(e, Len(archive)) PROVE c \in e + 1 .. k - 1
  <2>1. c > e /\ c \in 1 .. Len(archive) /\ IsParent(c, e) /\ Parent(c) = e
    <3>1. e \in Nat
      BY <1>1
    <3> QED
      BY <3>1, <1>1, KidsAfter DEF Kids
  <2>2. c # k
    BY <2>1, <1>2
  <2>3. ~(c > k)
    <3>1. SUFFICES ASSUME c > k PROVE FALSE
      OBVIOUS
    <3>2. k \in e + 1 .. c - 1
      BY <3>1, <2>1, <1>2
    <3>3. D(k) >= D(c) /\ D(e) < D(c)
      BY <3>2, <2>1 DEF IsParent
    <3>4. D(k) \in Nat /\ D(c) \in Nat /\ D(e) \in Nat
      BY <1>1, <1>2, <2>1
    <3> QED
      BY <3>3, <3>4, <1>3
  <2> QED
    BY <2>1, <2>2, <2>3, <1>2
<1>5. Kids(e, Len(archive)) \in SUBSET (e + 1 .. k - 1)
  BY <1>4
<1>6. IsFiniteSet(e + 1 .. k - 1) /\ Cardinality(e + 1 .. k - 1) = k - 1 - e
  <2>1. e + 1 \in Int /\ k - 1 \in Int /\ e + 1 <= k
    BY <1>2
  <2>2. /\ IsFiniteSet(e + 1 .. k - 1)
        /\ Cardinality(e + 1 .. k - 1) = IF e + 1 > k - 1 THEN 0 ELSE k - 1 - (e + 1) + 1
    BY <2>1, FS_Interval
  <2> QED
    BY <2>1, <2>2, <1>1, <1>2
<1>7. Cardinality(Kids(e, Len(archive))) <= k - 1 - e
  <2>1. PICK S : S = e + 1 .. k - 1 /\ IsFiniteSet(S) /\ Cardinality(S) = k - 1 - e
    BY <1>6
  <2>2. Kids(e, Len(archive)) \in SUBSET S
    BY <2>1, <1>5
  <2> QED
    BY <2>1, <2>2, FS_Subset
<1>8. Cardinality(Kids(e, Len(archive))) \in Nat
  BY <1>1, KidsGrow
<1> QED
  BY <1>2, <1>7, <1>8

LEMMA ReadNext ==
    ASSUME ArchiveOK, Counted, Cursor, ~ReadEnds, readdir
    PROVE  /\ Ent \in 1 .. Len(archive) /\ dir.node \in 0 .. Len(archive) /\ dir.node < Ent
           /\ dir' \in OpenDirs /\ dir'.node = dir.node /\ dir'.offset >= 1
           /\ dir'.gave = Append(dir.gave, Ent)
           /\ EmptyDirs = {} => dir'.offset = dir.offset + Cardinality(Kids(Ent, Len(archive))) + 1
<1>1. PICK n \in Nat, o \in Nat, g \in Seq(Nat) :
        dir = [node |-> n, offset |-> o, gave |-> g] /\ n <= Len(archive) /\ o >= 1
  BY DEF Cursor, OpenDirs
<1>2. dir.node = n /\ dir.offset = o /\ dir.gave = g /\ Ent = n + o
  BY <1>1 DEF Ent
<1>3. Len(archive) \in Nat /\ rd_entry_num = Len(archive) + 1
  BY CountedFacts DEF rd_entry_num
<1>4. Ent \in 1 .. Len(archive) /\ n \in 0 .. Len(archive) /\ n < Ent
  BY <1>1, <1>2, <1>3 DEF ReadEnds
<1>5. PICK t \in NextOffsets : dir' = [dir EXCEPT !.offset = t, !.gave = Append(@, Ent)]
  BY DEF readdir
<1>6. dir' = [node |-> n, offset |-> t, gave |-> Append(g, Ent)]
  BY <1>1, <1>5
<1> DEFINE sub == nodes[Ent + 1].sub_ent_num
<1>7. /\ Ent \in EmptyDirs => sub = Uninit
      /\ Ent \notin EmptyDirs => sub \in Nat /\ sub = Cardinality(Kids(Ent, Len(archive)))
  <2>1. Ent \in 0 .. Len(archive)
    BY <1>3, <1>4
  <2> QED
    BY <2>1, CountedFacts
<1>8. \E c \in IF sub = Uninit THEN Garbage ELSE {sub} : t = o + c + 1
  BY <1>2, <1>5 DEF NextOffsets
<1> HIDE DEF sub
<1>9. PICK c \in Nat : t = o + c + 1 /\ (Ent \notin EmptyDirs => c = Cardinality(Kids(Ent, Len(archive))))
  BY <1>7, <1>8, InitrdAssumption DEF Uninit
<1>10. t \in Nat /\ t >= 1 /\ Append(g, Ent) \in Seq(Nat)
  <2>1. Ent \in Nat
    BY <1>4
  <2> QED
    BY <2>1, <1>9
<1> QED
  BY <1>2, <1>4, <1>6, <1>9, <1>10 DEF OpenDirs

\* What reading has still ahead stays ahead when the entry given is not it.
LEMMA StaysAhead ==
    ASSUME ArchiveOK, Counted, Cursor, ~ReadEnds, readdir, EmptyDirs = {},
           NEW k \in Kids(dir.node, Len(archive)), Ent < k
    PROVE  dir'.node + dir'.offset <= k
<1>1. PICK n \in 0 .. Len(archive), e \in 1 .. Len(archive) :
        /\ n = dir.node /\ e = Ent /\ n < e
        /\ dir'.node = n /\ dir'.offset = dir.offset + Cardinality(Kids(e, Len(archive))) + 1
  BY ReadNext
<1>2. e + Cardinality(Kids(e, Len(archive))) < k
  BY <1>1, SkipsNone
<1>3. PICK c \in Nat : c = Cardinality(Kids(e, Len(archive)))
  <2>1. Len(archive) \in 0 .. Len(archive)
    BY Depths
  <2> QED
    BY <2>1, KidsGrow
<1>4. e = n + dir.offset /\ dir.offset \in Nat /\ k \in Nat
  BY <1>1 DEF Ent, Kids, Cursor, OpenDirs
<1>5. PICK o \in Nat : o = dir.offset
  BY <1>4
<1>6. n \in Nat /\ e \in Nat /\ e = n + o /\ dir'.node = n /\ dir'.offset = o + c + 1 /\ e + c < k
  <2>1. n \in Nat /\ e \in Nat
    BY Depths
  <2> QED
    BY <2>1, <1>1, <1>2, <1>3, <1>4, <1>5
<1> QED
  BY <1>4, <1>6

----------------------------------------------------------------------------
\* Paths.  PathTo is defined by recursion over the archive; it exists because a
\* directory comes before what it holds.

PathSeq == Seq(Names)
PathsUpTo(m, g) ==
    /\ g \in [0 .. m -> PathSeq]
    /\ \A k \in 0 .. m : g[k] = IF k = 0 THEN <<>> ELSE Append(g[Parent(k)], archive[k].name)

LEMMA PathsExist ==
    ASSUME ArchiveOK
    PROVE  \E g : PathsUpTo(Len(archive), g)
<1> DEFINE Bad == {m \in 0 .. Len(archive) : ~\E g : PathsUpTo(m, g)}
<1>1. Len(archive) \in Nat
  BY Depths
<1>2. SUFFICES Bad = {}
  BY <1>1
<1>3. SUFFICES ASSUME Bad # {} PROVE FALSE
  OBVIOUS
<1>4. Bad \in SUBSET Nat
  BY <1>1
<1>5. PICK m \in Bad : \A x \in Bad : m <= x
  BY <1>3, <1>4, LeastOf
<1>6. m \in 0 .. Len(archive) /\ ~\E g : PathsUpTo(m, g)
  BY <1>5
<1>7. CASE m = 0
  <2>1. PathsUpTo(0, [k \in 0 .. 0 |-> <<>>])
    BY DEF PathsUpTo, PathSeq
  <2> QED
    BY <2>1, <1>6, <1>7
<1>8. CASE m # 0
  <2>1. m - 1 \in 0 .. Len(archive) /\ m - 1 \notin Bad
    BY <1>1, <1>5, <1>6, <1>8
  <2>2. PICK g : PathsUpTo(m - 1, g)
    BY <2>1
  <2>3. /\ g \in [0 .. m - 1 -> PathSeq]
        /\ \A k \in 0 .. m - 1 : g[k] = IF k = 0 THEN <<>> ELSE Append(g[Parent(k)], archive[k].name)
    BY <2>2 DEF PathsUpTo
  <2>4. \A k \in 1 .. m : k \in 1 .. Len(archive) /\ Parent(k) \in 0 .. m - 1 /\ archive[k].name \in Names
    <3> TAKE k \in 1 .. m
    <3>1. k \in 1 .. Len(archive)
      BY <1>1, <1>6
    <3>2. Parent(k) \in 0 .. k - 1
      BY <3>1, ParentIs DEF IsParent
    <3>3. archive[k] \in Entry
      BY <3>1, Depths
    <3> QED
      BY <3>1, <3>2, <3>3, <1>1, <1>6 DEF Entry
  <2>5. PICK last \in PathSeq : last = Append(g[Parent(m)], archive[m].name)
    <3>1. m \in 1 .. m
      BY <1>1, <1>6, <1>8
    <3>2. g[Parent(m)] \in Seq(Names) /\ archive[m].name \in Names
      BY <3>1, <2>3, <2>4 DEF PathSeq
    <3>3. Append(g[Parent(m)], archive[m].name) \in Seq(Names)
      BY <3>2
    <3> QED
      BY <3>3 DEF PathSeq
  <2> DEFINE f == [k \in 0 .. m |-> IF k = m THEN last ELSE g[k]]
  <2>6. f \in [0 .. m -> PathSeq]
    BY <2>3, <2>5, <1>1, <1>6
  <2>7. /\ f[m] = last
        /\ \A k \in 0 .. m - 1 : f[k] = g[k]
    BY <1>1, <1>6
  <2> HIDE DEF f
  <2>8. ASSUME NEW k \in 0 .. m
        PROVE  f[k] = IF k = 0 THEN <<>> ELSE Append(f[Parent(k)], archive[k].name)
    <3>1. CASE k = m
      <4>1. m \in 1 .. m
        BY <1>1, <1>6, <1>8
      <4>2. f[Parent(m)] = g[Parent(m)]
        BY <4>1, <2>4, <2>7
      <4> QED
        BY <4>2, <3>1, <1>8, <2>5, <2>7
    <3>2. CASE k = 0
      <4>1. 0 \in 0 .. m - 1
        BY <1>1, <1>6, <1>8
      <4> QED
        BY <4>1, <3>2, <2>3, <2>7
    <3>3. CASE k # m /\ k # 0
      <4>1. k \in 0 .. m - 1 /\ k \in 1 .. m
        BY <3>3, <1>1, <1>6
      <4>2. f[Parent(k)] = g[Parent(k)] /\ f[k] = g[k]
        BY <4>1, <2>4, <2>7
      <4> QED
        BY <4>1, <4>2, <3>3, <2>3
    <3> QED
      BY <3>1, <3>2, <3>3
  <2>9. PathsUpTo(m, f)
    BY <2>6, <2>8 DEF PathsUpTo
  <2> QED
    BY <2>9, <1>6
<1> QED
  BY <1>7, <1>8

LEMMA PathToIs == ASSUME ArchiveOK PROVE PathsUpTo(Len(archive), PathTo)
<1> DEFINE N == Len(archive)
           Def(f) == f = [k \in 0 .. Len(archive) |->
                             IF k = 0 THEN <<>> ELSE Append(f[Parent(k)], archive[k].name)]
<1>1. PICK g : PathsUpTo(N, g)
  BY PathsExist
<1>2. Def(g)
  BY <1>1 DEF PathsUpTo
<1>3. PathTo = CHOOSE f : Def(f)
  BY DEF PathTo
<1>4. Def(PathTo)
  <2> HIDE DEF Def
  <2> QED
    BY <1>2, <1>3
<1>5. DOMAIN PathTo = 0 .. N /\ PathTo = [k \in 0 .. N |-> PathTo[k]]
  BY <1>4
<1>6. \A k \in 0 .. N : PathTo[k] = IF k = 0 THEN <<>> ELSE Append(PathTo[Parent(k)], archive[k].name)
  BY <1>4
<1>7. \A k \in 0 .. N : g[k] = IF k = 0 THEN <<>> ELSE Append(g[Parent(k)], archive[k].name)
  BY <1>1 DEF PathsUpTo
<1> DEFINE Bad == {k \in 0 .. N : PathTo[k] # g[k]}
<1>8. Bad = {}
  <2>1. SUFFICES ASSUME Bad # {} PROVE FALSE
    OBVIOUS
  <2>2. N \in Nat
    BY Depths
  <2>3. Bad \in SUBSET Nat
    BY <2>2
  <2>4. PICK k \in Bad : \A x \in Bad : k <= x
    BY <2>1, <2>3, LeastOf
  <2>5. k # 0 /\ k \in 0 .. N
    BY <2>4, <1>6, <1>7
  <2>6. k \in 1 .. N
    BY <2>2, <2>5
  <2>7. Parent(k) \in 0 .. k - 1
    BY <2>6, ParentIs DEF IsParent
  <2>8. Parent(k) \in 0 .. N /\ Parent(k) \notin Bad
    BY <2>2, <2>4, <2>6, <2>7
  <2>9. PathTo[Parent(k)] = g[Parent(k)]
    BY <2>8
  <2> QED
    BY <2>9, <2>4, <2>5, <1>6, <1>7
<1>9. \A k \in 0 .. N : PathTo[k] \in PathSeq
  BY <1>1, <1>8 DEF PathsUpTo
<1> HIDE DEF N
<1>10. PathTo \in [0 .. N -> PathSeq]
  BY <1>5, <1>9
<1> QED
  BY <1>6, <1>10 DEF PathsUpTo, N

LEMMA SamePaths == ASSUME archive' = archive PROVE PathTo' = PathTo
BY DEF PathTo, Parent

\* The directory of an entry is one level up.
LEMMA ParentDepth ==
    ASSUME ArchiveOK, NEW k \in 1 .. Len(archive)
    PROVE  D(k) = D(Parent(k)) + 1 /\ Parent(k) \in 0 .. k - 1 /\ IsDir(Parent(k))
<1>1. /\ Len(archive) \in Nat /\ k \in Nat
      /\ \A n \in 0 .. Len(archive) : D(n) \in Nat
  BY Depths
<1>2. PICK n \in 0 .. k - 1 : n = Parent(k) /\ D(n) < D(k) /\ \A h \in n + 1 .. k - 1 : D(h) >= D(k)
  BY ParentIs DEF IsParent
<1>3. n + 1 \in 1 .. Len(archive) /\ n + 1 - 1 = n /\ n \in 0 .. Len(archive) /\ n + 1 \in 0 .. Len(archive)
      /\ k \in 0 .. Len(archive)
  BY <1>1, <1>2
<1>4. D(n + 1) >= D(k)
  <2>1. n + 1 = k \/ n + 1 \in n + 1 .. k - 1
    BY <1>1, <1>2
  <2> QED
    BY <2>1, <1>1, <1>2, <1>3
<1>5. D(n + 1) > D(n) => D(n + 1) = D(n) + 1 /\ IsDir(n)
  BY <1>3 DEF ArchiveOK
<1>6. D(n) \in Nat /\ D(n + 1) \in Nat /\ D(k) \in Nat
  BY <1>1, <1>3
<1> QED
  BY <1>2, <1>4, <1>5, <1>6

LEMMA PathLength ==
    ASSUME ArchiveOK, NEW k \in 0 .. Len(archive)
    PROVE  PathTo[k] \in PathSeq /\ Len(PathTo[k]) = D(k)
<1> DEFINE Bad == {n \in 0 .. Len(archive) : Len(PathTo[n]) # D(n)}
<1>1. Len(archive) \in Nat /\ D(0) = 0
  BY Depths
<1>2. /\ \A n \in 0 .. Len(archive) : PathTo[n] \in PathSeq
      /\ \A n \in 0 .. Len(archive) : PathTo[n] = IF n = 0 THEN <<>> ELSE Append(PathTo[Parent(n)], archive[n].name)
  BY PathToIs DEF PathsUpTo
<1>3. Bad = {}
  <2>1. SUFFICES ASSUME Bad # {} PROVE FALSE
    OBVIOUS
  <2>2. Bad \in SUBSET Nat
    BY <1>1
  <2>3. PICK n \in Bad : \A x \in Bad : n <= x
    BY <2>1, <2>2, LeastOf
  <2>4. n # 0 /\ n \in 0 .. Len(archive)
    BY <2>3, <1>1, <1>2
  <2>5. n \in 1 .. Len(archive)
    BY <2>4, <1>1
  <2>6. PICK q \in 0 .. n - 1 : q = Parent(n) /\ D(n) = D(q) + 1
    BY <2>5, ParentDepth
  <2>7. q \in 0 .. Len(archive) /\ q \notin Bad
    BY <2>3, <2>5, <2>6, <1>1
  <2>8. Len(PathTo[q]) = D(q) /\ PathTo[q] \in Seq(Names) /\ archive[n].name \in Names
    <3>1. archive[n] \in Entry
      BY <2>5, Depths
    <3> QED
      BY <3>1, <2>7, <1>2 DEF PathSeq, Entry
  <2>9. PathTo[n] = Append(PathTo[q], archive[n].name)
    BY <2>4, <2>6, <1>2
  <2>10. Len(PathTo[n]) = D(q) + 1
    <3>1. PICK t \in Seq(Names), x \in Names : t = PathTo[q] /\ x = archive[n].name
      BY <2>8
    <3>2. Len(Append(t, x)) = Len(t) + 1
      OBVIOUS
    <3> QED
      BY <3>1, <3>2, <2>8, <2>9
  <2> QED
    BY <2>10, <2>6, <2>3
<1> QED
  BY <1>2, <1>3

\* The path of an entry passes through the entries above it.
LEMMA PathThrough ==
    ASSUME ArchiveOK, NEW b \in 1 .. Len(archive), NEW k \in 1 .. Len(archive), Above(b, k)
    PROVE  PathTo[k][D(b)] = archive[b].name /\ IsPrefix(PathTo[b], PathTo[k])
<1> DEFINE Through(n) == /\ Len(PathTo[n]) >= D(b)
                         /\ \A l \in 1 .. D(b) : PathTo[n][l] = PathTo[b][l]
           Bad == {n \in 1 .. Len(archive) : Above(b, n) /\ ~Through(n)}
<1>1. Len(archive) \in Nat
  BY Depths
<1>2. \A n \in 0 .. Len(archive) : D(n) \in Nat /\ PathTo[n] \in Seq(Names) /\ Len(PathTo[n]) = D(n)
  BY Depths, PathLength DEF PathSeq
<1>3. \A n \in 1 .. Len(archive) : PathTo[n] = Append(PathTo[Parent(n)], archive[n].name)
  BY <1>1, PathToIs DEF PathsUpTo
<1>4. b \in 0 .. Len(archive) /\ k \in 0 .. Len(archive) /\ D(b) \in Nat /\ b \in Nat /\ D(b) >= 1
  BY <1>1, <1>2, Depths
<1>5. Bad = {}
  <2>1. SUFFICES ASSUME Bad # {} PROVE FALSE
    OBVIOUS
  <2>2. Bad \in SUBSET Nat
    BY <1>1
  <2>3. PICK n \in Bad : \A x \in Bad : n <= x
    BY <2>1, <2>2, LeastOf
  <2>4. n \in 1 .. Len(archive) /\ Above(b, n) /\ ~Through(n)
    BY <2>3
  <2>5. n # b
    BY <2>4, <1>2, <1>4
  <2>6. b < n /\ D(b) < D(n) /\ \A h \in b + 1 .. n : D(b) < D(h)
    BY <2>4, <2>5, <1>1, <1>4 DEF Above
  <2>7. PICK q \in 0 .. n - 1 : q = Parent(n) /\ D(n) = D(q) + 1 /\ \A h \in q + 1 .. n - 1 : D(h) >= D(n)
    BY <2>4, ParentDepth, ParentIs DEF IsParent
  <2>8. q \in 0 .. Len(archive) /\ q < n
    BY <2>4, <2>7, <1>1
  <2>9. b <= q
    <3>1. SUFFICES ASSUME q < b PROVE FALSE
      BY <1>4, <2>7
    <3>2. b \in q + 1 .. n - 1
      BY <3>1, <2>4, <2>6, <1>4
    <3>3. D(n) \in Nat
      BY <2>4, <1>1, <1>2
    <3> QED
      BY <3>2, <3>3, <2>6, <2>7, <1>4
  <2>10. Above(b, q) /\ q \in 1 .. Len(archive)
    BY <2>6, <2>7, <2>8, <2>9, <1>1, <1>4 DEF Above
  <2>11. Through(q)
    BY <2>3, <2>8, <2>10
  <2>12. PathTo[n] = Append(PathTo[q], archive[n].name) /\ PathTo[q] \in Seq(Names) /\ archive[n].name \in Names
    <3>1. archive[n] \in Entry
      BY <2>4, Depths
    <3> QED
      BY <3>1, <2>4, <2>7, <2>8, <1>2, <1>3 DEF Entry
  <2>13. /\ Len(PathTo[n]) = Len(PathTo[q]) + 1
         /\ \A l \in 1 .. Len(PathTo[q]) : PathTo[n][l] = PathTo[q][l]
    BY <2>12
  <2>14. Len(PathTo[q]) \in Nat
    BY <2>12
  <2>15. Through(n)
    BY <2>11, <2>13, <2>14, <1>4
  <2> QED
    BY <2>4, <2>15
<1>6. Through(k)
  BY <1>5
<1>7. PathTo[b][D(b)] = archive[b].name
  <2>1. PICK q \in 0 .. b - 1 : q = Parent(b) /\ D(b) = D(q) + 1
    BY ParentDepth
  <2>2. q \in 0 .. Len(archive)
    BY <1>1, <1>4, <2>1
  <2>3. PathTo[q] \in Seq(Names) /\ Len(PathTo[q]) = D(q) /\ PathTo[b] = Append(PathTo[q], archive[b].name)
    BY <2>1, <2>2, <1>2, <1>3
  <2>4. archive[b].name \in Names
    <3>1. archive[b] \in Entry
      BY Depths
    <3> QED
      BY <3>1 DEF Entry
  <2> QED
    BY <2>1, <2>3, <2>4
<1>8. PathTo[k][D(b)] = archive[b].name
  BY <1>4, <1>6, <1>7
<1>9. IsPrefix(PathTo[b], PathTo[k])
  <2>1. /\ PathTo[b] \in Seq(Names) /\ PathTo[k] \in Seq(Names) /\ Len(PathTo[b]) = D(b)
        /\ Len(PathTo[k]) >= Len(PathTo[b]) /\ \A l \in 1 .. D(b) : PathTo[k][l] = PathTo[b][l]
    BY <1>2, <1>4, <1>6
  <2> QED
    BY <2>1 DEF IsPrefix
<1> QED
  BY <1>8, <1>9

\* Below a directory above k, the entry on the way to k.
LEMMA NextAbove ==
    ASSUME ArchiveOK, NEW k \in 1 .. Len(archive), NEW a \in 0 .. Len(archive), Above(a, k), a # k
    PROVE  \E b \in a + 1 .. k : Parent(b) = a /\ Above(b, k) /\ D(b) = D(a) + 1 /\ IsDir(a)
<1> DEFINE S == {h \in a + 1 .. k : D(h) = D(a) + 1}
<1>1. /\ Len(archive) \in Nat /\ \A n \in 0 .. Len(archive) : D(n) \in Nat
  BY Depths
<1>2. a \in 0 .. k /\ a < k /\ \A h \in a + 1 .. k : D(a) < D(h)
  BY <1>1 DEF Above
<1>3. a + 1 \in S /\ IsDir(a)
  <2>1. a + 1 \in 1 .. Len(archive) /\ a + 1 - 1 = a /\ a + 1 \in a + 1 .. k
    BY <1>1, <1>2
  <2>2. D(a + 1) > D(a) => D(a + 1) = D(a) + 1 /\ IsDir(a)
    BY <2>1 DEF ArchiveOK
  <2>3. D(a + 1) > D(a)
    <3>1. D(a) \in Nat /\ D(a + 1) \in Nat /\ D(a) < D(a + 1)
      BY <1>1, <1>2, <2>1
    <3> QED
      BY <3>1
  <2> QED
    BY <2>1, <2>2, <2>3
<1>4. S \in SUBSET (0 .. k) /\ k \in Nat /\ S # {}
  <2>1. \A h \in a + 1 .. k : h \in 0 .. k
    BY <1>2
  <2> QED
    BY <2>1, <1>3
<1>5. PICK b \in S : \A h \in S : h <= b
  <2> HIDE DEF S
  <2> QED
    BY <1>4, GreatestOf
<1>6. b \in a + 1 .. k /\ D(b) = D(a) + 1 /\ b \in 1 .. Len(archive)
  BY <1>1, <1>5
<1>7. \A h \in a + 1 .. k : h \in 0 .. Len(archive)
  BY <1>1
<1>8. Parent(b) = a
  <2>1. \A h \in a + 1 .. b - 1 : h \in a + 1 .. k /\ D(h) \in Nat /\ D(a) < D(h)
    BY <1>1, <1>2, <1>6, <1>7
  <2>2. D(a) \in Nat /\ a \in 0 .. b - 1
    BY <1>1, <1>6
  <2>3. IsParent(b, a)
    BY <2>1, <2>2, <1>6 DEF IsParent
  <2> QED
    BY <2>3, <1>6, ParentOnly
\* The first entry after b that is not below it would be at b's depth.
<1>9. Above(b, k)
  <2> DEFINE T == {h \in b + 1 .. k : ~(D(b) < D(h))}
  <2>1. SUFFICES T = {}
    <3>1. b \in 0 .. k
      BY <1>1, <1>6
    <3> QED
      BY <3>1 DEF Above
  <2>2. ASSUME NEW h \in T PROVE FALSE
    <3>1. h \in a + 1 .. k /\ h > b /\ ~(D(b) < D(h))
      BY <1>1, <1>6
    <3>2. D(h) \in Nat /\ D(a) \in Nat /\ D(a) < D(h)
      BY <3>1, <1>1, <1>2, <1>7
    <3>3. D(h) = D(a) + 1
      BY <3>1, <3>2, <1>6
    <3>4. h \in S
      BY <3>1, <3>3
    <3> QED
      BY <3>1, <3>4, <1>1, <1>5, <1>6
  <2> QED
    BY <2>2
<1> QED
  BY <1>3, <1>6, <1>8, <1>9

----------------------------------------------------------------------------
\* The steps on nodes that are in order.

LEMMA Quiet ==
    ASSUME RInv, Parsed, Parsed', UNCHANGED <<archive, i, nodes>>
    PROVE  ArchiveOK' /\ Counted' /\ phase' # "pack" /\ phase' # "parse"
<1>1. ArchiveOK /\ Counted
  BY DEF RInv
<1>2. Passed' = Passed
  BY DEF Passed
<1>3. \A n \in 0 .. Passed : Settled(n, Passed)' = Settled(n, Passed)
  BY <1>2, SameArchive DEF Settled
<1>4. NodesMatch' = NodesMatch
  BY <1>2 DEF NodesMatch
<1> QED
  BY <1>1, <1>2, <1>3, <1>4, SameArchive DEF Counted, Parsed

LEMMA SameLook ==
    ASSUME archive' = archive, look' = look
    PROVE  \A k : Sought(k)' = Sought(k)
<1>1. PathTo' = PathTo
  BY SamePaths
<1>2. \A k, l : Unambiguous(k, l)' = Unambiguous(k, l)
  BY SameArchive DEF Unambiguous, HasPrefix
<1> QED
  BY <1>1, <1>2 DEF Sought

LEMMA OpenDirStep ==
    ASSUME RInv, NEW n \in 0 .. Len(nodes) - 1, OpenDir(n)
    PROVE  RInv'
<1>1. /\ phase = "ready" /\ phase' = "reading" /\ dir' = opendir(n)
      /\ UNCHANGED <<archive, i, nodes>> /\ ArchiveOK /\ Counted
  BY DEF OpenDir, RInv, Parsed
<1>2. ArchiveOK' /\ Counted'
  BY <1>1, Quiet DEF Parsed
<1>3. Len(archive) \in Nat /\ n \in 0 .. Len(archive) /\ n \in Nat /\ Len(archive) \in 0 .. Len(archive)
  BY <1>1, CountedFacts
<1>4. dir'.node = n /\ dir'.offset = 1 /\ dir'.gave = <<>> /\ dir' \in OpenDirs
  BY <1>1, <1>3 DEF opendir, OpenDirs
<1>5. Cursor'
  BY <1>1, <1>3, <1>4 DEF Cursor
<1>6. \A k \in Kids(n, Len(archive)) : k > n /\ k \in 1 .. Len(archive)
  BY <1>1, <1>3, KidsAfter
<1>7. Reading'
  <2>1. \A k \in Kids(n, Len(archive)) : ~(k < n + 1)
    BY <1>3, <1>6
  <2> QED
    BY <2>1, <1>1, <1>4, SameArchive DEF Reading
<1> QED
  BY <1>1, <1>2, <1>5, <1>7 DEF RInv

LEMMA ReadDirStep == ASSUME RInv, ReadDir PROVE RInv'
<1>1. /\ phase = "reading" /\ phase' = "reading" /\ ~ReadEnds /\ readdir
      /\ UNCHANGED <<archive, i, nodes>> /\ ArchiveOK /\ Counted /\ Cursor /\ Reading
  BY DEF ReadDir, RInv, Parsed
<1>2. ArchiveOK' /\ Counted'
  BY <1>1, Quiet DEF Parsed
<1>3. PICK n \in 0 .. Len(archive), e \in 1 .. Len(archive) :
        /\ n = dir.node /\ e = Ent /\ dir' \in OpenDirs /\ dir'.node = n /\ dir'.offset >= 1
        /\ dir'.gave = Append(dir.gave, e)
  BY <1>1, ReadNext
<1>4. Len(archive) \in Nat /\ dir.gave \in Seq(Nat) /\ e \in Nat /\ dir.offset \in Nat /\ e = n + dir.offset
  BY <1>1, <1>3, Depths DEF Cursor, OpenDirs, Ent
<1>5. Cursor'
  BY <1>1, <1>3, <1>4 DEF Cursor
<1>6. Range(dir'.gave) = Range(dir.gave) \cup {e}
  <2>1. PICK g \in Seq(Nat) : g = dir.gave
    BY <1>4
  <2>2. Range(Append(g, e)) = Range(g) \cup {e}
    <3>1. /\ Len(g) \in Nat /\ DOMAIN g = 1 .. Len(g) /\ DOMAIN Append(g, e) = 1 .. Len(g) + 1
          /\ \A j \in 1 .. Len(g) : Append(g, e)[j] = g[j]
          /\ Append(g, e)[Len(g) + 1] = e
      BY <1>4
    <3>2. \A j \in 1 .. Len(g) + 1 : j \in 1 .. Len(g) \/ j = Len(g) + 1
      BY <3>1
    <3>3. \A j \in 1 .. Len(g) : j \in 1 .. Len(g) + 1
      BY <3>1
    <3>4. Len(g) + 1 \in 1 .. Len(g) + 1
      BY <3>1
    <3> QED
      BY <3>1, <3>2, <3>3, <3>4 DEF Range
  <2> QED
    BY <2>1, <2>2, <1>3
<1>7. ASSUME EmptyDirs = {}, NEW k \in Kids(n, Len(archive)), k < n + dir'.offset
      PROVE  k \in Range(dir'.gave)
  <2>1. CASE k < e
    <3>1. k \in Range(dir.gave)
      BY <2>1, <1>1, <1>3, <1>4, <1>7 DEF Reading
    <3> QED
      BY <3>1, <1>6
  <2>2. CASE k = e
    BY <2>2, <1>6
  <2>3. CASE e < k
    <3>1. n + dir'.offset <= k
      BY <2>3, <1>1, <1>3, <1>7, StaysAhead
    <3>2. dir'.offset \in Nat /\ k \in Nat /\ n \in Nat
      BY <1>3, <1>4 DEF OpenDirs, Kids
    <3> QED
      BY <3>1, <3>2, <1>7
  <2>4. k \in Nat
    BY DEF Kids
  <2> QED
    BY <2>1, <2>2, <2>3, <2>4, <1>4
<1>8. Reading'
  BY <1>1, <1>3, <1>7, SameArchive DEF Reading
<1> QED
  BY <1>1, <1>2, <1>5, <1>8 DEF RInv

LEMMA OtherSteps ==
    ASSUME RInv, CloseDir \/ Used \/ UNCHANGED vars
    PROVE  RInv'
<1>1. CASE CloseDir \/ Used
  <2>1. Parsed /\ phase' = "ready" /\ UNCHANGED <<archive, i, nodes>>
    BY <1>1 DEF CloseDir, Used, Parsed
  <2>2. ArchiveOK' /\ Counted'
    BY <2>1, Quiet DEF Parsed
  <2> QED
    BY <2>1, <2>2 DEF RInv
<1>2. CASE UNCHANGED vars
  <2>1. /\ archive' = archive /\ i' = i /\ stack' = stack /\ nodes' = nodes /\ dir' = dir /\ look' = look
        /\ phase' = phase
    BY <1>2 DEF vars
  <2>2. ArchiveOK' = ArchiveOK /\ Fresh' = Fresh /\ Parsed' = Parsed /\ Passed' = Passed
    BY <2>1, SameArchive DEF Fresh, Parsed, Passed
  <2>3. \A n \in 0 .. Passed : Settled(n, Passed)' = Settled(n, Passed)
    BY <2>1, <2>2, SameArchive DEF Settled
  <2>4. NodesMatch' = NodesMatch /\ Branch' = Branch /\ NoneEmpty' = NoneEmpty
    BY <2>1, <2>2, SameArchive DEF NodesMatch, Branch, NoneEmpty
  <2>5. Walk => Walk'
    BY <2>1, <2>2, <2>3, <2>4, SameArchive DEF Walk
  <2>6. Counted => Counted'
    BY <2>1, <2>2, <2>3, <2>4, SameArchive DEF Counted
  <2>7. Cursor' = Cursor /\ Reading' = Reading
    BY <2>1, SameArchive DEF Cursor, Reading
  <2>8. \A k, b : Ahead(k, b)' = Ahead(k, b)
    BY <2>1, SameArchive DEF Ahead, Above
  <2>9. (Looking => Looking') /\ (Found => Found')
    BY <2>1, <2>8, SameArchive, SameLook DEF Looking, Found
  <2> QED
    BY <2>1, <2>2, <2>5, <2>6, <2>7, <2>9 DEF RInv
<1> QED
  BY <1>1, <1>2

----------------------------------------------------------------------------
\* The look-up of a path.

\* Reading up to the entry on the way to k, that entry fits and no other does.
LEMMA FitsOnlyAhead ==
    ASSUME ArchiveOK, Counted, NEW k \in DOMAIN archive, Sought(k), NEW b, Ahead(k, b),
           NEW e \in 1 .. Len(archive), dir.node < e, e <= b
    PROVE  /\ ent_name_eq(e, look.component) <=> e = b
           /\ look.component = Len(look.path) <=> b = k
           /\ b # k => archive[b].dir
<1>1. Len(archive) \in Nat /\ k \in 1 .. Len(archive) /\ \A n \in 0 .. Len(archive) : D(n) \in Nat
  BY Depths
<1>2. /\ b \in 1 .. k /\ Above(b, k) /\ Parent(b) = dir.node /\ D(b) = look.component
  BY DEF Ahead
<1>3. b \in 1 .. Len(archive) /\ b \in 0 .. Len(archive) /\ k \in 0 .. Len(archive) /\ b \in Nat
  BY <1>1, <1>2
<1>4. look.path = PathTo[k] /\ Len(look.path) = D(k)
  BY <1>3, PathLength DEF Sought
<1>5. look.path[look.component] = archive[b].name /\ IsPrefix(PathTo[b], PathTo[k])
  BY <1>1, <1>2, <1>3, <1>4, PathThrough
<1>6. look.component = Len(look.path) <=> b = k
  <2>1. b # k => k \in b + 1 .. k
    BY <1>1, <1>2
  <2>2. b # k => D(b) < D(k)
    BY <2>1, <1>2 DEF Above
  <2> QED
    BY <2>2, <1>1, <1>2, <1>3, <1>4
<1>7. b # k => archive[b].dir
  <2>1. b # k => IsDir(b)
    BY <1>1, <1>2, <1>3, NextAbove
  <2> QED
    BY <2>1, <1>3 DEF IsDir
<1>8. \A n \in 1 .. Len(archive) : nodes[n + 1].name = archive[n].name /\ nodes[n + 1].dir = archive[n].dir
  BY CountedFacts DEF Counted, NodesMatch
<1>9. ent_name_eq(e, look.component) <=>
        HasPrefix(archive[e].name, archive[b].name) /\ (archive[e].dir \/ b = k)
  BY <1>5, <1>6, <1>8 DEF ent_name_eq
<1>10. e = b => ent_name_eq(e, look.component)
  BY <1>7, <1>9 DEF HasPrefix
<1>11. e # b => ~ent_name_eq(e, look.component)
  <2>1. b \in DOMAIN archive
    BY <1>3, Depths
  <2>2. Unambiguous(b, b = k)
    BY <2>1, <1>5 DEF Sought
  <2>3. PICK n \in 0 .. Len(archive) : n = dir.node /\ n = Parent(b)
    <3>1. Parent(b) \in 0 .. b - 1
      BY <1>3, ParentIs DEF IsParent
    <3>2. \A x \in 0 .. b - 1 : x \in 0 .. Len(archive)
      BY <1>1, <1>3
    <3> QED
      BY <3>1, <3>2, <1>2
  <2>4. e # b => e \in n + 1 .. b - 1
    BY <2>3, <1>1, <1>3
  <2>5. e # b => ((archive[e].dir \/ b = k) => ~HasPrefix(archive[e].name, archive[b].name))
    BY <2>2, <2>3, <2>4 DEF Unambiguous
  <2> QED
    BY <2>5, <1>9
<1> QED
  BY <1>6, <1>7, <1>10, <1>11

LEMMA LookUpStep ==
    ASSUME RInv, NEW path \in {PathTo[k] : k \in 0 .. Len(archive)} \cup {<<n>> : n \in Names}, LookUp(path)
    PROVE  RInv'
<1>1. /\ phase = "ready" /\ look' = [path |-> path, component |-> 1, result |-> 0]
      /\ dir' = IF path = <<>> THEN NoDir ELSE opendir(0)
      /\ phase' = IF path = <<>> THEN "found" ELSE "look"
      /\ UNCHANGED <<archive, i, nodes>> /\ ArchiveOK /\ Counted
  BY DEF LookUp, RInv, Parsed
<1>2. ArchiveOK' /\ Counted'
  BY <1>1, Quiet DEF Parsed
<1>3. PathTo' = PathTo /\ look'.path = path
  BY <1>1, SamePaths
<1>4. Len(archive) \in Nat /\ DOMAIN archive = 1 .. Len(archive) /\ D(0) = 0
  BY <1>1, Depths
<1>5. CASE path = <<>>
  <2>1. ASSUME NEW k \in DOMAIN archive PROVE PathTo[k] # <<>>
    <3>1. k \in 0 .. Len(archive) /\ k \in 1 .. Len(archive)
      BY <1>4
    <3>2. Len(PathTo[k]) = D(k) /\ D(k) >= 1 /\ D(k) \in Nat
      BY <3>1, <1>1, PathLength, Depths
    <3>3. Len(<<>>) = 0
      OBVIOUS
    <3> QED
      BY <3>2, <3>3
  <2>2. Found'
    BY <2>1, <1>1, <1>3, <1>5 DEF Found, Sought
  <2>3. phase' = "found"
    BY <1>1, <1>5
  <2> QED
    BY <2>2, <2>3, <1>2 DEF RInv
<1>6. CASE path # <<>>
  <2>1. phase' = "look" /\ dir' = opendir(0)
    BY <1>1, <1>6
  <2>2. dir' \in OpenDirs /\ dir'.node = 0 /\ dir'.offset = 1
    BY <2>1 DEF opendir, OpenDirs
  <2>3. Cursor'
    BY <2>2, <1>1, <1>4 DEF Cursor
  <2>4. path \in Seq(Names)
    <3>1. \A k \in 0 .. Len(archive) : PathTo[k] \in Seq(Names)
      BY <1>1, PathLength DEF PathSeq
    <3>2. \A n \in Names : <<n>> \in Seq(Names)
      OBVIOUS
    <3> QED
      BY <3>1, <3>2
  <2>5. look' \in LookUps /\ look'.component = 1
    BY <1>1, <2>4 DEF LookUps
  <2>6. ASSUME NEW k \in DOMAIN archive PROVE \E b \in 1 .. k : Ahead(k, b)'
    <3>1. k \in 1 .. Len(archive) /\ 0 \in 0 .. Len(archive) /\ 0 # k
      BY <1>4
    <3>2. \A h \in 0 + 1 .. k : h \in 1 .. Len(archive)
      BY <3>1, <1>4
    <3>3. \A h \in 1 .. Len(archive) : D(h) \in Nat /\ D(h) >= 1
      <4> TAKE h \in 1 .. Len(archive)
      <4>1. h \in 0 .. Len(archive)
        BY <1>4
      <4> QED
        BY <4>1, <1>1, Depths
    <3>4. Above(0, k)
      BY <3>1, <3>2, <3>3, <1>4 DEF Above
    <3>5. PICK b \in 0 + 1 .. k : Parent(b) = 0 /\ Above(b, k) /\ D(b) = D(0) + 1
      BY <3>1, <3>4, <1>1, NextAbove
    <3>6. b \in 1 .. k /\ D(b) = 1 /\ 0 + 1 <= b
      BY <3>5, <1>4, <3>1
    <3>7. Above(b, k)' /\ Parent(b)' = 0 /\ D(b)' = 1
      BY <3>5, <3>6, <1>1, SameArchive DEF Above
    <3> QED
      BY <3>6, <3>7, <2>2, <2>5 DEF Ahead
  <2>7. Looking'
    BY <2>5, <2>6, <1>1 DEF Looking
  <2> QED
    BY <2>1, <2>3, <2>7, <1>2 DEF RInv
<1> QED
  BY <1>5, <1>6

LEMMA LookNextStep == ASSUME RInv, LookNext PROVE RInv'
<1>1. /\ phase = "look" /\ phase' = "look" /\ ~ReadEnds /\ readdir /\ ~ent_name_eq(Ent, look.component)
      /\ UNCHANGED <<archive, i, nodes, look>> /\ ArchiveOK /\ Counted /\ Cursor /\ Looking
  BY DEF LookNext, RInv, Parsed
<1>2. ArchiveOK' /\ Counted'
  BY <1>1, Quiet DEF Parsed
<1>3. PICK n \in 0 .. Len(archive), e \in 1 .. Len(archive) :
        /\ n = dir.node /\ e = Ent /\ n < e /\ dir' \in OpenDirs /\ dir'.node = n /\ dir'.offset >= 1
  BY <1>1, ReadNext
<1>4. Len(archive) \in Nat /\ DOMAIN archive = 1 .. Len(archive)
  BY <1>1, Depths
<1>5. Cursor'
  BY <1>1, <1>3, <1>4 DEF Cursor
<1>6. ASSUME EmptyDirs = {}, NEW k \in DOMAIN archive, Sought(k)
      PROVE  \E b \in 1 .. k : Ahead(k, b)'
  <2>1. PICK b \in 1 .. k : Ahead(k, b)
    BY <1>1, <1>6 DEF Looking
  <2>2. e <= b /\ b \in 1 .. Len(archive) /\ b \in Nat
    BY <2>1, <1>3, <1>4 DEF Ahead, Ent
  <2>3. e # b
    BY <2>1, <2>2, <1>1, <1>3, <1>6, FitsOnlyAhead
  <2>4. b \in Kids(n, Len(archive)) /\ Ent < b
    BY <2>1, <2>2, <2>3, <1>3, <1>4 DEF Ahead, Kids
  <2>5. n + dir'.offset <= b
    BY <2>4, <1>1, <1>3, <1>6, StaysAhead
  <2>6. Above(b, k)' /\ Parent(b)' = n /\ D(b)' = look.component /\ b \in 1 .. k
    BY <2>1, <1>1, <1>3, SameArchive DEF Ahead, Above
  <2> QED
    BY <2>5, <2>6, <1>1, <1>3 DEF Ahead
<1>7. Looking'
  BY <1>1, <1>6, SameLook, SameArchive DEF Looking
<1> QED
  BY <1>1, <1>2, <1>5, <1>7 DEF RInv

LEMMA LookFitsStep == ASSUME RInv, LookFits PROVE RInv'
<1>1. /\ phase = "look" /\ ~ReadEnds /\ ent_name_eq(Ent, look.component)
      /\ look' = [look EXCEPT !.component = @ + 1, !.result = Ent]
      /\ IF look.component = Len(look.path)
         THEN dir' = NoDir /\ phase' = "found"
         ELSE dir' = opendir(Ent) /\ phase' = phase
      /\ UNCHANGED <<archive, i, nodes>> /\ ArchiveOK /\ Counted /\ Cursor /\ Looking
  BY DEF LookFits, RInv, Parsed
<1>2. ArchiveOK' /\ Counted'
  BY <1>1, Quiet DEF Parsed
<1>3. Len(archive) \in Nat /\ DOMAIN archive = 1 .. Len(archive) /\ rd_entry_num = Len(archive) + 1
  BY <1>1, Depths, CountedFacts DEF rd_entry_num
<1>4. PICK n \in Nat, e \in 1 .. Len(archive) : n = dir.node /\ e = Ent /\ n < e
  BY <1>1, <1>3 DEF Cursor, OpenDirs, Ent, ReadEnds
<1>5. /\ look' \in LookUps /\ look'.path = look.path /\ look'.component = look.component + 1
      /\ look'.result = e /\ look.component \in Nat
  <2>1. PICK p \in Seq(Names), c \in Nat, r \in Int : look = [path |-> p, component |-> c, result |-> r]
    BY <1>1 DEF Looking, LookUps
  <2>2. look' = [path |-> p, component |-> c + 1, result |-> e]
    BY <2>1, <1>1, <1>4
  <2> QED
    BY <2>1, <2>2 DEF LookUps
<1>6. \A k : Sought(k)' => Sought(k)
  <2>1. PathTo' = PathTo
    BY <1>1, SamePaths
  <2>2. \A k, l : Unambiguous(k, l)' = Unambiguous(k, l)
    BY <1>1, SameArchive DEF Unambiguous, HasPrefix
  <2> QED
    BY <2>1, <2>2, <1>1, <1>5 DEF Sought
<1>7. ASSUME EmptyDirs = {}, NEW k \in DOMAIN archive, Sought(k)
      PROVE  /\ e \in 1 .. k /\ Above(e, k) /\ D(e) = look.component
             /\ look.component = Len(look.path) <=> e = k
  <2>1. PICK b \in 1 .. k : Ahead(k, b)
    BY <1>1, <1>7 DEF Looking
  <2>2. e <= b
    BY <2>1, <1>4 DEF Ahead, Ent
  <2>3. e = b /\ (look.component = Len(look.path) <=> b = k)
    BY <2>1, <2>2, <1>1, <1>4, <1>7, FitsOnlyAhead
  <2> QED
    BY <2>1, <2>3 DEF Ahead
<1>8. CASE look.component = Len(look.path)
  <2>1. phase' = "found"
    BY <1>1, <1>8
  <2>2. Found'
    BY <1>1, <1>5, <1>6, <1>7, <1>8, SameArchive DEF Found
  <2> QED
    BY <2>1, <2>2, <1>2 DEF RInv
<1>9. CASE look.component # Len(look.path)
  <2>1. phase' = "look" /\ dir' = opendir(e)
    BY <1>1, <1>4, <1>9
  <2>2. dir' \in OpenDirs /\ dir'.node = e /\ dir'.offset = 1
    <3>1. e \in Nat
      BY <1>3
    <3> QED
      BY <3>1, <2>1 DEF opendir, OpenDirs
  <2>3. Cursor'
    BY <2>2, <1>1, <1>3 DEF Cursor
  <2>4. ASSUME EmptyDirs = {}, NEW k \in DOMAIN archive, Sought(k)
        PROVE  \E b \in 1 .. k : Ahead(k, b)'
    <3>1. /\ e \in 1 .. k /\ Above(e, k) /\ D(e) = look.component /\ e # k
          /\ k \in 1 .. Len(archive) /\ e \in 0 .. Len(archive)
      BY <2>4, <1>3, <1>7, <1>9
    <3>2. PICK b \in e + 1 .. k : Parent(b) = e /\ Above(b, k) /\ D(b) = D(e) + 1
      BY <3>1, <1>1, NextAbove
    <3>3. b \in 1 .. k /\ e + 1 <= b
      BY <3>1, <3>2, <1>3
    <3>4. Above(b, k)' /\ Parent(b)' = e /\ D(b)' = look.component + 1
      BY <3>1, <3>2, <1>1, SameArchive DEF Above
    <3> QED
      BY <3>3, <3>4, <2>2, <1>5 DEF Ahead
  <2>5. Looking'
    BY <2>4, <1>1, <1>5, <1>6, SameArchive DEF Looking
  <2> QED
    BY <2>1, <2>3, <2>5, <1>2 DEF RInv
<1> QED
  BY <1>8, <1>9

LEMMA LookFailsStep == ASSUME RInv, LookFails PROVE RInv'
<1>1. /\ phase = "look" /\ ReadEnds /\ phase' = "found"
      /\ look' = [look EXCEPT !.result = Null]
      /\ UNCHANGED <<archive, i, nodes>> /\ ArchiveOK /\ Counted /\ Cursor /\ Looking
  BY DEF LookFails, RInv, Parsed
<1>2. ArchiveOK' /\ Counted'
  BY <1>1, Quiet DEF Parsed
<1>3. Len(archive) \in Nat /\ DOMAIN archive = 1 .. Len(archive) /\ rd_entry_num = Len(archive) + 1
  BY <1>1, Depths, CountedFacts DEF rd_entry_num
<1>4. look'.path = look.path
  BY <1>1 DEF Looking, LookUps
<1>5. \A k : Sought(k)' => Sought(k)
  <2>1. PathTo' = PathTo
    BY <1>1, SamePaths
  <2>2. \A k, l : Unambiguous(k, l)' = Unambiguous(k, l)
    BY <1>1, SameArchive DEF Unambiguous, HasPrefix
  <2> QED
    BY <2>1, <2>2, <1>1, <1>4 DEF Sought
<1>6. ASSUME EmptyDirs = {}, NEW k \in DOMAIN archive, Sought(k) PROVE FALSE
  <2>1. PICK b \in 1 .. k : Ahead(k, b)
    BY <1>1, <1>6 DEF Looking
  <2>2. dir.node + dir.offset <= b /\ b <= Len(archive) /\ b \in Nat
    BY <2>1, <1>3 DEF Ahead
  <2>3. dir.node \in Nat /\ dir.offset \in Nat /\ dir.offset > rd_entry_num - dir.node - 1
    BY <1>1 DEF Cursor, OpenDirs, ReadEnds
  <2> QED
    BY <2>2, <2>3, <1>3
<1>7. Found'
  BY <1>1, <1>5, <1>6, SameArchive DEF Found
<1> QED
  BY <1>1, <1>2, <1>7 DEF RInv

----------------------------------------------------------------------------
\* The invariant RInv, of the walk, of reading and of looking up, holds always.
THEOREM RamDiskInvariance == Spec => []RInv
<1>1. Init => RInv
  BY InitStep
<1>2. RInv /\ [Next]_vars => RInv'
  BY PackStep, PackedStep, SkipPaxStep, AddNodeStep, DescendStep, AscendStep, OpenDirStep, ReadDirStep,
     LookUpStep, LookNextStep, LookFitsStep, LookFailsStep, OtherSteps DEF Next
<1> QED
  BY <1>1, <1>2, PTL DEF Spec

\* tar_parse gives every node the count of its own entries, whatever the archive.
THEOREM EntriesCounted == Spec => []CountsExact
<1>1. RInv => CountsExact
  <2> SUFFICES ASSUME ArchiveOK, Counted PROVE CountsExact
    BY DEF RInv, CountsExact
  <2>1. Len(archive) \in Nat /\ rd_entry_num = Len(archive) + 1 /\ i = 2 * Len(archive) + 2
    BY CountedFacts DEF rd_entry_num
  <2>2. rd_entry_num = i \div 2
    BY <2>1
  <2> QED
    BY <2>1, <2>2, CountedFacts DEF CountsExact
<1> QED
  BY <1>1, RamDiskInvariance, PTL

\* initrd_readdir, up to the end, has given every entry of the directory, when no
\* directory of the archive is empty.
THEOREM DirectoriesComplete == Spec => []ListsChildren
<1>1. RInv => ListsChildren
  <2> SUFFICES ASSUME RInv, phase = "reading", ReadEnds, EmptyDirs = {}
               PROVE  Children(dir.node) \subseteq Range(dir.gave)
    BY DEF ListsChildren
  <2>1. ArchiveOK /\ Counted /\ Cursor /\ Reading
    BY DEF RInv, Parsed
  <2>2. Len(archive) \in Nat /\ DOMAIN archive = 1 .. Len(archive) /\ rd_entry_num = Len(archive) + 1
    BY <2>1, Depths, CountedFacts DEF rd_entry_num
  <2>3. PICK n \in Nat, o \in Nat : n = dir.node /\ o = dir.offset /\ o > Len(archive) + 1 - n - 1
    BY <2>1, <2>2 DEF Cursor, OpenDirs, ReadEnds
  <2>4. ASSUME NEW k \in Children(n) PROVE k \in Kids(n, Len(archive)) /\ k < n + o
    BY <2>2, <2>3 DEF Children, Kids
  <2> QED
    BY <2>1, <2>3, <2>4 DEF Reading
<1> QED
  BY <1>1, RamDiskInvariance, PTL

\* initrd_get_node finds the file that a path of the archive names, where no entry
\* that is read before it fits a component.
THEOREM PathsFound == Spec => []FindsArchived
<1>1. RInv => FindsArchived
  BY DEF RInv, Found, Sought, FindsArchived
<1> QED
  BY <1>1, RamDiskInvariance, PTL

=============================================================================
