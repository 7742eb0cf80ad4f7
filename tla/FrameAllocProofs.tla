-------------------------- MODULE FrameAllocProofs --------------------------
(***************************************************************************)
(* What FrameAlloc promises, for every number of submaps and words and for *)
(* all requests that are powers of two or multiples of a submap: the test  *)
(* of the first frame of a group is enough.                                *)
(***************************************************************************)
EXTENDS FrameAlloc, FiniteSetTheorems, WellFoundedInduction, TLAPS

Bs == 0 .. Submaps - 1
Words == 0 .. frames_num - 1

\* The frames of the group of 2^b that starts at j.
Span(j, b) == j .. j + 2 ^ b - 1

IsGroup(h) == \E i \in Words, b \in Bs : \E j \in Groups(i, 2 ^ b) : h = Span(j, b)

\* A set of frames that can be given back is one group.
HeldShape ==
    \A h \in held : IsFiniteSet(h) /\ (Cardinality(h) <= MAX_BUDDY_SIZE => IsGroup(h))

\* The frames found so far are whole submaps, unless there are none.
CallShape ==
    call # Idle =>
        /\ IsFiniteSet(call.got) /\ Cardinality(call.got) < call.nframes
        /\ call.got = {} \/ (/\ call.nframes % MAX_BUDDY_SIZE = 0
                             /\ Cardinality(call.got) % MAX_BUDDY_SIZE = 0
                             /\ Cardinality(call.got) >= MAX_BUDDY_SIZE)

\* They are neither the kernel's nor lost.
CallApart == Got \cap (Boot \cup lost) = {}

\* The inductive invariant.
IInv ==
    /\ TypeOK /\ HeldOnce /\ BitmapExact /\ GroupsUniform
    /\ HeldShape /\ CallShape /\ CallApart

----------------------------------------------------------------------------
\* Arithmetic.

\* The sizes are positive numbers and a group is at most a submap.
LEMMA Sizes ==
    /\ MAX_BUDDY_SIZE \in Nat \ {0} /\ BIT_FRAME_SIZE \in Nat \ {0}
    /\ Submaps - 1 \in Bs /\ MAX_BUDDY_SIZE = 2 ^ (Submaps - 1)
    /\ \A b \in Bs : 2 ^ b \in Nat \ {0} /\ 2 ^ b <= MAX_BUDDY_SIZE
<1>1. Submaps - 1 \in Bs /\ MAX_BUDDY_SIZE = 2 ^ (Submaps - 1) /\ Submaps \in Nat \ {0}
  BY FrameAssumption DEF Bs, MAX_BUDDY_SIZE
<1>2. MAX_BUDDY_SIZE \in Nat \ {0}
  BY <1>1, PowersAssumption DEF Bs
<1>3. BIT_FRAME_SIZE \in Nat \ {0}
  BY <1>1, <1>2 DEF BIT_FRAME_SIZE
<1>4. \A b \in Bs : 2 ^ b \in Nat \ {0} /\ 2 ^ b <= MAX_BUDDY_SIZE
  BY <1>1, PowersAssumption DEF Bs
<1> QED BY <1>1, <1>2, <1>3, <1>4

\* Two multiples of n are at least n apart.
LEMMA Apart ==
    ASSUME NEW x \in Nat, NEW y \in Nat, NEW n \in Nat \ {0}, x % n = 0, y % n = 0, x < y
    PROVE  x + n <= y
<1>1. x = n * (x \div n) /\ y = n * (y \div n) /\ x \div n \in Nat /\ y \div n \in Nat
  OBVIOUS
<1>2. x \div n < y \div n
  BY <1>1
<1> QED BY <1>1, <1>2

\* The next multiple of m.
LEMMA NextMultiple ==
    ASSUME NEW a \in Nat, NEW b \in Nat, NEW m \in Nat, a < b
    PROVE  a * m + m <= b * m
  OBVIOUS

\* Sums and differences of multiples of n.
LEMMA Multiples ==
    ASSUME NEW x \in Nat, NEW y \in Nat, NEW n \in Nat \ {0}, x % n = 0, y % n = 0
    PROVE  (x + y) % n = 0 /\ (x < y => y - x >= n)
<1>1. PICK p \in Nat, q \in Nat : x = n * p /\ y = n * q
  <2>1. x = n * (x \div n) /\ y = n * (y \div n) /\ x \div n \in Nat /\ y \div n \in Nat
    OBVIOUS
  <2> QED BY <2>1
<1>2. x + y = n * (p + q)
  BY <1>1
<1>3. (n * (p + q)) % n = 0
  OBVIOUS
<1>4. ASSUME x < y PROVE y - x >= n
  <2>1. x + n <= y
    BY <1>4, Apart
  <2> QED BY <2>1
<1> QED BY <1>2, <1>3, <1>4

\* A set of natural numbers has a least element.
LEMMA LeastElement ==
    ASSUME NEW S \in SUBSET Nat, S # {}
    PROVE  \E x \in S : \A y \in S : x <= y
<1> DEFINE R == OpToRel(<, Nat)
<1>1. PICK x \in S : \A y \in S : ~(<<y, x>> \in R)
  <2>1. IsWellFoundedOn(R, Nat)
    BY NatLessThanWellFounded
  <2> HIDE DEF R
  <2> QED BY <2>1, WFMin
<1>2. \A y \in S : ~(y < x)
  BY <1>1 DEF OpToRel
<1> QED BY <1>2

\* BitmapExact, frame by frame.
InOneOf(f, B, H, L, G) == f \in B \/ (\E h \in H : f \in h) \/ f \in L \/ f \in G

LEMMA FrameByFrame ==
    ASSUME NEW F, NEW B, NEW H, NEW L, NEW G, F = B \cup (UNION H) \cup L \cup G
    PROVE  \A f : (f \in F) <=> InOneOf(f, B, H, L, G)
  BY DEF InOneOf

----------------------------------------------------------------------------
\* Groups.

\* get_frame_submap_mask gives a request for 2^b frames the submap b.
LEMMA SubmapOf ==
    ASSUME NEW b \in Bs
    PROVE  get_frame_submap(2 ^ b) = b
<1> DEFINE Fits(d) == 2 ^ b <= 2 ^ d /\ \A c \in 0 .. d - 1 : 2 ^ b > 2 ^ c
<1>1. b \in 0 .. Submaps - 1 /\ Fits(b)
  BY PowersAssumption, FrameAssumption DEF Bs
<1>2. ASSUME NEW d \in 0 .. Submaps - 1, Fits(d) PROVE d = b
  <2>1. ~(d < b)
    BY <1>2, PowersAssumption, FrameAssumption DEF Bs
  <2>2. ~(b < d)
    BY <1>2, PowersAssumption, FrameAssumption DEF Bs
  <2> QED BY <2>1, <2>2, FrameAssumption DEF Bs
<1>3. (CHOOSE d \in 0 .. Submaps - 1 : Fits(d)) = b
  <2> HIDE DEF Fits
  <2> QED BY <1>1, <1>2
<1> QED BY <1>3 DEF get_frame_submap

\* Where a group starts and ends.
LEMMA GroupPlace ==
    ASSUME NEW i \in Nat, NEW b \in Bs, NEW j \in Groups(i, 2 ^ b)
    PROVE  LET first == i * BIT_FRAME_SIZE + MAX_BUDDY_SIZE * b
           IN  /\ j \in Nat /\ first \in Nat /\ first <= j
               /\ (j - first) % 2 ^ b = 0 /\ j + 2 ^ b <= first + MAX_BUDDY_SIZE
<1> DEFINE first == i * BIT_FRAME_SIZE + MAX_BUDDY_SIZE * b
<1>1. first \in Nat
  BY Sizes, FrameAssumption DEF Bs
<1>2. j \in first .. first + MAX_BUDDY_SIZE - 1 /\ (j - first) % 2 ^ b = 0
  BY SubmapOf DEF Groups
<1> HIDE DEF first
<1>3. j \in Nat /\ first <= j /\ j - first \in Nat /\ j - first < MAX_BUDDY_SIZE
  BY <1>1, <1>2, Sizes
<1>4. MAX_BUDDY_SIZE % 2 ^ b = 0
  BY PowersAssumption DEF Bs
<1>5. (j - first) + 2 ^ b <= MAX_BUDDY_SIZE
  BY <1>2, <1>3, <1>4, Sizes, Apart
<1>6. j + 2 ^ b <= first + MAX_BUDDY_SIZE
  BY <1>1, <1>3, <1>5, Sizes
<1> QED BY <1>1, <1>2, <1>3, <1>6 DEF first

\* A group lies in its word.
LEMMA GroupInWord ==
    ASSUME NEW i \in Nat, NEW b \in Bs, NEW j \in Groups(i, 2 ^ b)
    PROVE  i * BIT_FRAME_SIZE <= j /\ j + 2 ^ b <= i * BIT_FRAME_SIZE + BIT_FRAME_SIZE
<1>1. b * MAX_BUDDY_SIZE + MAX_BUDDY_SIZE <= Submaps * MAX_BUDDY_SIZE
  BY Sizes, FrameAssumption, NextMultiple DEF Bs
<1>2. MAX_BUDDY_SIZE * b = b * MAX_BUDDY_SIZE /\ MAX_BUDDY_SIZE * b \in Nat
  BY Sizes, FrameAssumption DEF Bs
<1>3. i * BIT_FRAME_SIZE \in Nat
  BY Sizes
<1> QED BY <1>1, <1>2, <1>3, GroupPlace, Sizes DEF BIT_FRAME_SIZE

\* Two groups are the same or have no frame in common.
LEMMA GroupsApart ==
    ASSUME NEW i \in Nat, NEW b \in Bs, NEW j \in Groups(i, 2 ^ b),
           NEW k \in Nat, NEW c \in Bs, NEW g \in Groups(k, 2 ^ c)
    PROVE  Span(j, b) = Span(g, c) \/ Span(j, b) \cap Span(g, c) = {}
<1>0. j \in Nat /\ g \in Nat /\ 2 ^ b \in Nat \ {0} /\ 2 ^ c \in Nat \ {0}
  BY GroupPlace, Sizes
<1>1. CASE i < k
  <2>1. i * BIT_FRAME_SIZE + BIT_FRAME_SIZE <= k * BIT_FRAME_SIZE
    BY <1>1, Sizes, NextMultiple
  <2>2. j + 2 ^ b <= i * BIT_FRAME_SIZE + BIT_FRAME_SIZE /\ k * BIT_FRAME_SIZE <= g
    BY GroupInWord
  <2>3. i * BIT_FRAME_SIZE \in Nat /\ k * BIT_FRAME_SIZE \in Nat
    BY Sizes
  <2>4. j + 2 ^ b <= g
    BY <2>1, <2>2, <2>3, <1>0, Sizes
  <2> QED BY <2>4, <1>0 DEF Span
<1>2. CASE k < i
  <2>1. k * BIT_FRAME_SIZE + BIT_FRAME_SIZE <= i * BIT_FRAME_SIZE
    BY <1>2, Sizes, NextMultiple
  <2>2. g + 2 ^ c <= k * BIT_FRAME_SIZE + BIT_FRAME_SIZE /\ i * BIT_FRAME_SIZE <= j
    BY GroupInWord
  <2>3. i * BIT_FRAME_SIZE \in Nat /\ k * BIT_FRAME_SIZE \in Nat
    BY Sizes
  <2>4. g + 2 ^ c <= j
    BY <2>1, <2>2, <2>3, <1>0, Sizes
  <2> QED BY <2>4, <1>0 DEF Span
<1>3. CASE i = k /\ b < c
  <2>1. b * MAX_BUDDY_SIZE + MAX_BUDDY_SIZE <= c * MAX_BUDDY_SIZE
    BY <1>3, Sizes, NextMultiple DEF Bs
  <2>2. j + 2 ^ b <= g
    BY <2>1, <1>3, <1>0, GroupPlace, Sizes DEF Bs
  <2> QED BY <2>2, <1>0 DEF Span
<1>4. CASE i = k /\ c < b
  <2>1. c * MAX_BUDDY_SIZE + MAX_BUDDY_SIZE <= b * MAX_BUDDY_SIZE
    BY <1>4, Sizes, NextMultiple DEF Bs
  <2>2. g + 2 ^ c <= j
    BY <2>1, <1>4, <1>0, GroupPlace, Sizes DEF Bs
  <2> QED BY <2>2, <1>0 DEF Span
<1>5. CASE i = k /\ b = c
  <2> DEFINE first == i * BIT_FRAME_SIZE + MAX_BUDDY_SIZE * b
  <2>1. /\ first \in Nat /\ first <= j /\ (j - first) % 2 ^ b = 0
        /\ first <= g /\ (g - first) % 2 ^ b = 0
    BY <1>5, GroupPlace
  <2> HIDE DEF first
  <2>2. j - first \in Nat /\ g - first \in Nat
    BY <2>1, <1>0
  <2>3. CASE j < g
    <3>1. (j - first) + 2 ^ b <= g - first
      BY <2>1, <2>2, <2>3, <1>0, Apart
    <3> QED BY <3>1, <1>0, <1>5, <2>1 DEF Span
  <2>4. CASE g < j
    <3>1. (g - first) + 2 ^ b <= j - first
      BY <2>1, <2>2, <2>4, <1>0, Apart
    <3> QED BY <3>1, <1>0, <1>5, <2>1 DEF Span
  <2> QED BY <2>3, <2>4, <1>0, <1>5
<1> QED BY <1>1, <1>2, <1>3, <1>4, <1>5 DEF Bs

\* The frames that the kernel is loaded into are whole groups.
LEMMA BootUniform ==
    ASSUME NEW i \in Words, NEW b \in Bs, NEW j \in Groups(i, 2 ^ b)
    PROVE  Span(j, b) \subseteq Boot \/ Span(j, b) \cap Boot = {}
<1>0. /\ i \in Nat /\ BootWords \in Nat /\ j \in Nat /\ 2 ^ b \in Nat \ {0}
      /\ i * BIT_FRAME_SIZE \in Nat /\ BootWords * BIT_FRAME_SIZE \in Nat
  BY FrameAssumption, Sizes, GroupPlace DEF Words
<1>1. i * BIT_FRAME_SIZE <= j /\ j + 2 ^ b <= i * BIT_FRAME_SIZE + BIT_FRAME_SIZE
  BY <1>0, GroupInWord
<1>2. CASE i < BootWords
  <2>1. i * BIT_FRAME_SIZE + BIT_FRAME_SIZE <= BootWords * BIT_FRAME_SIZE
    BY <1>0, <1>2, Sizes, NextMultiple
  <2>2. j + 2 ^ b <= BootWords * BIT_FRAME_SIZE
    BY <2>1, <1>0, <1>1, Sizes
  <2> QED BY <2>2, <1>0 DEF Span, Boot
<1>3. CASE BootWords <= i
  <2>1. BootWords * BIT_FRAME_SIZE <= i * BIT_FRAME_SIZE
    <3>1. CASE BootWords = i
      BY <3>1, <1>0
    <3>2. CASE BootWords < i
      <4>1. BootWords * BIT_FRAME_SIZE + BIT_FRAME_SIZE <= i * BIT_FRAME_SIZE
        BY <3>2, <1>0, Sizes, NextMultiple
      <4> QED BY <4>1, <1>0, Sizes
    <3> QED BY <3>1, <3>2, <1>3, <1>0
  <2>2. BootWords * BIT_FRAME_SIZE <= j
    BY <2>1, <1>0, <1>1
  <2> QED BY <2>2, <1>0 DEF Span, Boot
<1> QED BY <1>2, <1>3, <1>0

\* A group is a set of frames of the machine, of its size, and starts with its
\* least element.
LEMMA GroupFacts ==
    ASSUME NEW i \in Words, NEW b \in Bs, NEW j \in Groups(i, 2 ^ b)
    PROVE  /\ Span(j, b) \subseteq Frame
           /\ IsFiniteSet(Span(j, b)) /\ Cardinality(Span(j, b)) = 2 ^ b
           /\ j \in Span(j, b) /\ Min(Span(j, b)) = j
<1>0. /\ i \in Nat /\ j \in Nat /\ 2 ^ b \in Nat \ {0}
      /\ i * BIT_FRAME_SIZE \in Nat /\ frames_num * BIT_FRAME_SIZE \in Nat
  BY FrameAssumption, Sizes, GroupPlace DEF Words
<1>1. Span(j, b) \subseteq Frame
  <2>1. j + 2 ^ b <= i * BIT_FRAME_SIZE + BIT_FRAME_SIZE
    BY <1>0, GroupInWord
  <2>2. i * BIT_FRAME_SIZE + BIT_FRAME_SIZE <= frames_num * BIT_FRAME_SIZE
    BY <1>0, FrameAssumption, Sizes, NextMultiple DEF Words
  <2>3. j + 2 ^ b <= frames_num * BIT_FRAME_SIZE
    BY <2>1, <2>2, <1>0, Sizes
  <2> QED BY <2>3, <1>0 DEF Span, Frame
<1>2. IsFiniteSet(Span(j, b)) /\ Cardinality(Span(j, b)) = 2 ^ b
  <2>1. j \in Int /\ j + 2 ^ b - 1 \in Int /\ ~(j > j + 2 ^ b - 1)
        /\ (j + 2 ^ b - 1) - j + 1 = 2 ^ b
    BY <1>0
  <2> QED BY <2>1, FS_Interval DEF Span
<1>3. j \in Span(j, b) /\ Min(Span(j, b)) = j
  <2>1. j \in Span(j, b) /\ \A x \in Span(j, b) : j <= x /\ x \in Int
    BY <1>0 DEF Span
  <2>2. ASSUME NEW x \in Span(j, b), \A y \in Span(j, b) : x <= y PROVE x = j
    BY <2>1, <2>2, <1>0
  <2> QED BY <2>1, <2>2 DEF Min
<1> QED BY <1>1, <1>2, <1>3

\* Marking one group, or clearing it, leaves every group uniform.
LEMMA UniformKept ==
    ASSUME GroupsUniform,
           NEW i \in Words, NEW b \in Bs, NEW j \in Groups(i, 2 ^ b),
           frames' = frames \cup Span(j, b) \/ frames' = frames \ Span(j, b)
    PROVE  GroupsUniform'
<1> SUFFICES ASSUME NEW k \in Words, NEW c \in Bs, NEW g \in Groups(k, 2 ^ c)
             PROVE  Span(g, c) \subseteq frames' \/ Span(g, c) \cap frames' = {}
  BY DEF GroupsUniform, Span, Words, Bs, Groups, get_frame_submap, MAX_BUDDY_SIZE, BIT_FRAME_SIZE
<1>1. Span(g, c) \subseteq frames \/ Span(g, c) \cap frames = {}
  BY DEF GroupsUniform, Span, Words, Bs
<1>2. Span(j, b) = Span(g, c) \/ Span(j, b) \cap Span(g, c) = {}
  BY GroupsApart, FrameAssumption DEF Words
<1> QED BY <1>1, <1>2

----------------------------------------------------------------------------
\* The search.

\* A search always looks for a group of one of the sizes, and for one of the largest
\* size once it has found some.
LEMMA NofIsSize ==
    ASSUME IInv, call.op = "find"
    PROVE  /\ call \in [op : {"find"}, nframes : Requests, i : 0 .. frames_num, got : SUBSET Frame]
           /\ IsFiniteSet(call.got) /\ Cardinality(call.got) \in Nat /\ call.nframes \in Nat
           /\ \E b \in Bs : cur_nof = 2 ^ b
           /\ cur_nof <= call.nframes - Cardinality(call.got)
           /\ \/ call.got = {} /\ cur_nof = call.nframes
              \/ call.nframes % MAX_BUDDY_SIZE = 0 /\ cur_nof = MAX_BUDDY_SIZE
<1>0. /\ call # Idle
      /\ call \in [op : {"find"}, nframes : Requests, i : 0 .. frames_num, got : SUBSET Frame]
  BY DEF IInv, TypeOK, Idle
<1>1. /\ IsFiniteSet(call.got) /\ Cardinality(call.got) \in Nat
      /\ Cardinality(call.got) < call.nframes
  BY <1>0, FS_CardinalityType DEF IInv, CallShape
<1> DEFINE n == call.nframes
           got == Cardinality(call.got)
           M == MAX_BUDDY_SIZE
<1>2. n \in Nat /\ n > 0
  BY <1>0, RequestsAssumption, Sizes DEF Bs
<1>3. M \in Nat \ {0} /\ \E b \in Bs : M = 2 ^ b
  BY Sizes
<1>4. cur_nof = IF n - got > M THEN M ELSE n - got
  BY DEF cur_nof
<1>5. CASE call.got = {} /\ \E b \in Bs : n = 2 ^ b
  <2>1. got = 0
    BY <1>5, FS_EmptySet
  <2>2. n <= M
    BY <1>5, Sizes
  <2>3. cur_nof = n
    BY <2>1, <2>2, <1>2, <1>3, <1>4
  <2> QED BY <2>1, <2>3, <1>0, <1>1, <1>2, <1>5
<1>6. CASE n % M = 0 /\ got % M = 0
  <2>1. n - got >= M
    <3> HIDE DEF n, got, M
    <3> QED BY <1>6, <1>1, <1>2, <1>3, Multiples DEF n, got
  <2>2. cur_nof = M
    BY <2>1, <1>1, <1>2, <1>3, <1>4
  <2> QED BY <2>1, <2>2, <1>0, <1>1, <1>2, <1>3, <1>6
<1>7. CASE call.got = {} /\ n % M = 0
  <2>1. got = 0
    BY <1>7, FS_EmptySet
  <2>2. got % M = 0
    BY <2>1, <1>3
  <2> QED BY <2>2, <1>6, <1>7
<1>8. n % M = 0 \/ \E b \in Bs : n = 2 ^ b
  BY <1>0, RequestsAssumption DEF Bs
<1> QED BY <1>0, <1>5, <1>6, <1>7, <1>8 DEF IInv, CallShape

\* A free first frame means a free group.
LEMMA FreeGroup ==
    ASSUME IInv, NEW i \in Words, NEW b \in Bs, NEW j \in FreeGroups(i, 2 ^ b)
    PROVE  j \in Groups(i, 2 ^ b) /\ Span(j, b) \cap frames = {}
<1>1. j \in Groups(i, 2 ^ b) /\ j \notin frames
  BY DEF FreeGroups
<1>2. Span(j, b) \subseteq frames \/ Span(j, b) \cap frames = {}
  BY <1>1 DEF IInv, GroupsUniform, Span, Words, Bs
<1>3. j \in Span(j, b)
  BY <1>1, GroupFacts
<1> QED BY <1>1, <1>2, <1>3

\* The least free group is one of them.
LEMMA MinFree ==
    ASSUME NEW i \in Words, NEW b \in Bs, FreeGroups(i, 2 ^ b) # {}
    PROVE  Min(FreeGroups(i, 2 ^ b)) \in FreeGroups(i, 2 ^ b)
<1> DEFINE S == FreeGroups(i, 2 ^ b)
<1>1. S \subseteq Nat
  BY GroupPlace, FrameAssumption DEF FreeGroups, Words
<1>2. PICK x \in S : \A y \in S : x <= y
  BY <1>1, LeastElement
<1> QED BY <1>2 DEF Min

----------------------------------------------------------------------------
\* The invariant.

\* At boot the kernel's frames are marked and no others.
LEMMA InitHolds == Init => IInv
<1> SUFFICES ASSUME Init PROVE IInv
  OBVIOUS
<1>1. TypeOK
  <2>1. BootWords * BIT_FRAME_SIZE <= frames_num * BIT_FRAME_SIZE
    <3>1. CASE BootWords = frames_num
      BY <3>1, FrameAssumption, Sizes
    <3>2. CASE BootWords < frames_num
      <4>1. BootWords * BIT_FRAME_SIZE + BIT_FRAME_SIZE <= frames_num * BIT_FRAME_SIZE
        BY <3>2, FrameAssumption, Sizes, NextMultiple
      <4>2. BootWords * BIT_FRAME_SIZE \in Nat /\ frames_num * BIT_FRAME_SIZE \in Nat
        BY FrameAssumption, Sizes
      <4> QED BY <4>1, <4>2, Sizes
    <3> QED BY <3>1, <3>2, FrameAssumption
  <2>2. BootWords * BIT_FRAME_SIZE \in Nat /\ frames_num * BIT_FRAME_SIZE \in Nat
    BY FrameAssumption, Sizes
  <2>3. Boot \subseteq Frame
    BY <2>1, <2>2 DEF Boot, Frame
  <2> QED BY <2>3 DEF Init, TypeOK
<1>2. HeldOnce /\ HeldShape
  BY DEF Init, HeldOnce, HeldShape
<1>3. BitmapExact
  BY DEF Init, BitmapExact, Got, Idle
<1>4. GroupsUniform
  BY BootUniform DEF Init, GroupsUniform, Span, Words, Bs
<1>5. CallShape
  BY DEF Init, CallShape
<1>6. CallApart
  BY DEF Init, CallApart, Got, Idle
<1> QED BY <1>1, <1>2, <1>3, <1>4, <1>5, <1>6 DEF IInv

\* A hit: the group is nobody's, and the search is over or has whole submaps.
LEMMA HitKeeps == IInv /\ FindHit => IInv'
<1> SUFFICES ASSUME IInv, FindHit PROVE IInv'
  OBVIOUS
<1>0. /\ call.op = "find"
      /\ call \in [op : {"find"}, nframes : Requests, i : 0 .. frames_num, got : SUBSET Frame]
      /\ IsFiniteSet(call.got) /\ Cardinality(call.got) \in Nat /\ call.nframes \in Nat
      /\ cur_nof <= call.nframes - Cardinality(call.got)
      /\ \/ call.got = {} /\ cur_nof = call.nframes
         \/ call.nframes % MAX_BUDDY_SIZE = 0 /\ cur_nof = MAX_BUDDY_SIZE
  BY NofIsSize DEF FindHit
<1>1. PICK b \in Bs : cur_nof = 2 ^ b
  BY NofIsSize DEF FindHit
<1>2. call.i \in Words
  BY <1>0, FrameAssumption DEF FindHit, Words
<1> DEFINE j == Min(FreeGroups(call.i, cur_nof))
           new == Span(j, b)
           got == call.got \cup new
<1>3. j \in FreeGroups(call.i, 2 ^ b)
  BY <1>1, <1>2, MinFree DEF FindHit
<1>4. j \in Groups(call.i, 2 ^ b) /\ new \cap frames = {}
  <2> HIDE DEF j
  <2> QED BY <1>2, <1>3, FreeGroup
<1>5. /\ new \subseteq Frame /\ IsFiniteSet(new) /\ Cardinality(new) = cur_nof
  <2> HIDE DEF j
  <2> QED BY <1>1, <1>2, <1>4, GroupFacts
<1>6. /\ frames' = frames \cup new
      /\ lost' = lost
      /\ \/ Cardinality(got) >= call.nframes /\ held' = held \cup {got} /\ call' = Idle
         \/ /\ ~(Cardinality(got) >= call.nframes) /\ held' = held
            /\ call' = [call EXCEPT !.got = got, !.i = @ + 1]
  BY <1>1 DEF FindHit, alloc_nframes, Span
<1>7. /\ \A f : (f \in frames) <=> InOneOf(f, Boot, held, lost, call.got)
      /\ call.got \subseteq frames
  <2>1. frames = Boot \cup (UNION held) \cup lost \cup call.got
    BY <1>0 DEF IInv, BitmapExact, Got
  <2>2. \A f : (f \in frames) <=> InOneOf(f, Boot, held, lost, call.got)
    BY <2>1, FrameByFrame
  <2> QED BY <2>2 DEF InOneOf
<1> HIDE DEF j
<1>8. IsFiniteSet(got) /\ Cardinality(got) = Cardinality(call.got) + cur_nof
  <2>1. call.got \cap new = {}
    BY <1>4, <1>7
  <2>2. /\ IsFiniteSet(got)
        /\ Cardinality(got) = Cardinality(call.got) + Cardinality(new) - Cardinality(call.got \cap new)
    BY <1>0, <1>5, FS_Union
  <2>3. Cardinality(call.got \cap new) = 0
    BY <2>1, FS_EmptySet
  <2>4. cur_nof \in Nat
    BY <1>1, Sizes
  <2> HIDE DEF got, new
  <2> QED BY <2>2, <2>3, <2>4, <1>0, <1>5
<1>9. GroupsUniform'
  BY <1>2, <1>4, <1>6, UniformKept DEF IInv
<1>10. CASE Cardinality(got) >= call.nframes
  <2>1. frames' = frames \cup new /\ lost' = lost /\ held' = held \cup {got} /\ call' = Idle
    BY <1>6, <1>10
  <2>2. TypeOK'
    BY <2>1, <1>0, <1>5 DEF IInv, TypeOK
  <2>3. BitmapExact'
    <3>1. \A f : (f \in frames') <=> InOneOf(f, Boot, held', lost', Got')
      BY <2>1, <1>7 DEF Got, Idle, InOneOf
    <3>2. frames' = Boot \cup (UNION held') \cup lost' \cup Got'
      BY <3>1 DEF InOneOf
    <3> QED BY <3>2 DEF BitmapExact, Boot, BIT_FRAME_SIZE, MAX_BUDDY_SIZE
  <2>4. HeldOnce'
    <3>1. \A h \in held : h \cap got = {}
      <4>1. \A h \in held : h \subseteq frames /\ h \cap call.got = {}
        BY <1>0, <1>7 DEF IInv, HeldOnce, Got, InOneOf
      <4> QED BY <4>1, <1>4
    <3>2. got \cap (Boot \cup lost) = {}
      <4>1. Boot \cup lost \subseteq frames
        BY <1>7 DEF InOneOf
      <4>2. call.got \cap (Boot \cup lost) = {}
        BY <1>0 DEF IInv, CallApart, Got
      <4> QED BY <4>1, <4>2, <1>4
    <3> QED BY <3>1, <3>2, <2>1, <1>0 DEF IInv, HeldOnce, Got, Idle
  <2>5. HeldShape'
    <3>1. ASSUME Cardinality(got) <= MAX_BUDDY_SIZE PROVE got = new
      BY <3>1, <1>0, <1>8, Sizes DEF IInv, CallShape, Idle
    <3>2. got = new => IsGroup(got)
      BY <1>2, <1>4 DEF IsGroup
    <3>3. ASSUME NEW h \in held'
          PROVE  IsFiniteSet(h) /\ (Cardinality(h) <= MAX_BUDDY_SIZE => IsGroup(h))
      <4>1. CASE h = got
        BY <4>1, <3>1, <3>2, <1>8
      <4>2. CASE h \in held
        BY <4>2 DEF IInv, HeldShape
      <4> QED BY <4>1, <4>2, <2>1
    <3> QED BY <3>3 DEF HeldShape
  <2>6. CallShape' /\ CallApart'
    BY <2>1 DEF CallShape, CallApart, Got, Idle
  <2> QED BY <2>2, <2>3, <2>4, <2>5, <2>6, <1>9 DEF IInv
<1>11. CASE ~(Cardinality(got) >= call.nframes)
  <2>1. /\ frames' = frames \cup new /\ lost' = lost /\ held' = held
        /\ call' = [call EXCEPT !.got = got, !.i = @ + 1]
    BY <1>6, <1>11
  <2>2. call' \in [op : {"find"}, nframes : Requests, i : 0 .. frames_num, got : SUBSET Frame]
        /\ call'.got = got /\ call'.op = "find" /\ call'.nframes = call.nframes
    <3>1. call.i + 1 \in 0 .. frames_num
      BY <1>2, FrameAssumption DEF Words
    <3>2. got \subseteq Frame
      BY <1>0, <1>5
    <3> QED BY <3>1, <3>2, <2>1, <1>0
  <2>3. TypeOK'
    BY <2>1, <2>2, <1>5 DEF IInv, TypeOK
  <2>4. BitmapExact'
    <3>1. \A f : (f \in frames') <=> InOneOf(f, Boot, held', lost', Got')
      BY <2>1, <2>2, <1>7 DEF Got, InOneOf
    <3>2. frames' = Boot \cup (UNION held') \cup lost' \cup Got'
      BY <3>1 DEF InOneOf
    <3> QED BY <3>2 DEF BitmapExact, Boot, BIT_FRAME_SIZE, MAX_BUDDY_SIZE
  <2>5. HeldOnce'
    <3>1. \A h \in held : h \subseteq frames
      BY <1>7 DEF InOneOf
    <3> QED BY <3>1, <2>1, <2>2, <1>0, <1>4 DEF IInv, HeldOnce, Got
  <2>6. CallShape'
    <3>1. cur_nof = MAX_BUDDY_SIZE /\ call.nframes % MAX_BUDDY_SIZE = 0
      BY <1>0, <1>8, <1>11, FS_EmptySet
    <3>2. Cardinality(call.got) % MAX_BUDDY_SIZE = 0
      <4>1. CASE call.got = {}
        BY <4>1, FS_EmptySet, Sizes
      <4>2. CASE call.got # {}
        BY <4>2, <1>0 DEF IInv, CallShape, Idle
      <4> QED BY <4>1, <4>2
    <3>3. MAX_BUDDY_SIZE % MAX_BUDDY_SIZE = 0
      BY Sizes
    <3>4. Cardinality(got) % MAX_BUDDY_SIZE = 0 /\ Cardinality(got) >= MAX_BUDDY_SIZE
      BY <3>1, <3>2, <3>3, <1>0, <1>8, Sizes, Multiples
    <3>5. Cardinality(got) < call.nframes
      BY <1>0, <1>1, <1>8, <1>11, Sizes
    <3> QED BY <3>1, <3>4, <3>5, <2>2, <1>8 DEF CallShape
  <2>7. CallApart'
    <3>1. Boot \cup lost \subseteq frames
      BY <1>7 DEF InOneOf
    <3> QED BY <3>1, <2>1, <2>2, <1>0, <1>4 DEF IInv, CallApart, Got
  <2>8. HeldShape'
    BY <2>1 DEF IInv, HeldShape, IsGroup, Groups
  <2> QED BY <2>3, <2>4, <2>5, <2>6, <2>7, <2>8, <1>9 DEF IInv
<1> QED BY <1>10, <1>11

\* A call of find_alloc_nframes has found nothing yet.
LEMMA BeginKeeps ==
    ASSUME IInv, NEW n \in Requests, FindBegin(n)
    PROVE  IInv'
<1>1. /\ call = Idle /\ frames' = frames /\ held' = held /\ lost' = lost
      /\ call' = [op |-> "find", nframes |-> n, i |-> 0, got |-> {}]
  BY DEF FindBegin
<1>2. Got = {} /\ Got' = {}
  BY <1>1 DEF Got, Idle
<1>3. TypeOK'
  BY <1>1, FrameAssumption DEF IInv, TypeOK
<1>4. HeldOnce' /\ BitmapExact' /\ CallApart'
  BY <1>1, <1>2 DEF IInv, HeldOnce, BitmapExact, CallApart
<1>5. GroupsUniform' /\ HeldShape'
  BY <1>1 DEF IInv, GroupsUniform, FreeGroups, HeldShape
<1>6. CallShape'
  <2>1. n \in Nat /\ n > 0
    BY RequestsAssumption, Sizes DEF Bs
  <2> QED BY <2>1, <1>1, FS_EmptySet DEF CallShape
<1> QED BY <1>3, <1>4, <1>5, <1>6 DEF IInv

\* A miss moves to the next word.
LEMMA MissKeeps ==
    ASSUME IInv, FindMiss
    PROVE  IInv'
<1>0. /\ call.op = "find" /\ call # Idle
      /\ call \in [op : {"find"}, nframes : Requests, i : 0 .. frames_num, got : SUBSET Frame]
  BY DEF FindMiss, IInv, TypeOK, Idle
<1>1. /\ frames' = frames /\ held' = held /\ lost' = lost
      /\ call' = [call EXCEPT !.i = @ + 1]
  BY DEF FindMiss
<1>2. /\ call' \in [op : {"find"}, nframes : Requests, i : 0 .. frames_num, got : SUBSET Frame]
      /\ call'.op = "find" /\ call'.got = call.got /\ call'.nframes = call.nframes
  <2>1. call.i + 1 \in 0 .. frames_num
    BY <1>0, FrameAssumption DEF FindMiss
  <2> QED BY <2>1, <1>0, <1>1
<1>3. Got' = Got
  BY <1>0, <1>2 DEF Got
<1>4. TypeOK'
  BY <1>1, <1>2 DEF IInv, TypeOK
<1>5. HeldOnce' /\ BitmapExact' /\ CallApart'
  BY <1>1, <1>3 DEF IInv, HeldOnce, BitmapExact, CallApart
<1>6. GroupsUniform' /\ HeldShape'
  BY <1>1 DEF IInv, GroupsUniform, HeldShape
<1>7. CallShape'
  BY <1>0, <1>2 DEF IInv, CallShape
<1> QED BY <1>4, <1>5, <1>6, <1>7 DEF IInv

\* A failure leaves what was found marked, and nobody else has it.
LEMMA FailKeeps ==
    ASSUME IInv, FindFails
    PROVE  IInv'
<1>0. /\ call.op = "find"
      /\ call \in [op : {"find"}, nframes : Requests, i : 0 .. frames_num, got : SUBSET Frame]
  BY DEF FindFails, IInv, TypeOK, Idle
<1>1. /\ frames' = frames /\ held' = held /\ lost' = lost \cup call.got /\ call' = Idle
  BY DEF FindFails
<1>2. Got = call.got /\ Got' = {}
  BY <1>0, <1>1 DEF Got, Idle
<1>3. TypeOK'
  BY <1>0, <1>1 DEF IInv, TypeOK
<1>4. HeldOnce' /\ CallApart'
  BY <1>1, <1>2 DEF IInv, HeldOnce, CallApart
<1>5. BitmapExact'
  BY <1>1, <1>2 DEF IInv, BitmapExact
<1>6. GroupsUniform' /\ HeldShape'
  BY <1>1 DEF IInv, GroupsUniform, HeldShape
<1>7. CallShape'
  BY <1>1 DEF CallShape
<1> QED BY <1>3, <1>4, <1>5, <1>6, <1>7 DEF IInv

\* dealloc_nframes clears the group it was given, the whole of it and no more.
LEMMA DeallocKeeps ==
    ASSUME IInv, NEW h \in held, dealloc_nframes(h)
    PROVE  IInv'
<1>1. /\ call = Idle /\ held' = held \ {h} /\ lost' = lost /\ call' = Idle
      /\ frames' = frames \ (Min(h) .. Min(h) + Cardinality(h) - 1)
  BY DEF dealloc_nframes
<1>2. Got = {} /\ Got' = {}
  BY <1>1 DEF Got, Idle
<1>3. PICK i \in Words, b \in Bs : \E j \in Groups(i, 2 ^ b) : h = Span(j, b)
  BY DEF dealloc_nframes, IInv, HeldShape, IsGroup
<1>4. PICK j \in Groups(i, 2 ^ b) : h = Span(j, b)
  BY <1>3
<1>5. Min(h) = j /\ Cardinality(h) = 2 ^ b
  BY <1>4, GroupFacts
<1>6. frames' = frames \ h
  BY <1>1, <1>4, <1>5 DEF Span
<1>7. TypeOK'
  BY <1>1, <1>6 DEF IInv, TypeOK
<1>8. HeldOnce' /\ CallApart'
  BY <1>1, <1>2 DEF IInv, HeldOnce, CallApart
<1>9. BitmapExact'
  <2>1. \A f : (f \in frames) <=> InOneOf(f, Boot, held, lost, {})
    <3>1. frames = Boot \cup (UNION held) \cup lost \cup {}
      BY <1>2 DEF IInv, BitmapExact
    <3> QED BY <3>1, FrameByFrame
  <2>2. h \cap Boot = {} /\ h \cap lost = {} /\ \A g \in held : g # h => g \cap h = {}
    BY <1>2 DEF IInv, HeldOnce
  <2>3. \A f : (f \in frames') <=> InOneOf(f, Boot, held', lost', {})
    BY <2>1, <2>2, <1>1, <1>6 DEF InOneOf
  <2>4. frames' = Boot \cup (UNION held') \cup lost' \cup {}
    BY <2>3 DEF InOneOf
  <2> QED BY <2>4, <1>2 DEF BitmapExact, Boot, BIT_FRAME_SIZE, MAX_BUDDY_SIZE
<1>10. GroupsUniform'
  BY <1>4, <1>6, UniformKept DEF IInv
<1>11. HeldShape'
  BY <1>1 DEF IInv, HeldShape
<1>12. CallShape'
  BY <1>1 DEF CallShape
<1> QED BY <1>7, <1>8, <1>9, <1>10, <1>11, <1>12 DEF IInv

\* Every step keeps the invariant.
LEMMA NextKeeps == IInv /\ [Next]_vars => IInv'
<1> SUFFICES ASSUME IInv, [Next]_vars PROVE IInv'
  OBVIOUS
<1>1. ASSUME NEW n \in Requests, FindBegin(n) PROVE IInv'
  BY <1>1, BeginKeeps
<1>2. CASE FindHit
  BY <1>2, HitKeeps
<1>3. CASE FindMiss
  BY <1>3, MissKeeps
<1>4. CASE FindFails
  BY <1>4, FailKeeps
<1>5. ASSUME NEW h \in held, dealloc_nframes(h) PROVE IInv'
  BY <1>5, DeallocKeeps
<1>6. CASE UNCHANGED vars
  <2>1. frames' = frames /\ held' = held /\ lost' = lost /\ call' = call
    BY <1>6 DEF vars
  <2>2. Got' = Got
    BY <2>1 DEF Got
  <2>3. TypeOK' /\ HeldOnce' /\ BitmapExact' /\ CallApart'
    BY <2>1, <2>2 DEF IInv, TypeOK, HeldOnce, BitmapExact, CallApart
  <2>4. GroupsUniform' /\ HeldShape' /\ CallShape'
    BY <2>1 DEF IInv, GroupsUniform, HeldShape, CallShape
  <2> QED BY <2>3, <2>4 DEF IInv
<1> QED BY <1>1, <1>2, <1>3, <1>4, <1>5, <1>6 DEF Next

----------------------------------------------------------------------------
\* The invariant holds in every state the allocator reaches.
THEOREM Invariance == Spec => []IInv
BY InitHolds, NextKeeps, PTL DEF Spec

\* find_alloc_nframes hands no frame to two callers, and none that the kernel is
\* loaded into, although it tests one bit of each group.
THEOREM NoFrameTwice == Spec => []HeldOnce
<1>1. IInv => HeldOnce
  BY DEF IInv
<1> QED BY <1>1, Invariance, PTL

\* The bitmap marks what is in use or was lost by a search that failed half way,
\* and dealloc_nframes clears what it was given.
THEOREM BitmapIsExact == Spec => []BitmapExact
<1>1. IInv => BitmapExact
  BY DEF IInv
<1> QED BY <1>1, Invariance, PTL

\* The frames of every group are marked together, for every way in which searches
\* for groups of all sizes and releases follow one another.
THEOREM FirstFrameIsEnough == Spec => []GroupsUniform
<1>1. IInv => GroupsUniform
  BY DEF IInv
<1> QED BY <1>1, Invariance, PTL

----------------------------------------------------------------------------
\* A search for one group has seen no free one in the words behind it.
SeenFull ==
    (call.op = "find" /\ call.nframes <= MAX_BUDDY_SIZE) =>
        \A k \in 0 .. call.i - 1 : FreeGroups(k, call.nframes) = {}

\* A search for one group has found nothing while it goes on, and looks for all of
\* it at once.
LEMMA OneGroup ==
    ASSUME IInv, call.op = "find", call.nframes <= MAX_BUDDY_SIZE
    PROVE  cur_nof = call.nframes
<1>1. call.nframes \in Nat /\ Cardinality(call.got) \in Nat
  BY NofIsSize
<1>2. CASE call.got = {}
  BY <1>2, <1>1, FS_EmptySet, Sizes DEF cur_nof
<1>3. CASE call.got # {}
  BY <1>3, <1>1, Sizes DEF IInv, CallShape, Idle
<1> QED BY <1>2, <1>3

\* Such a search marks nothing before it is over, so that what it has seen stays so.
LEMMA SeenFullKept == IInv /\ SeenFull /\ [Next]_vars => SeenFull'
<1> SUFFICES ASSUME IInv, SeenFull, [Next]_vars PROVE SeenFull'
  OBVIOUS
<1>1. ASSUME NEW n \in Requests, FindBegin(n) PROVE SeenFull'
  BY <1>1 DEF FindBegin, SeenFull
<1>2. CASE FindHit
  <2>1. CASE call' = Idle
    BY <2>1 DEF SeenFull, Idle
  <2>2. CASE call' # Idle
    <3> DEFINE j == Min(FreeGroups(call.i, cur_nof))
               got == call.got \cup (j .. j + cur_nof - 1)
    <3>1. /\ ~(Cardinality(got) >= call.nframes)
          /\ call' = [call EXCEPT !.got = got, !.i = @ + 1]
      BY <1>2, <2>2 DEF FindHit
    <3>2. call'.nframes = call.nframes
      BY <3>1, <1>2, NofIsSize DEF FindHit
    <3>3. IInv' /\ call'.op = "find"
      BY <1>2, <3>1, HitKeeps, NofIsSize DEF FindHit
    <3>4. call'.got = got /\ j \in got
      <4> PICK b \in Bs : cur_nof = 2 ^ b
        BY <1>2, NofIsSize DEF FindHit
      <4>1. call.i \in Words
        BY <1>2, NofIsSize, FrameAssumption DEF FindHit, Words
      <4>2. j \in FreeGroups(call.i, 2 ^ b)
        BY <1>2, <4>1, MinFree DEF FindHit
      <4>3. j \in Nat /\ cur_nof \in Nat \ {0}
        BY <4>1, <4>2, GroupPlace, Sizes, FrameAssumption DEF FreeGroups, Words
      <4> HIDE DEF j
      <4> QED BY <4>3, <3>1, <1>2, NofIsSize DEF FindHit
    <3>5. call'.nframes > MAX_BUDDY_SIZE
      <4>1. /\ Cardinality(call'.got) < call'.nframes
            /\ Cardinality(call'.got) >= MAX_BUDDY_SIZE
            /\ Cardinality(call'.got) \in Nat
        BY <3>3, <3>4, <2>2, FS_CardinalityType DEF IInv, CallShape
      <4> QED BY <4>1, <3>2, <1>2, NofIsSize, Sizes DEF FindHit
    <3>6. ~(call'.nframes <= MAX_BUDDY_SIZE)
      BY <3>5, <3>2, <1>2, NofIsSize, Sizes DEF FindHit
    <3> QED BY <3>6 DEF SeenFull, MAX_BUDDY_SIZE
  <2> QED BY <2>1, <2>2
<1>3. CASE FindMiss
  <2>1. /\ call.op = "find" /\ frames' = frames /\ call' = [call EXCEPT !.i = @ + 1]
        /\ FreeGroups(call.i, cur_nof) = {}
    BY <1>3 DEF FindMiss
  <2>2. /\ call'.i = call.i + 1 /\ call'.nframes = call.nframes /\ call.i \in Nat
    BY <2>1, NofIsSize, FrameAssumption
  <2>3. ASSUME call.nframes <= MAX_BUDDY_SIZE, NEW k \in 0 .. call.i
        PROVE  Groups(k, call.nframes) \ frames = {}
    <3>1. CASE k = call.i
      BY <3>1, <2>1, <2>3, OneGroup DEF FreeGroups
    <3>2. CASE k \in 0 .. call.i - 1
      BY <3>2, <2>1, <2>3 DEF SeenFull, FreeGroups
    <3> QED BY <3>1, <3>2, <2>2
  <2>4. 0 .. call'.i - 1 = 0 .. call.i
    BY <2>2
  <2>5. SUFFICES ASSUME call.nframes <= MAX_BUDDY_SIZE, NEW k \in 0 .. call.i
                 PROVE  FreeGroups(k, call.nframes)' = {}
    BY <2>2, <2>4 DEF SeenFull, MAX_BUDDY_SIZE
  <2> QED BY <2>1, <2>2, <2>3, <2>5 DEF FreeGroups
<1>4. CASE FindFails
  BY <1>4 DEF FindFails, SeenFull, Idle
<1>5. ASSUME NEW h \in held, dealloc_nframes(h) PROVE SeenFull'
  BY <1>5 DEF dealloc_nframes, SeenFull, Idle
<1>6. CASE UNCHANGED vars
  BY <1>6 DEF vars, SeenFull, FreeGroups
<1> QED BY <1>1, <1>2, <1>3, <1>4, <1>5, <1>6 DEF Next

\* find_alloc_nframes fails for one group only when the bitmap has no free group of
\* that size in any word.
THEOREM FullWhenFails == Spec => FailsOnlyWhenFull
<1> DEFINE Fails == /\ call.op = "find" /\ call' = Idle /\ held' = held
                    /\ call.nframes <= MAX_BUDDY_SIZE
           Full == \A i \in 0 .. frames_num - 1 : FreeGroups(i, call.nframes) = {}
<1>1. Init => SeenFull
  BY DEF Init, SeenFull, Idle
<1>2. IInv /\ SeenFull /\ [Next]_vars => [Fails => Full]_vars
  <2> SUFFICES ASSUME IInv, SeenFull, Next, Fails PROVE Full
    OBVIOUS
  <2>1. call # Idle
    BY DEF Idle
  <2>2. ~FindMiss
    BY NofIsSize DEF FindMiss, Idle
  <2>3. ~FindHit
    <3> SUFFICES ASSUME FindHit PROVE FALSE
      OBVIOUS
    <3> DEFINE j == Min(FreeGroups(call.i, cur_nof))
               got == call.got \cup (j .. j + cur_nof - 1)
    <3>1. got \in held
      <4>1. \/ held' = held \cup {got}
            \/ call' = [call EXCEPT !.got = got, !.i = @ + 1]
        BY DEF FindHit
      <4>2. call' # [call EXCEPT !.got = got, !.i = @ + 1]
        BY NofIsSize DEF Idle
      <4> QED BY <4>1, <4>2
    <3> PICK b \in Bs : cur_nof = 2 ^ b
      BY NofIsSize
    <3>2. call.i \in Words
      BY NofIsSize, FrameAssumption DEF FindHit, Words
    <3>3. j \in FreeGroups(call.i, 2 ^ b)
      BY <3>2, MinFree DEF FindHit
    <3>4. j \in Nat /\ cur_nof \in Nat \ {0} /\ j \notin frames
      BY <3>2, <3>3, GroupPlace, Sizes, FrameAssumption DEF FreeGroups, Words
    <3> HIDE DEF j
    <3>5. j \in got
      BY <3>4
    <3>6. got \subseteq frames
      BY <3>1 DEF IInv, BitmapExact
    <3> QED BY <3>4, <3>5, <3>6
  <2>4. FindFails
    BY <2>1, <2>2, <2>3 DEF Next, FindBegin, dealloc_nframes
  <2> QED BY <2>4 DEF FindFails, SeenFull
<1>3. Spec => [][Fails => Full]_vars
  <2> HIDE DEF Fails, Full
  <2> QED BY <1>1, <1>2, InitHolds, NextKeeps, SeenFullKept, PTL DEF Spec
<1> QED BY <1>3, PTL DEF FailsOnlyWhenFull
=============================================================================
