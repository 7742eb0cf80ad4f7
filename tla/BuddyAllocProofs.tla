-------------------------- MODULE BuddyAllocProofs --------------------------
(***************************************************************************)
(* The lists and the bits of the buddy allocator are those of the blocks   *)
(* that callers hold: a block is in a list exactly when nothing in it is   *)
(* held and something in the block around it is, and its bit is set        *)
(* exactly when something in it is held.  From this follows that every     *)
(* page belongs to one block and that halves are merged.                   *)
(***************************************************************************)
EXTENDS BuddyAlloc, FiniteSetTheorems, SequenceTheorems, WellFoundedInduction, TLAPS

----------------------------------------------------------------------------
\* Addresses.  Idx numbers the blocks of an order from address 0.

Idx(o, a) == a \div BlockSize(o)

\* a and b lie in one block of order o.
Same(o, a, b) == Idx(o, a) = Idx(o, b)

\* A block of order o starts at a.
At(o, a) == a = Idx(o, a) * BlockSize(o)

First == Idx(Top, mem_start)
InRange(a) == Idx(Top, a) \in First .. First + max_map_size - 1

Block(o, a) == o \in Orders /\ a \in Nat /\ At(o, a) /\ InRange(a)

----------------------------------------------------------------------------
\* Blocks that are held.  T is a set of blocks.

BlockRec == [addr : Nat, order : Orders]
Blk(o, a) == [addr |-> a, order |-> o]

\* The block of order o around a and the block t share a page.
Meets(o, a, t) == IF t.order <= o THEN Same(o, a, t.addr) ELSE Same(t.order, a, t.addr)

\* The block of order o around a contains a block of T, or shares no page with one.
Held(T, o, a) == \E t \in T : t.order <= o /\ Same(o, a, t.addr)
Apart(T, o, a) == \A t \in T : ~ Meets(o, a, t)

\* The blocks of order o that are free when those in T are held.
IsFree(T, o, a) ==
    /\ Block(o, a) /\ Apart(T, o, a)
    /\ o = Top \/ Held(T, o + 1, a)
FreeSet(T, o) == {a \in Nat : IsFree(T, o, a)}

----------------------------------------------------------------------------
\* The inductive invariant.  f is free_list, n num_free, u used and s live.

NatSeq == Seq(Nat)

\* s lists the addresses in S, each once.
ListOf(s, S) ==
    /\ s \in NatSeq /\ \A a \in Nat : a \in S <=> \E i \in 1 .. Len(s) : s[i] = a
    /\ \A i, j \in 1 .. Len(s) : s[i] = s[j] => i = j

Lists(f, n, T) ==
    /\ f \in [Orders -> NatSeq] /\ n \in [Orders -> Nat]
    /\ \A o \in Orders : ListOf(f[o], FreeSet(T, o)) /\ n[o] = Len(f[o])

\* The bits are set of the blocks that contain a block held, and from order m
\* on of those around addr.
Bits(u, T, m, addr) ==
    \A o \in Orders, a \in Nat :
        InRange(a) => (BitOf(o, a) \in u <=> Held(T, o, a) \/ (m <= o /\ Same(o, a, addr)))

\* Of the blocks around a from order o on, a right half has something held in
\* its left half, by one of the first k blocks.
LeftTaken(s, o, a, k) ==
    \A p \in o .. Top - 1 :
        Idx(p, a) % 2 = 1 =>
            \E j \in 1 .. k : s[j].order <= p /\ Idx(p, s[j].addr) = Idx(p, a) - 1

BlockSeq == Seq(BlockRec)
BlocksOf(s) == {s[i] : i \in 1 .. Len(s)}
LiveOK(s) ==
    /\ s \in BlockSeq
    /\ \A i \in 1 .. Len(s) :
          /\ Block(s[i].order, s[i].addr)
          /\ LeftTaken(s, s[i].order, s[i].addr, i - 1)
    /\ \A i, j \in 1 .. Len(s) : Meets(s[i].order, s[i].addr, s[j]) => i = j

\* A block of order o at a, between the lists and a caller.
Pending(f, n, s, o, a) ==
    /\ Block(o, a) /\ Apart(BlocksOf(s), o, a) /\ LeftTaken(s, o, a, Len(s))
    /\ Lists(f, n, BlocksOf(s) \cup {Blk(o, a)})

Settled(f, n, s, u) == Lists(f, n, BlocksOf(s)) /\ Bits(u, BlocksOf(s), MAX_ORDER, mem_start)

Pos == Nat \ {0}
AllocCall == [op : {"alloc"}, left : Pos]
SliceCall == [op : {"slice"}, addr : Nat, start : Orders, target : Orders, nframes : Pos, left : Pos]
FreeCall == [op : {"free"}, addr : Nat, order : Orders]
CoalesceCall == [op : {"coalesce"}, addr : Nat, order : Orders]

Between == (call = Idle \/ call \in AllocCall) /\ Settled(free_list, num_free, live, used)

InSlice ==
    /\ call \in SliceCall
    /\ call.target < call.start /\ call.target = get_buddy_order(call.nframes)
    /\ Pending(free_list, num_free, live, call.start, call.addr)
    /\ Bits(used, BlocksOf(live), call.start + 1, call.addr)

\* The block freed has order t, which the search for the bit has not passed.
InFree ==
    /\ call \in FreeCall
    /\ \E t \in Orders :
          /\ call.order <= t /\ Pending(free_list, num_free, live, t, call.addr)
          /\ Bits(used, BlocksOf(live), t, call.addr)

InCoalesce ==
    /\ call \in CoalesceCall
    /\ Pending(free_list, num_free, live, call.order, call.addr)
    /\ Bits(used, BlocksOf(live), call.order, call.addr)

BuddyInv == LiveOK(live) /\ (Between \/ InSlice \/ InFree \/ InCoalesce)

----------------------------------------------------------------------------
\* Arithmetic of blocks.

LEMMA Sizes ==
  /\ Top \in Nat /\ Top \in Orders /\ 0 \in Orders
  /\ \A o \in Orders : /\ BlockSize(o) \in Nat \ {0} /\ o \in Nat /\ o <= Top /\ 2 ^ o \in Nat \ {0}
                       /\ o < Top => o + 1 \in Orders /\ BlockSize(o + 1) = 2 * BlockSize(o)
<1>1. Top \in Nat /\ Orders = 0 .. Top
  BY BuddyAssumption DEF Top, Orders
<1>2. ASSUME NEW o \in Orders
      PROVE  /\ BlockSize(o) \in Nat \ {0} /\ 2 ^ o \in Nat \ {0}
             /\ o < Top => BlockSize(o + 1) = 2 * BlockSize(o)
  <2>1. 2 ^ o \in Nat \ {0} /\ (o < Top => 2 ^ (o + 1) = 2 * 2 ^ o)
    BY <1>1, PowersAssumption
  <2>2. PAGE_SIZE \in Nat \ {0}
    BY BuddyAssumption
  <2>3. \A x \in Nat \ {0} : PAGE_SIZE * x \in Nat \ {0} /\ PAGE_SIZE * (2 * x) = 2 * (PAGE_SIZE * x)
    BY <2>2
  <2> QED
    BY <2>1, <2>3 DEF BlockSize
<1> QED
  BY <1>1, <1>2

\* Division, by its quotient and remainder.
LEMMA Quotient ==
  ASSUME NEW a \in Nat, NEW b \in Nat \ {0}
  PROVE  \E q \in Nat, r \in 0 .. b - 1 : q = a \div b /\ r = a % b /\ a = b * q + r
<1>1. a \div b \in Nat
  OBVIOUS
<1>2. a % b \in 0 .. b - 1
  OBVIOUS
<1>3. a % b = a - (a \div b) * b
  OBVIOUS
<1>4. PICK q \in Nat, r \in 0 .. b - 1 : q = a \div b /\ r = a % b /\ r = a - q * b
  BY <1>1, <1>2, <1>3
<1>5. a = b * q + r
  BY <1>4
<1> QED
  BY <1>4, <1>5

LEMMA QuotientIs ==
  ASSUME NEW a \in Nat, NEW b \in Nat \ {0}, NEW q \in Nat, q * b <= a, a < (q + 1) * b
  PROVE  a \div b = q
<1>1. PICK k \in Nat, r \in 0 .. b - 1 : k = a \div b /\ a = b * k + r
  BY Quotient
<1>2. k * b <= a /\ a < (k + 1) * b
  BY <1>1
<1>3. ASSUME NEW x \in Nat, NEW y \in Nat, x < y PROVE (x + 1) * b <= y * b
  <2>1. PICK d \in Nat : y = x + 1 + d
    BY <1>3
  <2>2. y * b = (x + 1) * b + d * b /\ d * b \in Nat
    BY <2>1
  <2> QED
    BY <2>2
<1>4. ~ (k < q)
  BY <1>2, <1>3
<1>5. ~ (q < k)
  BY <1>2, <1>3
<1> QED
  BY <1>1, <1>4, <1>5

LEMMA IdxIs ==
  ASSUME NEW o \in Orders, NEW a \in Nat
  PROVE  /\ Idx(o, a) \in Nat
         /\ Idx(o, a) * BlockSize(o) <= a
         /\ a < (Idx(o, a) + 1) * BlockSize(o)
         /\ \A q \in Nat : q * BlockSize(o) <= a /\ a < (q + 1) * BlockSize(o) => Idx(o, a) = q
<1>1. BlockSize(o) \in Nat \ {0}
  BY Sizes
<1>2. \A q \in Nat : q * BlockSize(o) <= a /\ a < (q + 1) * BlockSize(o) => a \div BlockSize(o) = q
  BY <1>1, QuotientIs
<1>3. PICK b \in Nat \ {0} : b = BlockSize(o)
  BY <1>1
<1>4. /\ a \div b \in Nat /\ (a \div b) * b <= a
      /\ a < ((a \div b) + 1) * b
  <2>1. PICK q \in Nat, r \in 0 .. b - 1 : q = a \div b /\ a = b * q + r
    BY Quotient
  <2>2. q * b <= a /\ a < (q + 1) * b
    BY <2>1
  <2> QED
    BY <2>1, <2>2
<1> QED
  BY <1>2, <1>3, <1>4 DEF Idx

\* One order up the number is halved.
LEMMA IdxUp ==
  ASSUME NEW o \in Orders, o < Top, NEW a \in Nat
  PROVE  Idx(o + 1, a) = Idx(o, a) \div 2
<1>1. o + 1 \in Orders /\ BlockSize(o) \in Nat \ {0} /\ BlockSize(o + 1) = 2 * BlockSize(o)
  BY Sizes
<1>2. PICK b \in Nat \ {0}, k \in Nat : b = BlockSize(o) /\ k = Idx(o, a) /\ k * b <= a /\ a < (k + 1) * b
  BY <1>1, IdxIs
<1>3. PICK q \in Nat : q = k \div 2 /\ (k = 2 * q \/ k = 2 * q + 1)
  BY Z3
<1>4. CASE k = 2 * q
  <2>1. q * (2 * b) = k * b /\ (q + 1) * (2 * b) = (k + 1) * b + b
    BY <1>4
  <2>2. q * (2 * b) <= a /\ a < (q + 1) * (2 * b)
    BY <2>1, <1>2
  <2> QED
    BY <1>1, <1>2, <1>3, <2>2, IdxIs
<1>5. CASE k = 2 * q + 1
  <2>1. q * (2 * b) + b = k * b /\ (q + 1) * (2 * b) = (k + 1) * b
    BY <1>5
  <2>2. q * (2 * b) <= a /\ a < (q + 1) * (2 * b)
    BY <2>1, <1>2
  <2> QED
    BY <1>1, <1>2, <1>3, <2>2, IdxIs
<1> QED
  BY <1>3, <1>4, <1>5

\* An address that is a multiple of the size of a block.
LEMMA Multiple ==
  ASSUME NEW o \in Orders, NEW k \in Nat
  PROVE  k * BlockSize(o) \in Nat /\ Idx(o, k * BlockSize(o)) = k /\ At(o, k * BlockSize(o))
<1>1. PICK b \in Nat \ {0} : b = BlockSize(o)
  BY Sizes
<1>2. k * b \in Nat /\ k * b <= k * b /\ k * b < (k + 1) * b
  OBVIOUS
<1>3. Idx(o, k * b) = k
  BY <1>1, <1>2, IdxIs
<1> QED
  BY <1>1, <1>2, <1>3 DEF At

\* An address at the start of a block is at the start of the lower half, and of
\* the block one order up when its number is even.
LEMMA AtDown ==
  ASSUME NEW o \in Orders, o < Top, NEW a \in Nat, At(o + 1, a)
  PROVE  /\ At(o, a) /\ Idx(o, a) = 2 * Idx(o + 1, a)
         /\ a + BlockSize(o) \in Nat /\ At(o, a + BlockSize(o))
         /\ Idx(o, a + BlockSize(o)) = Idx(o, a) + 1
<1>1. o + 1 \in Orders /\ BlockSize(o + 1) = 2 * BlockSize(o)
  BY Sizes
<1>2. PICK b \in Nat \ {0}, k \in Nat : b = BlockSize(o) /\ k = Idx(o + 1, a)
  BY <1>1, Sizes, IdxIs
<1>3. a = k * (2 * b)
  BY <1>1, <1>2 DEF At
<1>4. a = (2 * k) * b /\ a + b = (2 * k + 1) * b
  BY <1>3
<1>5. 2 * k \in Nat /\ 2 * k + 1 \in Nat
  OBVIOUS
<1>6. At(o, a) /\ Idx(o, a) = 2 * k
  BY <1>2, <1>4, <1>5, Multiple
<1>7. At(o, a + b) /\ Idx(o, a + b) = 2 * k + 1
  BY <1>2, <1>4, <1>5, Multiple
<1> QED
  BY <1>2, <1>6, <1>7

LEMMA AtUp ==
  ASSUME NEW o \in Orders, o < Top, NEW a \in Nat, At(o, a), Idx(o, a) % 2 = 0
  PROVE  At(o + 1, a)
<1>1. o + 1 \in Orders /\ BlockSize(o + 1) = 2 * BlockSize(o)
  BY Sizes
<1>2. PICK b \in Nat \ {0}, k \in Nat : b = BlockSize(o) /\ k = Idx(o, a)
  BY Sizes, IdxIs
<1>3. PICK q \in Nat : k = 2 * q
  <2>1. k % 2 = 0
    BY <1>2
  <2>2. k = 2 * (k \div 2) /\ k \div 2 \in Nat
    BY <2>1
  <2> QED
    BY <2>2
<1>4. a = k * b
  BY <1>2 DEF At
<1>5. a = q * (2 * b)
  BY <1>3, <1>4
<1> QED
  BY <1>1, <1>2, <1>5, Multiple

LEMMA AtOnly ==
  ASSUME NEW o \in Orders, NEW a \in Nat, NEW b \in Nat, At(o, a), At(o, b), Same(o, a, b)
  PROVE  a = b
BY DEF At, Same

----------------------------------------------------------------------------
\* Lying in one block: an equivalence that gets coarser with the order.

LEMMA LeastOf ==
    ASSUME NEW S \in SUBSET Nat, S # {}
    PROVE  \E x \in S : \A y \in S : x <= y
<1> DEFINE R == OpToRel(<, Nat)
<1>1. PICK x \in S : \A y \in S : ~(<<y, x>> \in R)
  <2>1. IsWellFoundedOn(R, Nat)
    BY NatLessThanWellFounded
  <2> HIDE DEF R
  <2> QED
    BY <2>1, WFMin
<1>2. \A y \in S : ~(y < x)
  BY <1>1 DEF OpToRel
<1> QED
  BY <1>2

LEMMA GreatestOf ==
    ASSUME NEW m \in Nat, NEW S \in SUBSET (0 .. m), S # {}
    PROVE  \E x \in S : \A y \in S : y <= x
<1> DEFINE T == {m - x : x \in S}
<1>1. T \in SUBSET Nat /\ T # {}
  <2>1. ASSUME NEW x \in S PROVE m - x \in Nat
    <3>1. x \in 0 .. m
      OBVIOUS
    <3> QED
      BY <3>1
  <2>2. PICK x \in S : TRUE
    OBVIOUS
  <2>3. m - x \in T
    BY <2>2
  <2> QED
    BY <2>1, <2>3
<1>2. PICK t \in T : \A u \in T : t <= u
  BY <1>1, LeastOf
<1>3. PICK x \in S : t = m - x
  BY <1>2
<1>4. ASSUME NEW y \in S PROVE y <= x
  <2>1. m - x <= m - y
    BY <1>2, <1>3
  <2> QED
    BY <2>1
<1> QED
  BY <1>4

LEMMA SameUp ==
  ASSUME NEW o \in Orders, NEW p \in Orders, o <= p, NEW a \in Nat, NEW b \in Nat, Same(o, a, b)
  PROVE  Same(p, a, b)
<1> DEFINE S == {q \in Orders : o <= q /\ ~ Same(q, a, b)}
<1>1. SUFFICES ASSUME S # {} PROVE FALSE
  OBVIOUS
<1>2. S \in SUBSET Nat
  BY Sizes
<1>3. PICK q \in S : \A r \in S : q <= r
  BY <1>1, <1>2, LeastOf
<1>4. q \in Orders /\ o < q /\ ~ Same(q, a, b) /\ o \in Nat /\ q \in Nat /\ q <= Top
  <2>1. q # o
    OBVIOUS
  <2> QED
    BY <2>1, Sizes
<1>5. q - 1 \in Orders /\ q - 1 < Top /\ o <= q - 1
  BY <1>4, Sizes DEF Orders, Top
<1>6. Same(q - 1, a, b)
  BY <1>3, <1>4, <1>5
<1>7. Same((q - 1) + 1, a, b)
  BY <1>5, <1>6, IdxUp DEF Same
<1>8. (q - 1) + 1 = q
  BY <1>4
<1> QED
  BY <1>4, <1>7, <1>8

LEMMA SameIsEquivalence ==
  ASSUME NEW o, NEW a, NEW b, NEW c
  PROVE  /\ Same(o, a, a) /\ (Same(o, a, b) => Same(o, b, a))
         /\ Same(o, a, b) /\ Same(o, b, c) => Same(o, a, c)
BY DEF Same

\* What the following lemmas use of Same.
SameFacts ==
    /\ \A o, p \in Orders, a, b \in Nat : Same(o, a, b) /\ o <= p => Same(p, a, b)
    /\ \A o \in Orders, a, b, c \in Nat :
          /\ Same(o, a, a) /\ (Same(o, a, b) => Same(o, b, a))
          /\ Same(o, a, b) /\ Same(o, b, c) => Same(o, a, c)
    /\ Top \in Orders
    /\ \A o \in Orders : o \in Nat /\ o <= Top /\ (o < Top => o + 1 \in Orders)

LEMMA SameHolds == SameFacts
BY SameUp, SameIsEquivalence, Sizes DEF SameFacts

LEMMA InRangeSame ==
  ASSUME NEW o \in Orders, NEW a \in Nat, NEW b \in Nat, Same(o, a, b), InRange(a)
  PROVE  InRange(b)
<1>1. Same(Top, a, b)
  BY SameHolds DEF SameFacts
<1> QED
  BY <1>1 DEF Same, InRange

----------------------------------------------------------------------------
\* What is free when one more block is held, or a larger one.

LEMMA IsFreeType ==
  ASSUME NEW T, NEW o, NEW a, IsFree(T, o, a)
  PROVE  o \in Orders /\ a \in Nat /\ At(o, a) /\ InRange(a) /\ (o # Top => o < Top /\ o + 1 \in Orders)
BY Sizes DEF IsFree, Block

\* Two free blocks that meet are one.
LEMMA FreeApart ==
  ASSUME NEW T \in SUBSET BlockRec, NEW o, NEW a, NEW p, NEW b,
         IsFree(T, o, a), IsFree(T, p, b), o <= p, Same(p, a, b)
  PROVE  o = p /\ a = b
<1>1. o \in Orders /\ a \in Nat /\ p \in Orders /\ b \in Nat /\ At(o, a) /\ At(p, b)
  BY IsFreeType
<1>2. ASSUME o < p PROVE FALSE
  <2>1. o \in Nat /\ p \in Nat /\ p <= Top /\ Top \in Nat
    BY <1>1, SameHolds DEF SameFacts
  <2>a. o + 1 <= p /\ o < Top
    BY <1>2, <2>1
  <2>b. o + 1 \in Orders
    BY <1>1, <2>a, SameHolds DEF SameFacts
  <2>2. PICK t \in T : t.order <= o + 1 /\ Same(o + 1, a, t.addr)
    BY <2>1, <2>a DEF IsFree, Held
  <2>3. t.addr \in Nat /\ t.order \in Nat /\ t.order <= p
    <3>1. t.addr \in Nat /\ t.order \in Orders
      BY DEF BlockRec
    <3>2. t.order \in Nat
      BY <3>1, SameHolds DEF SameFacts
    <3> QED
      BY <2>1, <2>a, <2>2, <3>1, <3>2
  <2>4. Same(p, a, t.addr) /\ Same(p, b, t.addr)
    BY <1>1, <2>a, <2>b, <2>2, <2>3, SameHolds DEF SameFacts
  <2> QED
    BY <2>3, <2>4 DEF IsFree, Apart, Meets
<1>3. o = p
  BY <1>1, <1>2, SameHolds DEF SameFacts
<1> QED
  BY <1>1, <1>3, AtOnly

\* Taking a free block leaves the others free.
LEMMA TakeOne ==
  ASSUME NEW T \in SUBSET BlockRec, NEW o, NEW a, IsFree(T, o, a), NEW p, NEW b
  PROVE  IsFree(T \cup {Blk(o, a)}, p, b) <=> IsFree(T, p, b) /\ ~ (p = o /\ b = a)
<1> DEFINE n == Blk(o, a)
<1>0. o \in Orders /\ a \in Nat /\ o \in Nat /\ o <= Top /\ n.order = o /\ n.addr = a
  BY IsFreeType, SameHolds DEF Blk, SameFacts
<1> HIDE DEF n
<1>1. ASSUME IsFree(T, p, b), ~ (p = o /\ b = a) PROVE IsFree(T \cup {n}, p, b)
  <2>1. p \in Orders /\ b \in Nat /\ p \in Nat
    BY <1>1, IsFreeType, SameHolds DEF SameFacts
  <2>2. ~ Meets(p, b, n)
    <3>1. CASE o <= p
      BY <1>0, <1>1, <2>1, <3>1, FreeApart, SameHolds DEF Meets, SameFacts
    <3>2. CASE p <= o /\ p # o
      BY <1>0, <1>1, <2>1, <3>2, FreeApart DEF Meets
    <3> QED
      BY <1>0, <2>1, <3>1, <3>2
  <2> QED
    BY <1>1, <2>2 DEF IsFree, Apart, Held
<1>2. ASSUME IsFree(T \cup {n}, p, b) PROVE IsFree(T, p, b) /\ ~ (p = o /\ b = a)
  <2>1. p \in Orders /\ b \in Nat /\ p \in Nat /\ p <= Top /\ Block(p, b) /\ (p # Top => p + 1 \in Orders)
    BY <1>2, IsFreeType, SameHolds DEF SameFacts, IsFree
  <2>2. ~ Meets(p, b, n) /\ Apart(T, p, b)
    BY <1>2 DEF IsFree, Apart
  <2>3. ~ (p = o /\ b = a)
    BY <1>0, <2>1, <2>2, SameHolds DEF Meets, SameFacts
  <2>4. ASSUME p # Top PROVE Held(T, p + 1, b)
    <3>1. PICK t \in T \cup {n} : t.order <= p + 1 /\ Same(p + 1, b, t.addr)
      BY <1>2, <2>4 DEF IsFree, Held
    <3>2. CASE t = n
      <4>1. o <= p + 1 /\ Same(p + 1, b, a)
        BY <1>0, <3>1, <3>2
      <4>2. o # p + 1
        BY <1>0, <2>1, <2>2, <4>1 DEF Meets
      <4>3. o < Top /\ o # Top /\ o + 1 <= p + 1 /\ o + 1 \in Orders /\ p + 1 \in Orders
        BY <1>0, <2>1, <2>4, <4>1, <4>2, SameHolds DEF SameFacts
      <4>4. PICK u \in T : u.order <= o + 1 /\ Same(o + 1, a, u.addr)
        BY <4>3 DEF IsFree, Held
      <4>5. u.addr \in Nat /\ u.order \in Nat /\ u.order <= p + 1
        <5>1. u.addr \in Nat /\ u.order \in Orders
          BY DEF BlockRec
        <5>2. u.order \in Nat
          BY <5>1, SameHolds DEF SameFacts
        <5> QED
          BY <1>0, <2>1, <4>3, <4>4, <5>1, <5>2
      <4>6. Same(p + 1, b, u.addr)
        BY <1>0, <2>1, <4>1, <4>3, <4>4, <4>5, SameHolds DEF SameFacts
      <4> QED
        BY <4>5, <4>6 DEF Held
    <3>3. CASE t \in T
      BY <3>1, <3>3 DEF Held
    <3> QED
      BY <3>2, <3>3
  <2> QED
    BY <2>1, <2>2, <2>3, <2>4 DEF IsFree
<1> QED
  BY <1>1, <1>2 DEF n

LEMMA BlockTypes ==
  ASSUME NEW T \in SUBSET BlockRec, NEW t \in T
  PROVE  t.addr \in Nat /\ t.order \in Orders /\ t.order \in Nat /\ t.order <= Top
<1>1. t.addr \in Nat /\ t.order \in Orders
  BY DEF BlockRec
<1> QED
  BY <1>1, SameHolds DEF SameFacts

\* Holding the lower half of a block instead of the whole frees the upper half,
\* and nothing else.
LEMMA SplitOne ==
  ASSUME NEW T \in SUBSET BlockRec, NEW l, l < Top, NEW a, NEW u, u = l + 1, l \in Orders,
         Block(u, a), Apart(T, u, a), NEW p, NEW b
  PROVE  IsFree(T \cup {Blk(l, a)}, p, b)
            <=> IsFree(T \cup {Blk(u, a)}, p, b) \/ (p = l /\ b = a + BlockSize(l))
<1> DEFINE h == Blk(l, a)
           w == Blk(u, a)
           c == a + BlockSize(l)
<1>0. /\ a \in Nat /\ l \in Nat /\ u \in Nat /\ u \in Orders /\ u <= Top /\ Top \in Nat
      /\ h.order = l /\ h.addr = a /\ w.order = u /\ w.addr = a
  BY SameHolds DEF Blk, SameFacts, Block
<1>1. /\ c \in Nat /\ At(l, c) /\ Idx(l, c) = Idx(l, a) + 1 /\ Idx(l, a) = 2 * Idx(u, a)
      /\ Idx(l, a) \in Nat /\ Idx(u, a) \in Nat
  BY <1>0, AtDown, IdxIs DEF Block
<1>2. Idx(u, c) = Idx(u, a)
  <2>1. Idx(u, c) = Idx(l, c) \div 2
    BY <1>0, <1>1, IdxUp
  <2> QED
    BY <1>1, <2>1
<1> HIDE DEF h, w, c
<1>3. ASSUME NEW x \in Nat, Same(u, x, a), ~ Same(l, x, a) PROVE Idx(l, x) = Idx(l, c)
  <2>1. Idx(u, x) = Idx(l, x) \div 2 /\ Idx(l, x) \in Nat
    BY <1>0, IdxUp, IdxIs
  <2>2. Idx(u, x) = Idx(u, a) /\ Idx(l, x) # Idx(l, a)
    BY <1>3 DEF Same
  <2> QED
    BY <1>1, <2>1, <2>2
<1>4. Same(u, c, a) /\ Same(u, a, c) /\ ~ Same(l, c, a) /\ InRange(c)
  <2>1. Same(u, c, a) /\ Same(u, a, c) /\ ~ Same(l, c, a)
    BY <1>1, <1>2 DEF Same
  <2> QED
    BY <1>0, <1>1, <2>1, InRangeSame DEF Block
<1>5. ASSUME NEW x \in Nat, NEW q \in Orders, Meets(q, x, h) PROVE Meets(q, x, w)
  <2>1. q \in Nat
    BY SameHolds DEF SameFacts
  <2>2. CASE q <= l
    <3>1. Same(l, x, a)
      BY <1>0, <1>5, <2>1, <2>2 DEF Meets
    <3>2. Same(u, x, a)
      BY <1>0, <3>1, SameHolds DEF SameFacts
    <3> QED
      BY <1>0, <2>1, <2>2, <3>2 DEF Meets
  <2>3. CASE u <= q
    BY <1>0, <1>5, <2>1, <2>3 DEF Meets
  <2> QED
    BY <1>0, <2>1, <2>2, <2>3
<1>6. ASSUME IsFree(T \cup {w}, p, b) PROVE IsFree(T \cup {h}, p, b)
  <2>1. p \in Orders /\ b \in Nat /\ p \in Nat
    BY <1>6, IsFreeType, SameHolds DEF SameFacts
  <2>2. ~ Meets(p, b, h) /\ Apart(T, p, b) /\ Block(p, b)
    BY <1>5, <1>6, <2>1 DEF IsFree, Apart
  <2>3. ASSUME Held(T \cup {w}, p + 1, b) PROVE Held(T \cup {h}, p + 1, b)
    BY <1>0, <2>1, <2>3 DEF Held
  <2> QED
    BY <1>6, <2>2, <2>3 DEF IsFree, Apart
<1>7. ASSUME p = l, b = c PROVE IsFree(T \cup {h}, p, b)
  <2>1. Block(l, c)
    BY <1>1, <1>4 DEF Block
  <2>2. ASSUME NEW t \in T PROVE ~ Meets(l, c, t)
    <3>1. SUFFICES ASSUME Meets(l, c, t) PROVE Meets(u, a, t)
      BY DEF Apart
    <3>2. t.addr \in Nat /\ t.order \in Orders /\ t.order \in Nat
      BY BlockTypes
    <3>3. CASE t.order <= l
      <4>1. Same(l, c, t.addr)
        BY <3>1, <3>3 DEF Meets
      <4>2. Same(u, a, t.addr)
        BY <1>0, <1>1, <1>4, <3>2, <4>1, SameHolds DEF SameFacts
      <4> QED
        BY <1>0, <3>2, <3>3, <4>2 DEF Meets
    <3>4. CASE u <= t.order
      <4>1. Same(t.order, c, t.addr)
        BY <1>0, <3>1, <3>2, <3>4 DEF Meets
      <4>2. Same(t.order, a, t.addr)
        BY <1>0, <1>1, <1>4, <3>2, <3>4, <4>1, SameHolds DEF SameFacts
      <4> QED
        BY <1>0, <3>2, <3>4, <4>2 DEF Meets
    <3> QED
      BY <1>0, <3>2, <3>3, <3>4
  <2>3. ~ Meets(l, c, h)
    BY <1>0, <1>4 DEF Meets
  <2>4. Held(T \cup {h}, l + 1, c)
    BY <1>0, <1>4 DEF Held
  <2> QED
    BY <1>7, <2>1, <2>2, <2>3, <2>4 DEF IsFree, Apart
<1>8. ASSUME IsFree(T \cup {h}, p, b), ~ IsFree(T \cup {w}, p, b) PROVE p = l /\ b = c
  <2>1. p \in Orders /\ b \in Nat /\ p \in Nat /\ p <= Top /\ At(p, b) /\ (p # Top => p + 1 \in Orders)
    BY <1>8, IsFreeType, SameHolds DEF SameFacts
  <2>2. Block(p, b) /\ Apart(T, p, b) /\ ~ Meets(p, b, h)
    BY <1>8 DEF IsFree, Apart
  <2>3. CASE Meets(p, b, w)
    <3>1. p <= l
      BY <1>0, <2>1, <2>2, <2>3 DEF Meets
    <3>2. Same(u, b, a) /\ ~ Same(l, b, a)
      <4>1. Same(u, b, a)
        BY <1>0, <2>1, <2>3, <3>1 DEF Meets
      <4>2. ~ Same(l, b, a)
        BY <1>0, <2>1, <2>2, <3>1 DEF Meets
      <4> QED
        BY <4>1, <4>2
    <3>3. Same(l, b, c)
      BY <1>3, <2>1, <3>2 DEF Same
    <3>4. CASE p = l
      BY <1>0, <1>1, <2>1, <3>3, <3>4, AtOnly
    <3>5. CASE p < l
      <4>1. p # Top /\ p + 1 \in Orders /\ p + 1 <= l
        BY <1>0, <2>1, <3>5
      <4>2. PICK t \in T \cup {h} : t.order <= p + 1 /\ Same(p + 1, b, t.addr)
        BY <1>8, <4>1 DEF IsFree, Held
      <4>3. CASE t = h
        BY <1>0, <2>1, <3>2, <4>1, <4>2, <4>3
      <4>4. CASE t \in T
        <5>1. t.addr \in Nat /\ t.order \in Nat /\ t.order <= u
          BY <1>0, <2>1, <4>1, <4>2, <4>4, BlockTypes
        <5>2. Same(u, b, t.addr)
          BY <1>0, <2>1, <4>1, <4>2, <5>1, SameHolds DEF SameFacts
        <5>3. Same(u, a, t.addr)
          BY <1>0, <2>1, <3>2, <5>1, <5>2, SameHolds DEF SameFacts
        <5>4. Meets(u, a, t)
          BY <5>1, <5>3 DEF Meets
        <5> QED
          BY <4>4, <5>4 DEF Apart
      <4> QED
        BY <4>3, <4>4
    <3> QED
      BY <1>0, <2>1, <3>1, <3>4, <3>5
  <2>4. CASE ~ Meets(p, b, w)
    <3>1. p # Top /\ ~ Held(T \cup {w}, p + 1, b)
      BY <1>8, <2>2, <2>4 DEF IsFree, Apart
    <3>2. PICK t \in T \cup {h} : t.order <= p + 1 /\ Same(p + 1, b, t.addr)
      BY <1>8, <3>1 DEF IsFree, Held
    <3>3. t = h /\ l <= p + 1 /\ Same(p + 1, b, a)
      BY <1>0, <3>1, <3>2 DEF Held
    <3>4. ~ (u <= p + 1)
      BY <1>0, <3>1, <3>3 DEF Held
    <3>5. l = p + 1
      BY <1>0, <2>1, <3>3, <3>4
    <3>6. Meets(p, b, h)
      BY <1>0, <2>1, <3>3, <3>5 DEF Meets
    <3> QED
      BY <2>2, <3>6
  <2> QED
    BY <2>3, <2>4
<1>9. IsFree(T \cup {h}, p, b) <=> IsFree(T \cup {w}, p, b) \/ (p = l /\ b = c)
  BY <1>6, <1>7, <1>8
<1> QED
  BY <1>9 DEF h, w, c

----------------------------------------------------------------------------
\* Lists.

LEMMA ListLen ==
  ASSUME NEW s, NEW S, ListOf(s, S)
  PROVE  Len(s) \in Nat /\ s \in Seq(Nat) /\ (Len(s) > 0 <=> s # <<>>)
         /\ \A i \in 1 .. Len(s) : s[i] \in Nat /\ s[i] \in S
<1>1. s \in Seq(Nat)
  BY DEF ListOf, NatSeq
<1>2. Len(s) \in Nat /\ (Len(s) > 0 <=> s # <<>>) /\ \A i \in 1 .. Len(s) : s[i] \in Nat
  BY <1>1
<1> QED
  BY <1>1, <1>2 DEF ListOf

LEMMA ListInsert ==
  ASSUME NEW s, NEW S, ListOf(s, S), NEW a \in Nat, a \notin S, NEW R,
         \A x \in Nat : x \in R <=> x \in S \/ x = a
  PROVE  ListOf(<<a>> \o s, R) /\ Len(<<a>> \o s) = Len(s) + 1
<1> DEFINE r == <<a>> \o s
<1>1. s \in Seq(Nat) /\ Len(s) \in Nat
  BY ListLen
<1>2. r \in Seq(Nat) /\ Len(r) = Len(s) + 1
  BY <1>1
<1>3. r[1] = a /\ \A i \in 1 .. Len(s) : r[i + 1] = s[i]
  BY <1>1
<1> HIDE DEF r
<1>4. \A i \in 1 .. Len(r) : i # 1 => i - 1 \in 1 .. Len(s) /\ r[i] = s[i - 1]
  <2>1. ASSUME NEW i \in 1 .. Len(r), i # 1 PROVE i - 1 \in 1 .. Len(s) /\ r[i] = s[i - 1]
    <3>1. i - 1 \in 1 .. Len(s) /\ (i - 1) + 1 = i
      BY <1>1, <1>2, <2>1
    <3> QED
      BY <1>3, <3>1
  <2> QED
    BY <2>1
<1>5. \A x \in Nat : x \in R <=> \E i \in 1 .. Len(r) : r[i] = x
  <2>1. ASSUME NEW x \in Nat, x \in S PROVE \E i \in 1 .. Len(r) : r[i] = x
    <3>1. PICK i \in 1 .. Len(s) : s[i] = x
      BY <2>1 DEF ListOf
    <3>2. i + 1 \in 1 .. Len(r)
      BY <1>1, <1>2
    <3>3. r[i + 1] = x
      BY <1>3, <3>1
    <3> QED
      BY <3>2, <3>3
  <2>2. 1 \in 1 .. Len(r)
    BY <1>1, <1>2
  <2>3. ASSUME NEW i \in 1 .. Len(r) PROVE r[i] = a \/ r[i] \in S
    BY <1>3, <1>4, ListLen
  <2> QED
    BY <1>3, <2>1, <2>2, <2>3
<1>6. ASSUME NEW i \in 1 .. Len(r), NEW j \in 1 .. Len(r), r[i] = r[j] PROVE i = j
  <2>1. ASSUME NEW k \in 1 .. Len(r), k # 1 PROVE r[k] # a
    BY <1>4, <2>1, ListLen
  <2>2. CASE i = 1 \/ j = 1
    BY <1>3, <1>6, <2>1, <2>2
  <2>3. CASE i # 1 /\ j # 1
    <3>1. i - 1 = j - 1
      <4>1. i - 1 \in 1 .. Len(s) /\ j - 1 \in 1 .. Len(s) /\ s[i - 1] = s[j - 1]
        BY <1>4, <1>6, <2>3
      <4> QED
        BY <4>1 DEF ListOf
    <3> QED
      BY <1>1, <1>2, <3>1
  <2> QED
    BY <2>2, <2>3
<1>7. ListOf(r, R)
  BY <1>2, <1>5, <1>6 DEF ListOf, NatSeq
<1> QED
  BY <1>2, <1>7 DEF r

\* r is s without place k, R is S without s[k].
Dropped(s, k, r) ==
    /\ r \in Seq(Nat) /\ Len(r) = Len(s) - 1
    /\ \A i \in 1 .. Len(r) : r[i] = IF i < k THEN s[i] ELSE s[i + 1]
Without(S, v, R) == \A x \in Nat : x \in R <=> x \in S /\ x # v

LEMMA ListDrop ==
  ASSUME NEW s, NEW S, ListOf(s, S), NEW k \in 1 .. Len(s), NEW r, Dropped(s, k, r),
         NEW R, Without(S, s[k], R)
  PROVE  ListOf(r, R)
<1>1. s \in Seq(Nat) /\ Len(s) \in Nat /\ r \in Seq(Nat) /\ Len(r) = Len(s) - 1
  BY ListLen DEF Dropped
<1> DEFINE At1(i) == IF i < k THEN i ELSE i + 1
<1>2. \A i \in 1 .. Len(r) : At1(i) \in 1 .. Len(s) /\ At1(i) # k /\ r[i] = s[At1(i)]
  <2>1. ASSUME NEW i \in 1 .. Len(r) PROVE At1(i) \in 1 .. Len(s) /\ At1(i) # k
    BY <1>1
  <2>2. ASSUME NEW i \in 1 .. Len(r) PROVE r[i] = s[At1(i)]
    BY DEF Dropped
  <2> QED
    BY <2>1, <2>2
<1>3. \A i, j \in 1 .. Len(r) : At1(i) = At1(j) => i = j
  BY <1>1
<1>4. \A j \in 1 .. Len(s) : j # k => \E i \in 1 .. Len(r) : At1(i) = j
  <2>1. ASSUME NEW j \in 1 .. Len(s), j < k PROVE j \in 1 .. Len(r) /\ At1(j) = j
    BY <1>1, <2>1
  <2>2. ASSUME NEW j \in 1 .. Len(s), k < j PROVE j - 1 \in 1 .. Len(r) /\ At1(j - 1) = j
    BY <1>1, <2>2
  <2> HIDE DEF At1
  <2>3. ASSUME NEW j \in 1 .. Len(s), j # k PROVE \E i \in 1 .. Len(r) : At1(i) = j
    <3>1. j < k \/ k < j
      BY <1>1, <2>3
    <3> QED
      BY <2>1, <2>2, <3>1
  <2> QED
    BY <2>3
<1> HIDE DEF At1
<1>5. \A x \in Nat : x \in R <=> \E i \in 1 .. Len(r) : r[i] = x
  <2>1. ASSUME NEW x \in Nat, x \in R PROVE \E i \in 1 .. Len(r) : r[i] = x
    <3>1. x \in S /\ x # s[k]
      BY <2>1 DEF Without
    <3>2. PICK j \in 1 .. Len(s) : s[j] = x
      BY <3>1 DEF ListOf
    <3>3. PICK i \in 1 .. Len(r) : At1(i) = j
      BY <1>4, <3>1, <3>2
    <3> QED
      BY <1>2, <3>2, <3>3
  <2>2. ASSUME NEW x \in Nat, NEW i \in 1 .. Len(r), r[i] = x PROVE x \in R
    <3>1. At1(i) \in 1 .. Len(s) /\ At1(i) # k /\ x = s[At1(i)]
      BY <1>2, <2>2
    <3>2. x \in S /\ x # s[k]
      BY <3>1, ListLen DEF ListOf
    <3> QED
      BY <3>2 DEF Without
  <2> QED
    BY <2>1, <2>2
<1>6. \A i, j \in 1 .. Len(r) : r[i] = r[j] => i = j
  <2>1. ASSUME NEW i \in 1 .. Len(r), NEW j \in 1 .. Len(r), r[i] = r[j] PROVE i = j
    <3>1. At1(i) \in 1 .. Len(s) /\ At1(j) \in 1 .. Len(s) /\ s[At1(i)] = s[At1(j)]
      BY <1>2, <2>1
    <3>2. At1(i) = At1(j)
      BY <3>1 DEF ListOf
    <3> QED
      BY <1>3, <3>2
  <2> QED
    BY <2>1
<1> QED
  BY <1>1, <1>5, <1>6 DEF ListOf, NatSeq

LEMMA ListTail ==
  ASSUME NEW s, NEW S, ListOf(s, S), Len(s) > 0,
         NEW R, \A x \in Nat : x \in R <=> x \in S /\ x # Head(s)
  PROVE  /\ Head(s) \in Nat /\ Head(s) \in S
         /\ ListOf(Tail(s), R) /\ Len(Tail(s)) = Len(s) - 1
<1>1. s \in Seq(Nat) /\ Len(s) \in Nat /\ Head(s) = s[1] /\ 1 \in 1 .. Len(s)
  BY ListLen
<1>2. Tail(s) \in Seq(Nat) /\ Len(Tail(s)) = Len(s) - 1 /\ \A i \in 1 .. Len(Tail(s)) : Tail(s)[i] = s[i + 1]
  BY <1>1
<1>3. PICK r \in Seq(Nat) : r = Tail(s)
  BY <1>2
<1>k. PICK k \in 1 .. Len(s) : k = 1
  BY <1>1
<1>4. Dropped(s, k, r)
  BY <1>1, <1>2, <1>3, <1>k DEF Dropped
<1>5. Without(S, s[k], R)
  BY <1>1, <1>k DEF Without
<1>6. ListOf(r, R)
  BY <1>4, <1>5, ListDrop
<1> QED
  BY <1>1, <1>2, <1>3, <1>6, ListLen

LEMMA ListRemove ==
  ASSUME NEW s, NEW S, ListOf(s, S), NEW k \in 1 .. Len(s),
         NEW R, \A x \in Nat : x \in R <=> x \in S /\ x # s[k]
  PROVE  ListOf(RemoveAt(s, k), R) /\ Len(RemoveAt(s, k)) = Len(s) - 1
<1> DEFINE x == SubSeq(s, 1, k - 1)
           y == SubSeq(s, k + 1, Len(s))
           r == x \o y
<1>1. s \in Seq(Nat) /\ Len(s) \in Nat
  BY ListLen
<1>2. x \in Seq(Nat) /\ Len(x) = k - 1 /\ \A i \in 1 .. k - 1 : x[i] = s[i]
  BY <1>1
<1>3. y \in Seq(Nat) /\ Len(y) = Len(s) - k /\ \A i \in 1 .. Len(s) - k : y[i] = s[i + k]
  BY <1>1
<1> HIDE DEF x, y
<1>a. /\ r \in Seq(Nat) /\ Len(r) = Len(x) + Len(y)
      /\ \A i \in 1 .. Len(x) + Len(y) : r[i] = IF i <= Len(x) THEN x[i] ELSE y[i - Len(x)]
  BY <1>2, <1>3, ConcatProperties
<1>4. r \in Seq(Nat) /\ Len(r) = Len(s) - 1
  <2>1. (k - 1) + (Len(s) - k) = Len(s) - 1
    BY <1>1
  <2> QED
    BY <1>2, <1>3, <1>a, <2>1
<1> HIDE DEF r
<1>5. ASSUME NEW i \in 1 .. Len(r) PROVE r[i] = IF i < k THEN s[i] ELSE s[i + 1]
  <2>1. CASE i < k
    <3>1. i \in 1 .. k - 1 /\ i <= Len(x)
      BY <1>1, <1>2, <1>4, <2>1
    <3>2. r[i] = x[i]
      BY <1>a, <3>1
    <3> QED
      BY <1>2, <2>1, <3>1, <3>2
  <2>2. CASE ~ (i < k)
    <3>1. i - (k - 1) \in 1 .. Len(s) - k /\ (i - (k - 1)) + k = i + 1 /\ ~ (i <= k - 1)
      BY <1>1, <1>4, <2>2
    <3>2. r[i] = y[i - (k - 1)]
      BY <1>2, <1>a, <2>2, <3>1
    <3> QED
      BY <1>3, <2>2, <3>1, <3>2
  <2> QED
    BY <2>1, <2>2
<1>b. Dropped(s, k, r) /\ Without(S, s[k], R)
  BY <1>4, <1>5 DEF Dropped, Without
<1>6. ListOf(r, R)
  BY <1>b, ListDrop
<1>7. RemoveAt(s, k) = r
  BY DEF RemoveAt, r, x, y
<1> QED
  BY <1>4, <1>6, <1>7

----------------------------------------------------------------------------
\* Orders of requests.

LEMMA PowersGrow ==
  ASSUME NEW o \in Orders, NEW p \in Orders, o <= p
  PROVE  2 ^ o <= 2 ^ p
<1> DEFINE S == {q \in Orders : o <= q /\ 2 ^ q < 2 ^ o}
<1>0. \A q \in Orders : 2 ^ q \in Nat \ {0} /\ q \in Nat /\ q <= Top
  BY Sizes
<1>1. SUFFICES ASSUME S # {} PROVE FALSE
  BY <1>0
<1>2. S \in SUBSET Nat
  BY <1>0
<1>3. PICK q \in S : \A r \in S : q <= r
  BY <1>1, <1>2, LeastOf
<1>4. q \in Orders /\ o <= q /\ 2 ^ q < 2 ^ o
  OBVIOUS
<1>5. q # o
  BY <1>0, <1>4
<1>6. q - 1 \in Orders /\ q - 1 < Top /\ o <= q - 1 /\ (q - 1) + 1 = q /\ q - 1 < q
  BY <1>0, <1>4, <1>5, Sizes DEF Orders, Top
<1>7. 2 ^ o <= 2 ^ (q - 1)
  BY <1>0, <1>3, <1>6
<1>8. 2 ^ ((q - 1) + 1) = 2 * 2 ^ (q - 1)
  <2>1. q - 1 \in 0 .. Top
    BY <1>6 DEF Orders, Top
  <2> QED
    BY <1>6, <2>1, PowersAssumption
<1> QED
  BY <1>0, <1>4, <1>6, <1>7, <1>8

\* get_buddy_order gives the least order whose blocks are large enough.
LEMMA LeastOrder ==
  ASSUME NEW n \in Pos
  PROVE  /\ get_buddy_order(n) \in Orders
         /\ \A o \in Orders : n <= 2 ^ o => get_buddy_order(n) <= o
<1>0. \A q \in Orders : 2 ^ q \in Nat \ {0} /\ q \in Nat /\ q <= Top
  BY Sizes
<1>1. CASE n > MAX_BUDDY_NFRAMES
  <2>1. get_buddy_order(n) = Top
    BY <1>1 DEF get_buddy_order
  <2>2. ASSUME NEW o \in Orders PROVE ~ (n <= 2 ^ o)
    <3>1. 2 ^ o <= 2 ^ Top /\ Top \in Orders
      BY <1>0, PowersGrow, Sizes
    <3> QED
      BY <1>0, <1>1, <3>1 DEF MAX_BUDDY_NFRAMES, Pos
  <2> QED
    BY <2>1, <2>2, Sizes
<1>2. CASE ~ (n > MAX_BUDDY_NFRAMES)
  <2> DEFINE S == {o \in Orders : n <= 2 ^ o}
             C(o) == n <= 2 ^ o /\ \A p \in 0 .. o - 1 : n > 2 ^ p
  <2>1. Top \in S
    BY <1>0, <1>2, Sizes DEF MAX_BUDDY_NFRAMES, Pos
  <2>2. S \in SUBSET Nat /\ S # {}
    BY <1>0, <2>1
  <2>3. PICK g \in S : \A p \in S : g <= p
    BY <2>2, LeastOf
  <2>4. g \in Orders /\ C(g)
    <3>1. ASSUME NEW p \in 0 .. g - 1 PROVE n > 2 ^ p
      <4>1. p \in Orders /\ ~ (g <= p)
        BY <1>0, Sizes DEF Orders, Top
      <4>2. p \notin S
        BY <2>3, <4>1
      <4> QED
        BY <1>0, <4>1, <4>2 DEF Pos
    <3> QED
      BY <3>1
  <2>5. get_buddy_order(n) = CHOOSE o \in Orders : C(o)
    BY <1>2 DEF get_buddy_order
  <2> HIDE DEF C
  <2>6. get_buddy_order(n) \in Orders /\ C(get_buddy_order(n))
    BY <2>4, <2>5
  <2>7. PICK h \in Orders : h = get_buddy_order(n) /\ C(h)
    BY <2>6
  <2>8. ASSUME NEW o \in Orders, n <= 2 ^ o PROVE h <= o
    <3>1. SUFFICES ASSUME o < h PROVE FALSE
      BY <1>0
    <3>2. o \in 0 .. h - 1
      BY <1>0, <3>1
    <3> QED
      BY <1>0, <2>7, <2>8, <3>2 DEF C, Pos
  <2> QED
    BY <2>7, <2>8
<1> QED
  BY <1>1, <1>2

----------------------------------------------------------------------------
\* Bits.

LEMMA MapId ==
  ASSUME NEW o \in Orders, NEW a \in Nat, NEW q \in Nat, NEW r \in 0 .. MAP_SIZE - 1,
         Idx(o, a) = q * MAP_SIZE + r
  PROVE  addr_to_map_id(o, a) = [frame_map |-> q, frame |-> r]
<1>1. PICK b \in Nat \ {0}, m \in Nat \ {0} : b = BlockSize(o) /\ m = MAP_SIZE
  BY Sizes, BuddyAssumption
<1>2. PICK k \in Nat : k = Idx(o, a) /\ k * b <= a /\ a < (k + 1) * b /\ k = q * m + r /\ r \in 0 .. m - 1
  BY <1>1, IdxIs
<1>3. PICK w \in Nat \ {0} : w = b * m
  BY <1>1
<1>4. k * b = q * w + r * b /\ (k + 1) * b = q * w + (r + 1) * b
  <2>0. PICK v \in Nat : v = q * m /\ k = v + r
    BY <1>2
  <2>a. (v + r) * b = v * b + r * b /\ (v + r + 1) * b = v * b + (r + 1) * b
    OBVIOUS
  <2>1. k * b = (q * m) * b + r * b /\ (k + 1) * b = (q * m) * b + (r + 1) * b
    BY <2>0, <2>a
  <2>2. (q * m) * b = q * w
    BY <1>3
  <2> QED
    BY <2>1, <2>2
<1>5. (r + 1) * b <= w /\ r * b \in Nat /\ (r + 1) * b \in Nat /\ q * w \in Nat /\ (q + 1) * w = q * w + w
  <2>1. PICK d \in Nat : m = (r + 1) + d
    BY <1>2
  <2>2. w = (r + 1) * b + d * b /\ d * b \in Nat
    BY <1>3, <2>1
  <2>3. r * b \in Nat /\ (r + 1) * b \in Nat /\ q * w \in Nat /\ (q + 1) * w = q * w + w
    OBVIOUS
  <2> QED
    BY <2>2, <2>3
<1>6. q * w <= a /\ a < (q + 1) * w
  BY <1>2, <1>4, <1>5
<1>7. a \div w = q
  BY <1>6, QuotientIs
<1>8. PICK x \in Nat : x = a % w /\ a = q * w + x
  BY <1>7, Quotient
<1>9. r * b <= x /\ x < (r + 1) * b
  BY <1>2, <1>4, <1>5, <1>8
<1>10. x \div b = r
  BY <1>9, QuotientIs
<1> QED
  BY <1>1, <1>3, <1>7, <1>8, <1>10 DEF addr_to_map_id

LEMMA MapIdExists ==
  ASSUME NEW o \in Orders, NEW a \in Nat
  PROVE  \E q \in Nat, r \in 0 .. MAP_SIZE - 1 :
            /\ Idx(o, a) = q * MAP_SIZE + r
            /\ addr_to_map_id(o, a) = [frame_map |-> q, frame |-> r]
<1>1. PICK k \in Nat, m \in Nat \ {0} : k = Idx(o, a) /\ m = MAP_SIZE
  BY IdxIs, BuddyAssumption
<1>2. PICK q \in Nat, r \in 0 .. m - 1 : q = k \div m /\ r = k % m /\ k = m * q + r
  BY Quotient, Zenon
<1>3. k = q * m + r
  BY <1>2
<1>4. Idx(o, a) = q * MAP_SIZE + r /\ r \in 0 .. MAP_SIZE - 1
  BY <1>1, <1>3
<1>5. addr_to_map_id(o, a) = [frame_map |-> q, frame |-> r]
  BY <1>4, MapId
<1> QED
  BY <1>4, <1>5

LEMMA Start == First \in Nat /\ max_map_size \in Nat /\ mem_start = First * BlockSize(Top) /\ At(Top, mem_start)
<1>1. PICK b \in Nat \ {0} : b = BlockSize(Top)
  BY Sizes
<1>2. mem_start \in Nat /\ mem_start % b = 0 /\ mem_size \in Nat
  BY <1>1, BuddyAssumption, AlignedAssumption DEF mem_size
<1>3. PICK q \in Nat : q = mem_start \div b /\ mem_start = b * q
  <2>1. PICK q \in Nat, r \in 0 .. b - 1 : q = mem_start \div b /\ r = mem_start % b /\ mem_start = b * q + r
    BY <1>2, Quotient
  <2>2. mem_start = b * q
    BY <1>2, <2>1
  <2> QED
    BY <2>1, <2>2
<1>4. max_map_size \in Nat
  <2>1. mem_size \div b \in Nat
    BY <1>2, Quotient
  <2> QED
    BY <1>1, <2>1 DEF max_map_size
<1> QED
  BY <1>1, <1>3, <1>4 DEF First, Idx, At

LEMMA RangeIs ==
  ASSUME NEW x \in Nat, InRange(x)
  PROVE  x \in mem_start .. mem_start + max_map_size * BlockSize(Top) - 1
<1>1. PICK c \in Nat \ {0}, f \in Nat, m \in Nat, k \in Nat :
         c = BlockSize(Top) /\ f = First /\ m = max_map_size /\ k = Idx(Top, x)
  BY Sizes, Start, IdxIs
<1>2. k * c <= x /\ x < (k + 1) * c /\ f <= k /\ k <= f + m - 1
  BY <1>1, IdxIs, Sizes DEF InRange
<1>3. PICK d \in Nat, e \in Nat : k = f + d /\ f + m = k + 1 + e
  BY <1>2
<1>4. k * c = f * c + d * c /\ d * c \in Nat
  BY <1>3
<1>5. (f + m) * c = (k + 1) * c + e * c /\ e * c \in Nat /\ (f + m) * c = f * c + m * c
  <2>1. (k + 1 + e) * c = (k + 1) * c + e * c /\ e * c \in Nat /\ (f + m) * c = f * c + m * c
    OBVIOUS
  <2> QED
    BY <1>3, <2>1
<1>6. PICK y \in Nat, z \in Nat : y = f * c /\ z = m * c
  OBVIOUS
<1>7. x \in y .. y + z - 1
  BY <1>2, <1>4, <1>5, <1>6
<1> QED
  BY <1>1, <1>6, <1>7, Start

\* Blocks of the range have a bit of their own.
LEMMA BitSame ==
  ASSUME NEW o \in Orders, NEW p \in Orders, NEW a \in Nat, NEW b \in Nat, InRange(a), InRange(b)
  PROVE  BitOf(o, a) = BitOf(p, b) <=> o = p /\ Same(o, a, b)
<1> DEFINE range == mem_start .. mem_start + max_map_size * BlockSize(Top) - 1
<1>1. a \in range /\ b \in range
  BY RangeIs
<1>2. ASSUME BitOf(o, a) = BitOf(p, b) PROVE o = p /\ Same(o, a, b)
  BY <1>1, <1>2, BitsAssumption DEF Same, Idx
<1>3. ASSUME o = p, Same(o, a, b) PROVE BitOf(o, a) = BitOf(p, b)
  <2>1. PICK q \in Nat, r \in 0 .. MAP_SIZE - 1 :
            /\ Idx(o, a) = q * MAP_SIZE + r
            /\ addr_to_map_id(o, a) = [frame_map |-> q, frame |-> r]
    BY MapIdExists
  <2>2. addr_to_map_id(o, b) = [frame_map |-> q, frame |-> r]
    <3>1. Idx(o, b) = q * MAP_SIZE + r
      BY <1>3, <2>1 DEF Same
    <3> QED
      BY <3>1, MapId
  <2> QED
    BY <1>3, <2>1, <2>2 DEF BitOf
<1> QED
  BY <1>2, <1>3

\* The number of the other half of a block.
Sibling(k) == IF k % 2 = 1 THEN k - 1 ELSE k + 1

LEMMA OtherHalf ==
  ASSUME NEW o \in Orders, o < Top, NEW a \in Nat, InRange(a)
  PROVE  \E c \in Nat :
            /\ c = map_to_addr(o, buddy_map(addr_to_map_id(o, a)))
            /\ BitOf(o, c) = Bit(o, buddy_map(addr_to_map_id(o, a)))
            /\ Idx(o, c) = Sibling(Idx(o, a)) /\ At(o, c)
            /\ Same(o + 1, c, a) /\ ~ Same(o, c, a) /\ InRange(c)
<1>1. PICK q \in Nat, r \in 0 .. MAP_SIZE - 1 :
            /\ Idx(o, a) = q * MAP_SIZE + r
            /\ addr_to_map_id(o, a) = [frame_map |-> q, frame |-> r]
  BY MapIdExists
<1>2. PICK m \in Nat \ {0}, h \in Nat : m = MAP_SIZE /\ m = 2 * h
  <2>1. MAP_SIZE \in Nat \ {0} /\ MAP_SIZE % 2 = 0
    BY BuddyAssumption, AlignedAssumption
  <2>2. \A x \in Nat \ {0} : x % 2 = 0 => \E y \in Nat : x = 2 * y
    <3>1. ASSUME NEW x \in Nat \ {0}, x % 2 = 0 PROVE x = 2 * (x \div 2) /\ x \div 2 \in Nat
      BY <3>1
    <3> QED
      BY <3>1
  <2> QED
    BY <2>1, <2>2
<1>3. PICK k \in Nat : k = Idx(o, a)
  BY IdxIs
<1>4. k = q * m + r /\ r \in 0 .. m - 1
  BY <1>1, <1>2, <1>3
<1>5. k % 2 = r % 2
  <2>1. PICK z \in Nat : z = q * h
    OBVIOUS
  <2>2. k = 2 * z + r
    BY <1>2, <1>4, <2>1
  <2> QED
    BY <2>2
<1>6. Sibling(r) \in 0 .. m - 1 /\ Sibling(k) \in Nat
  BY <1>2, <1>4 DEF Sibling
<1>7. Sibling(k) = q * m + Sibling(r)
  <2>1. PICK z \in Nat : z = q * m
    OBVIOUS
  <2> QED
    BY <1>4, <1>5, <2>1 DEF Sibling
<1> DEFINE c == Sibling(k) * BlockSize(o)
<1>8. c \in Nat /\ Idx(o, c) = Sibling(k) /\ At(o, c)
  BY <1>6, Multiple
<1>9. buddy_map(addr_to_map_id(o, a)) = [frame_map |-> q, frame |-> Sibling(r)]
  BY <1>1 DEF buddy_map, Sibling
<1>10. c = map_to_addr(o, buddy_map(addr_to_map_id(o, a)))
  BY <1>2, <1>7, <1>9 DEF map_to_addr
<1> HIDE DEF c
<1>11. addr_to_map_id(o, c) = [frame_map |-> q, frame |-> Sibling(r)]
  BY <1>2, <1>6, <1>7, <1>8, MapId
<1>12. BitOf(o, c) = Bit(o, buddy_map(addr_to_map_id(o, a)))
  BY <1>9, <1>11 DEF BitOf
<1>13. Same(o + 1, c, a) /\ ~ Same(o, c, a)
  <2>1. Idx(o + 1, c) = Idx(o, c) \div 2 /\ Idx(o + 1, a) = k \div 2
    BY <1>3, <1>8, IdxUp
  <2>2. Sibling(k) \div 2 = k \div 2 /\ Sibling(k) # k
    BY DEF Sibling
  <2> QED
    BY <1>3, <1>8, <2>1, <2>2 DEF Same
<1>14. InRange(c)
  <2>1. o + 1 \in Orders /\ Same(o + 1, a, c)
    BY <1>13, Sizes DEF Same
  <2> QED
    BY <1>8, <2>1, InRangeSame
<1> QED
  BY <1>3, <1>8, <1>10, <1>12, <1>13, <1>14

----------------------------------------------------------------------------
\* The lists after a block is put in, taken from the head or removed.

\* R differs from T in block <<o, a>> only.
OneMore(T, R, o, a) == \A p \in Orders, b \in Nat : IsFree(R, p, b) <=> IsFree(T, p, b) \/ (p = o /\ b = a)
OneLess(T, R, o, a) == \A p \in Orders, b \in Nat : IsFree(R, p, b) <=> IsFree(T, p, b) /\ ~ (p = o /\ b = a)

LEMMA ListsChange ==
  ASSUME NEW f, NEW n, NEW T, Lists(f, n, T), NEW o \in Orders, NEW R, NEW s,
         ListOf(s, FreeSet(R, o)), NEW c, c = Len(s),
         \A p \in Orders, b \in Nat : p # o => (IsFree(R, p, b) <=> IsFree(T, p, b))
  PROVE  Lists([f EXCEPT ![o] = s], [n EXCEPT ![o] = c], R)
<1> DEFINE g == [f EXCEPT ![o] = s]
           m == [n EXCEPT ![o] = c]
<1>1. s \in NatSeq /\ c \in Nat
  BY ListLen DEF ListOf
<1>2. f \in [Orders -> NatSeq] /\ n \in [Orders -> Nat]
  BY DEF Lists
<1>3. g \in [Orders -> NatSeq] /\ m \in [Orders -> Nat]
  BY <1>1, <1>2
<1>4. g[o] = s /\ m[o] = c /\ \A p \in Orders : p # o => g[p] = f[p] /\ m[p] = n[p]
  BY <1>2
<1> HIDE DEF g, m
<1>5. ASSUME NEW p \in Orders PROVE ListOf(g[p], FreeSet(R, p)) /\ m[p] = Len(g[p])
  <2>1. CASE p = o
    BY <1>4, <2>1
  <2>2. CASE p # o
    <3>1. FreeSet(R, p) = FreeSet(T, p)
      BY <2>2 DEF FreeSet
    <3> QED
      BY <1>4, <2>2, <3>1 DEF Lists
  <2> QED
    BY <2>1, <2>2
<1>6. Lists(g, m, R)
  BY <1>3, <1>5 DEF Lists
<1> QED
  BY <1>6 DEF g, m

LEMMA ListsAt ==
  ASSUME NEW f, NEW n, NEW T, Lists(f, n, T), NEW o \in Orders
  PROVE  ListOf(f[o], FreeSet(T, o)) /\ n[o] = Len(f[o]) /\ Len(f[o]) \in Nat
BY ListLen DEF Lists

LEMMA ListsPut ==
  ASSUME NEW f, NEW n, NEW T, Lists(f, n, T), NEW o \in Orders, NEW a \in Nat, ~ IsFree(T, o, a),
         NEW R, OneMore(T, R, o, a)
  PROVE  Lists([f EXCEPT ![o] = <<a>> \o @], [n EXCEPT ![o] = @ + 1], R)
<1> DEFINE s == <<a>> \o f[o]
           c == n[o] + 1
<1>1. ListOf(f[o], FreeSet(T, o)) /\ n[o] = Len(f[o])
  BY ListsAt
<1>2. a \notin FreeSet(T, o) /\ \A x \in Nat : x \in FreeSet(R, o) <=> x \in FreeSet(T, o) \/ x = a
  BY DEF FreeSet, OneMore
<1>3. ListOf(s, FreeSet(R, o)) /\ Len(s) = Len(f[o]) + 1
  BY <1>1, <1>2, ListInsert
<1>4. \A p \in Orders, b \in Nat : p # o => (IsFree(R, p, b) <=> IsFree(T, p, b))
  BY DEF OneMore
<1>5. c = Len(s)
  BY <1>1, <1>3
<1> HIDE DEF s, c
<1>6. Lists([f EXCEPT ![o] = s], [n EXCEPT ![o] = c], R)
  BY <1>3, <1>4, <1>5, ListsChange
<1> QED
  BY <1>6 DEF s, c

LEMMA ListsTake ==
  ASSUME NEW f, NEW n, NEW T, Lists(f, n, T), NEW o \in Orders, n[o] > 0,
         NEW R, OneLess(T, R, o, Head(f[o]))
  PROVE  Lists([f EXCEPT ![o] = Tail(@)], [n EXCEPT ![o] = @ - 1], R)
<1> DEFINE s == Tail(f[o])
           c == n[o] - 1
<1>1. ListOf(f[o], FreeSet(T, o)) /\ n[o] = Len(f[o]) /\ Len(f[o]) > 0
  BY ListsAt
<1>2. \A x \in Nat : x \in FreeSet(R, o) <=> x \in FreeSet(T, o) /\ x # Head(f[o])
  BY DEF FreeSet, OneLess
<1>3. ListOf(s, FreeSet(R, o)) /\ Len(s) = Len(f[o]) - 1
  BY <1>1, <1>2, ListTail
<1>4. \A p \in Orders, b \in Nat : p # o => (IsFree(R, p, b) <=> IsFree(T, p, b))
  BY DEF OneLess
<1>5. c = Len(s)
  BY <1>1, <1>3
<1> HIDE DEF s, c
<1>6. Lists([f EXCEPT ![o] = s], [n EXCEPT ![o] = c], R)
  BY <1>3, <1>4, <1>5, ListsChange
<1> QED
  BY <1>6 DEF s, c

LEMMA ListsHead ==
  ASSUME NEW f, NEW n, NEW T, Lists(f, n, T), NEW o \in Orders, n[o] > 0
  PROVE  Head(f[o]) \in Nat /\ IsFree(T, o, Head(f[o]))
<1>1. ListOf(f[o], FreeSet(T, o)) /\ n[o] = Len(f[o]) /\ Len(f[o]) > 0
  BY ListsAt
<1>2. f[o] \in Seq(Nat) /\ 1 \in 1 .. Len(f[o]) /\ Head(f[o]) = f[o][1]
  BY <1>1, ListLen
<1>3. f[o][1] \in Nat /\ f[o][1] \in FreeSet(T, o)
  BY <1>1, <1>2, ListLen
<1> QED
  BY <1>2, <1>3 DEF FreeSet

LEMMA ListsRemove ==
  ASSUME NEW f, NEW n, NEW T, Lists(f, n, T), NEW o \in Orders, NEW k \in 1 .. Len(f[o]),
         NEW R, OneLess(T, R, o, f[o][k])
  PROVE  Lists([f EXCEPT ![o] = RemoveAt(@, k)], [n EXCEPT ![o] = @ - 1], R)
<1> DEFINE s == RemoveAt(f[o], k)
           c == n[o] - 1
<1>1. ListOf(f[o], FreeSet(T, o)) /\ n[o] = Len(f[o])
  BY ListsAt
<1>2. \A x \in Nat : x \in FreeSet(R, o) <=> x \in FreeSet(T, o) /\ x # f[o][k]
  BY DEF FreeSet, OneLess
<1>3. ListOf(s, FreeSet(R, o)) /\ Len(s) = Len(f[o]) - 1
  BY <1>1, <1>2, ListRemove
<1>4. \A p \in Orders, b \in Nat : p # o => (IsFree(R, p, b) <=> IsFree(T, p, b))
  BY DEF OneLess
<1>5. c = Len(s)
  BY <1>1, <1>3
<1> HIDE DEF s, c
<1>6. Lists([f EXCEPT ![o] = s], [n EXCEPT ![o] = c], R)
  BY <1>3, <1>4, <1>5, ListsChange
<1> QED
  BY <1>6 DEF s, c

----------------------------------------------------------------------------
\* The bits.

LEMMA HeldUp ==
  ASSUME NEW T \in SUBSET BlockRec, NEW o \in Orders, NEW p \in Orders, o <= p,
         NEW a \in Nat, NEW b \in Nat, Held(T, o, a), Same(p, b, a)
  PROVE  Held(T, p, b)
<1>1. PICK t \in T : t.order <= o /\ Same(o, a, t.addr)
  BY DEF Held
<1>2. t.addr \in Nat /\ t.order \in Nat /\ o \in Nat /\ p \in Nat
  BY BlockTypes, SameHolds DEF SameFacts
<1>3. Same(p, b, t.addr) /\ t.order <= p
  BY <1>1, <1>2, SameHolds DEF SameFacts
<1> QED
  BY <1>3 DEF Held

\* Above a free block the bits are those of blocks that are held.
LEMMA BitsAbove ==
  ASSUME NEW u, NEW T \in SUBSET BlockRec, NEW o \in Orders, NEW a \in Nat, o = Top \/ Held(T, o + 1, a)
  PROVE  Bits(u, T, MAX_ORDER, mem_start) <=> Bits(u, T, o + 1, a)
<1>1. \A p \in Orders : p \in Nat /\ p <= Top /\ (p < Top => p + 1 \in Orders) /\ ~ (MAX_ORDER <= p)
  BY BuddyAssumption, Sizes DEF Orders
<1>2. ASSUME NEW p \in Orders, NEW b \in Nat, o + 1 <= p, Same(p, b, a) PROVE Held(T, p, b)
  <2>1. o # Top /\ o < Top /\ o + 1 \in Orders
    BY <1>1, <1>2, Sizes
  <2> QED
    BY <1>2, <2>1, HeldUp
<1> QED
  BY <1>1, <1>2 DEF Bits

\* Setting the bit of a block, or clearing it.
LEMMA BitsLower ==
  ASSUME NEW u, NEW T, NEW o \in Orders, NEW a \in Nat, InRange(a), Bits(u, T, o + 1, a)
  PROVE  Bits(u \cup {BitOf(o, a)}, T, o, a)
<1>1. ASSUME NEW p \in Orders, NEW b \in Nat, InRange(b)
      PROVE  BitOf(p, b) \in u \cup {BitOf(o, a)} <=> Held(T, p, b) \/ (o <= p /\ Same(p, b, a))
  <2>1. BitOf(p, b) \in u <=> Held(T, p, b) \/ (o + 1 <= p /\ Same(p, b, a))
    BY <1>1 DEF Bits
  <2>2. BitOf(p, b) = BitOf(o, a) <=> p = o /\ Same(p, b, a)
    BY <1>1, BitSame
  <2>3. o <= p <=> o + 1 <= p \/ p = o
    BY Sizes
  <2> QED
    BY <2>1, <2>2, <2>3
<1> QED
  BY <1>1 DEF Bits

LEMMA BitsClear ==
  ASSUME NEW u, NEW T \in SUBSET BlockRec, NEW o \in Orders, NEW a \in Nat, InRange(a),
         Apart(T, o, a), Bits(u, T, o, a)
  PROVE  Bits(u \ {BitOf(o, a)}, T, o + 1, a)
<1>1. ASSUME NEW p \in Orders, NEW b \in Nat, InRange(b)
      PROVE  BitOf(p, b) \in u \ {BitOf(o, a)} <=> Held(T, p, b) \/ (o + 1 <= p /\ Same(p, b, a))
  <2>1. BitOf(p, b) \in u <=> Held(T, p, b) \/ (o <= p /\ Same(p, b, a))
    BY <1>1 DEF Bits
  <2>2. BitOf(p, b) = BitOf(o, a) <=> p = o /\ Same(p, b, a)
    BY <1>1, BitSame
  <2>3. /\ o <= p <=> (o + 1 <= p \/ p = o)
        /\ ~ (o + 1 <= o)
    BY Sizes
  <2>4. ASSUME p = o, Same(p, b, a) PROVE ~ Held(T, p, b)
    <3>1. SUFFICES ASSUME Held(T, o, b) PROVE FALSE
      BY <2>4
    <3>2. PICK t \in T : t.order <= o /\ Same(o, b, t.addr)
      BY <3>1 DEF Held
    <3>3. Same(o, a, t.addr)
      BY <2>4, <3>2, BlockTypes, SameHolds DEF SameFacts
    <3> QED
      BY <3>2, <3>3 DEF Apart, Meets
  <2> QED
    BY <2>1, <2>2, <2>3, <2>4
<1> QED
  BY <1>1 DEF Bits

\* Handing the pending block to a caller, or taking it back.
LEMMA BitsGive ==
  ASSUME NEW u, NEW T, NEW o \in Orders, NEW a \in Nat
  PROVE  Bits(u, T, o, a) <=> Bits(u, T \cup {Blk(o, a)}, MAX_ORDER, mem_start)
<1>1. \A p \in Orders : ~ (MAX_ORDER <= p)
  BY BuddyAssumption DEF Orders
<1>2. ASSUME NEW p \in Orders, NEW b \in Nat
      PROVE  Held(T \cup {Blk(o, a)}, p, b) <=> Held(T, p, b) \/ (o <= p /\ Same(p, b, a))
  <2>1. Blk(o, a).order = o /\ Blk(o, a).addr = a
    BY DEF Blk
  <2> QED
    BY <2>1 DEF Held
<1> QED
  BY <1>1, <1>2 DEF Bits

----------------------------------------------------------------------------
\* The blocks that callers hold.

LEMMA BlocksOfType ==
  ASSUME NEW s, LiveOK(s)
  PROVE  /\ s \in Seq(BlockRec) /\ Len(s) \in Nat /\ BlocksOf(s) \in SUBSET BlockRec
         /\ \A i \in 1 .. Len(s) : s[i] \in BlockRec /\ s[i] \in BlocksOf(s) /\ s[i] = Blk(s[i].order, s[i].addr)
<1>1. s \in Seq(BlockRec)
  BY DEF LiveOK, BlockSeq
<1>2. Len(s) \in Nat /\ \A i \in 1 .. Len(s) : s[i] \in BlockRec
  BY <1>1
<1>3. \A t \in BlockRec : t = Blk(t.order, t.addr)
  BY DEF BlockRec, Blk
<1> QED
  BY <1>1, <1>2, <1>3 DEF BlocksOf

LEMMA MeetsBack ==
  ASSUME NEW t \in BlockRec, NEW o \in Orders, NEW a \in Nat
  PROVE  Meets(o, a, t) <=> Meets(t.order, t.addr, Blk(o, a))
<1>1. t.addr \in Nat /\ t.order \in Orders
  BY DEF BlockRec
<1>2. t.order \in Nat /\ o \in Nat
  BY <1>1, SameHolds DEF SameFacts
<1>3. Blk(o, a).order = o /\ Blk(o, a).addr = a
  BY DEF Blk
<1> QED
  BY <1>1, <1>2, <1>3, SameHolds DEF Meets, SameFacts

\* Beside every block that is free and is a right half, something is held.
LEMMA LeftOfFree ==
  ASSUME NEW s, LiveOK(s), NEW o, NEW a, IsFree(BlocksOf(s), o, a)
  PROVE  LeftTaken(s, o, a, Len(s))
<1>1. o \in Orders /\ a \in Nat /\ o \in Nat /\ Top \in Nat
  BY IsFreeType, Sizes
<1>2. SUFFICES ASSUME NEW p \in o .. Top - 1, Idx(p, a) % 2 = 1
               PROVE  \E j \in 1 .. Len(s) : s[j].order <= p /\ Idx(p, s[j].addr) = Idx(p, a) - 1
  BY DEF LeftTaken
<1>3. p \in Nat /\ o <= p /\ p < Top /\ o # Top /\ o < Top /\ p \in Orders /\ o + 1 \in Orders
  <2>1. p \in Nat /\ o <= p /\ p < Top /\ o # Top /\ o < Top
    BY <1>1
  <2>2. p \in Orders
    BY <2>1, BuddyAssumption DEF Orders, Top
  <2> QED
    BY <1>1, <2>1, <2>2, Sizes
<1>4. PICK t \in BlocksOf(s) : t.order <= o + 1 /\ Same(o + 1, a, t.addr)
  BY <1>3 DEF IsFree, Held
<1>5. PICK i \in 1 .. Len(s) : t = s[i]
  BY DEF BlocksOf
<1>6. t.addr \in Nat /\ t.order \in Nat
  BY BlocksOfType, BlockTypes
<1>7. CASE p = o
  <2>1. t.order # o + 1
    <3>1. SUFFICES ASSUME t.order = o + 1 PROVE Meets(o, a, t)
      BY DEF IsFree, Apart
    <3> QED
      BY <1>1, <1>4, <3>1 DEF Meets
  <2>2. t.order <= o /\ ~ Same(o, a, t.addr)
    <3>1. t.order <= o
      BY <1>1, <1>4, <1>6, <2>1
    <3> QED
      BY <3>1 DEF IsFree, Apart, Meets
  <2>3. Idx(o + 1, a) = Idx(o, a) \div 2 /\ Idx(o + 1, t.addr) = Idx(o, t.addr) \div 2
    BY <1>1, <1>3, <1>6, IdxUp
  <2>4. PICK x \in Nat, y \in Nat : x = Idx(o, a) /\ y = Idx(o, t.addr)
    BY <1>1, <1>6, IdxIs
  <2>5. x # y /\ x \div 2 = y \div 2 /\ x % 2 = 1
    BY <1>2, <1>4, <1>7, <2>2, <2>3, <2>4 DEF Same
  <2>6. y = x - 1
    BY <2>5
  <2> QED
    BY <1>5, <1>7, <2>2, <2>4, <2>6
<1>8. CASE p # o
  <2>1. o + 1 <= p
    BY <1>1, <1>3, <1>8
  <2>2. Same(p, a, t.addr) /\ t.order <= p
    BY <1>1, <1>3, <1>4, <1>6, <2>1, SameHolds DEF SameFacts
  <2>3. Idx(p, t.addr) % 2 = 1 /\ Idx(p, t.addr) = Idx(p, a)
    BY <1>2, <2>2 DEF Same
  <2>4. p \in t.order .. Top - 1
    BY <1>1, <1>3, <1>6, <2>2
  <2>5. PICK j \in 1 .. i - 1 : s[j].order <= p /\ Idx(p, s[j].addr) = Idx(p, t.addr) - 1
    BY <1>5, <2>3, <2>4 DEF LiveOK, LeftTaken
  <2>6. j \in 1 .. Len(s)
    BY BlocksOfType
  <2> QED
    BY <2>3, <2>5, <2>6
<1> QED
  BY <1>7, <1>8

\* Only the first blocks count.
LEMMA LeftTakenAlike ==
  ASSUME NEW s, NEW r, NEW o, NEW a, NEW k \in Nat, NEW l \in Nat, k <= l,
         \A j \in 1 .. k : r[j] = s[j], LeftTaken(s, o, a, k)
  PROVE  LeftTaken(r, o, a, l)
<1>1. \A j \in 1 .. k : j \in 1 .. l
  OBVIOUS
<1> QED
  BY <1>1 DEF LeftTaken

LEMMA LiveAppend ==
  ASSUME NEW s, LiveOK(s), NEW o, NEW a, Block(o, a), Apart(BlocksOf(s), o, a), LeftTaken(s, o, a, Len(s))
  PROVE  /\ LiveOK(Append(s, Blk(o, a)))
         /\ BlocksOf(Append(s, Blk(o, a))) = BlocksOf(s) \cup {Blk(o, a)}
<1> DEFINE t == Blk(o, a)
           r == Append(s, t)
           n == Len(s)
<1>1. s \in Seq(BlockRec) /\ n \in Nat /\ BlocksOf(s) \in SUBSET BlockRec
  BY BlocksOfType
<1>2. o \in Orders /\ a \in Nat /\ t \in BlockRec /\ t.order = o /\ t.addr = a
  BY DEF Block, Blk, BlockRec
<1> HIDE DEF t
<1>3. r \in Seq(BlockRec) /\ Len(r) = n + 1 /\ r[n + 1] = t /\ \A i \in 1 .. n : r[i] = s[i]
  BY <1>1, <1>2
<1> HIDE DEF r
<1>4. \A i \in 1 .. n + 1 : i # n + 1 => i \in 1 .. n
  BY <1>1
<1>5. \A i \in 1 .. n : i \in 1 .. n + 1 /\ i - 1 \in Nat /\ i - 1 <= n /\ \A j \in 1 .. i - 1 : j \in 1 .. n
  BY <1>1
<1>6. BlocksOf(r) = BlocksOf(s) \cup {t}
  <2>1. n + 1 \in 1 .. n + 1
    BY <1>1
  <2>2. ASSUME NEW x PROVE x \in BlocksOf(r) <=> x \in BlocksOf(s) \/ x = t
    <3>1. ASSUME x \in BlocksOf(r) PROVE x \in BlocksOf(s) \/ x = t
      <4>1. PICK i \in 1 .. n + 1 : x = r[i]
        BY <1>3, <3>1 DEF BlocksOf
      <4> QED
        BY <1>3, <1>4, <4>1 DEF BlocksOf
    <3>2. ASSUME x \in BlocksOf(s) PROVE x \in BlocksOf(r)
      <4>1. PICK i \in 1 .. n : x = s[i]
        BY <3>2 DEF BlocksOf
      <4> QED
        BY <1>3, <1>5, <4>1 DEF BlocksOf
    <3>3. t \in BlocksOf(r)
      BY <1>3, <2>1 DEF BlocksOf
    <3> QED
      BY <3>1, <3>2, <3>3
  <2> QED
    BY <2>2
<1>7. ASSUME NEW i \in 1 .. n + 1
      PROVE  Block(r[i].order, r[i].addr) /\ LeftTaken(r, r[i].order, r[i].addr, i - 1)
  <2>1. CASE i = n + 1
    <3>1. i - 1 = n
      BY <1>1, <2>1
    <3>2. LeftTaken(r, o, a, n)
      BY <1>1, <1>3, LeftTakenAlike
    <3> QED
      BY <1>2, <1>3, <2>1, <3>1, <3>2
  <2>2. CASE i # n + 1
    <3>1. i \in 1 .. n /\ r[i] = s[i]
      BY <1>3, <1>4, <2>2
    <3>2. Block(s[i].order, s[i].addr) /\ LeftTaken(s, s[i].order, s[i].addr, i - 1)
      BY <3>1 DEF LiveOK
    <3>3. i - 1 \in Nat /\ \A j \in 1 .. i - 1 : r[j] = s[j]
      BY <1>3, <1>5, <3>1
    <3>4. LeftTaken(r, s[i].order, s[i].addr, i - 1)
      BY <3>2, <3>3, LeftTakenAlike
    <3> QED
      BY <3>1, <3>2, <3>4
  <2> QED
    BY <2>1, <2>2
<1>8. ASSUME NEW i \in 1 .. n + 1, NEW j \in 1 .. n + 1, Meets(r[i].order, r[i].addr, r[j]) PROVE i = j
  <2>1. \A k \in 1 .. n : ~ Meets(o, a, s[k]) /\ s[k] \in BlockRec
    BY BlocksOfType DEF Apart
  <2>2. CASE i = n + 1 /\ j # n + 1
    BY <1>2, <1>3, <1>4, <1>8, <2>1, <2>2
  <2>3. CASE i # n + 1 /\ j = n + 1
    <3>1. i \in 1 .. n /\ Meets(s[i].order, s[i].addr, t)
      BY <1>3, <1>4, <1>8, <2>3
    <3> QED
      BY <1>2, <2>1, <3>1, MeetsBack DEF t
  <2>4. CASE i # n + 1 /\ j # n + 1
    <3>1. i \in 1 .. n /\ j \in 1 .. n /\ Meets(s[i].order, s[i].addr, s[j])
      BY <1>3, <1>4, <1>8, <2>4
    <3> QED
      BY <3>1 DEF LiveOK
  <2> QED
    BY <2>2, <2>3, <2>4
<1>9. LiveOK(r)
  BY <1>3, <1>7, <1>8 DEF LiveOK, BlockSeq
<1> QED
  BY <1>6, <1>9 DEF r, t

LEMMA LiveFront ==
  ASSUME NEW s, LiveOK(s), s # <<>>
  PROVE  /\ LiveOK(Front(s)) /\ Last(s) \in BlockRec
         /\ Block(Last(s).order, Last(s).addr)
         /\ Apart(BlocksOf(Front(s)), Last(s).order, Last(s).addr)
         /\ LeftTaken(Front(s), Last(s).order, Last(s).addr, Len(Front(s)))
         /\ BlocksOf(s) = BlocksOf(Front(s)) \cup {Blk(Last(s).order, Last(s).addr)}
<1> DEFINE r == Front(s)
           n == Len(r)
<1>1. s \in Seq(BlockRec) /\ Len(s) \in Nat /\ BlocksOf(s) \in SUBSET BlockRec /\ Len(s) > 0
  BY BlocksOfType
<1>2. r \in Seq(BlockRec) /\ Len(r) = Len(s) - 1 /\ \A i \in 1 .. Len(r) : r[i] = s[i]
  <2>0. Len(s) - 1 \in Nat /\ Len(s) - 1 <= Len(s)
    BY <1>1
  <2>1. PICK k \in Nat : k = Len(s) - 1 /\ k <= Len(s)
    BY <2>0
  <2>2. /\ SubSeq(s, 1, k) \in Seq(BlockRec) /\ Len(SubSeq(s, 1, k)) = k
        /\ \A i \in 1 .. k : SubSeq(s, 1, k)[i] = s[i]
    BY <1>1, <2>1
  <2> QED
    BY <2>1, <2>2 DEF Front
<1>3. PICK t : t = Last(s) /\ t = s[Len(s)]
  BY DEF Last
<1> HIDE DEF r
<1>4. n \in Nat /\ Len(s) = n + 1 /\ \A i \in 1 .. n : i \in 1 .. n + 1 /\ i # n + 1 /\ i - 1 \in Nat /\ \A j \in 1 .. i - 1 : j \in 1 .. n
  BY <1>1, <1>2
<1>5. n + 1 \in 1 .. Len(s) /\ (n + 1) - 1 = n /\ \A i \in 1 .. Len(s) : i # n + 1 => i \in 1 .. n
  BY <1>4
<1>6. t \in BlockRec /\ t = Blk(t.order, t.addr) /\ Block(t.order, t.addr) /\ LeftTaken(s, t.order, t.addr, n)
  BY <1>3, <1>4, <1>5, BlocksOfType DEF LiveOK
<1>7. LeftTaken(r, t.order, t.addr, n)
  <2>1. PICK k \in Nat : k = n /\ k <= k
    BY <1>4
  <2>2. LeftTaken(s, t.order, t.addr, k) /\ \A j \in 1 .. k : r[j] = s[j]
    BY <1>2, <1>6, <2>1
  <2>3. LeftTaken(r, t.order, t.addr, k)
    BY <2>1, <2>2, LeftTakenAlike
  <2> QED
    BY <2>1, <2>3
<1>8. Apart(BlocksOf(r), t.order, t.addr)
  <2>1. ASSUME NEW x \in BlocksOf(r) PROVE ~ Meets(t.order, t.addr, x)
    <3>1. PICK i \in 1 .. n : x = r[i]
      BY DEF BlocksOf
    <3>2. x = s[i] /\ i \in 1 .. Len(s) /\ i # n + 1
      BY <1>2, <1>4, <3>1
    <3> QED
      BY <1>3, <1>4, <1>5, <3>2 DEF LiveOK
  <2> QED
    BY <2>1 DEF Apart
<1>9. BlocksOf(s) = BlocksOf(r) \cup {t}
  <2>1. ASSUME NEW x \in BlocksOf(s) PROVE x \in BlocksOf(r) \cup {t}
    <3>1. PICK i \in 1 .. Len(s) : x = s[i]
      BY DEF BlocksOf
    <3> QED
      BY <1>2, <1>3, <1>4, <1>5, <3>1 DEF BlocksOf
  <2>2. ASSUME NEW x \in BlocksOf(r) PROVE x \in BlocksOf(s)
    <3>1. PICK i \in 1 .. n : x = r[i]
      BY DEF BlocksOf
    <3> QED
      BY <1>2, <1>4, <3>1 DEF BlocksOf
  <2>3. t \in BlocksOf(s)
    BY <1>3, <1>4, <1>5 DEF BlocksOf
  <2> QED
    BY <2>1, <2>2, <2>3
<1>10. ASSUME NEW i \in 1 .. n
       PROVE  Block(r[i].order, r[i].addr) /\ LeftTaken(r, r[i].order, r[i].addr, i - 1)
  <2>1. r[i] = s[i] /\ i \in 1 .. Len(s) /\ i - 1 \in Nat /\ \A j \in 1 .. i - 1 : r[j] = s[j]
    BY <1>2, <1>4
  <2>2. Block(s[i].order, s[i].addr) /\ LeftTaken(s, s[i].order, s[i].addr, i - 1)
    BY <2>1 DEF LiveOK
  <2>3. LeftTaken(r, s[i].order, s[i].addr, i - 1)
    BY <2>1, <2>2, LeftTakenAlike
  <2> QED
    BY <2>1, <2>2, <2>3
<1>11. ASSUME NEW i \in 1 .. n, NEW j \in 1 .. n, Meets(r[i].order, r[i].addr, r[j]) PROVE i = j
  <2>1. i \in 1 .. Len(s) /\ j \in 1 .. Len(s) /\ Meets(s[i].order, s[i].addr, s[j])
    BY <1>2, <1>4, <1>11
  <2> QED
    BY <2>1 DEF LiveOK
<1>12. LiveOK(r)
  BY <1>2, <1>10, <1>11 DEF LiveOK, BlockSeq
<1> QED
  BY <1>3, <1>6, <1>7, <1>8, <1>9, <1>12 DEF r

----------------------------------------------------------------------------
\* A block on its way between the lists and a caller.

\* The pending block is handed out.
LEMMA GiveOut ==
  ASSUME NEW f, NEW n, NEW s, NEW u, LiveOK(s), NEW o, NEW a, Pending(f, n, s, o, a), Bits(u, BlocksOf(s), o, a)
  PROVE  LiveOK(Append(s, Blk(o, a))) /\ Settled(f, n, Append(s, Blk(o, a)), u)
<1>1. Block(o, a) /\ Apart(BlocksOf(s), o, a) /\ LeftTaken(s, o, a, Len(s)) /\ o \in Orders /\ a \in Nat
  BY DEF Pending, Block
<1>2. LiveOK(Append(s, Blk(o, a))) /\ BlocksOf(Append(s, Blk(o, a))) = BlocksOf(s) \cup {Blk(o, a)}
  BY <1>1, LiveAppend
<1>3. Bits(u, BlocksOf(s) \cup {Blk(o, a)}, MAX_ORDER, mem_start)
  BY <1>1, BitsGive
<1> QED
  BY <1>2, <1>3 DEF Settled, Pending

\* The head of a list is taken off.
LEMMA TakeOff ==
  ASSUME NEW f, NEW n, NEW s, LiveOK(s), Lists(f, n, BlocksOf(s)), NEW o \in Orders, n[o] > 0
  PROVE  /\ Pending([f EXCEPT ![o] = Tail(@)], [n EXCEPT ![o] = @ - 1], s, o, Head(f[o]))
         /\ Head(f[o]) \in Nat /\ InRange(Head(f[o])) /\ (o = Top \/ Held(BlocksOf(s), o + 1, Head(f[o])))
<1>1. PICK a \in Nat : a = Head(f[o]) /\ IsFree(BlocksOf(s), o, a)
  BY ListsHead
<1>2. BlocksOf(s) \in SUBSET BlockRec
  BY BlocksOfType
<1>3. OneLess(BlocksOf(s), BlocksOf(s) \cup {Blk(o, a)}, o, Head(f[o]))
  BY <1>1, <1>2, TakeOne DEF OneLess
<1>4. Lists([f EXCEPT ![o] = Tail(@)], [n EXCEPT ![o] = @ - 1], BlocksOf(s) \cup {Blk(o, a)})
  BY <1>3, ListsTake
<1>5. LeftTaken(s, o, a, Len(s))
  BY <1>1, LeftOfFree
<1>6. Block(o, a) /\ Apart(BlocksOf(s), o, a) /\ InRange(a) /\ (o = Top \/ Held(BlocksOf(s), o + 1, a))
  BY <1>1 DEF IsFree, Block
<1>7. Pending([f EXCEPT ![o] = Tail(@)], [n EXCEPT ![o] = @ - 1], s, o, a)
  BY <1>4, <1>5, <1>6 DEF Pending
<1> QED
  BY <1>1, <1>6, <1>7

\* The upper half of the pending block is put in its list.
LEMMA SplitOff ==
  ASSUME NEW f, NEW n, NEW s, LiveOK(s), NEW l, l \in Orders, l < Top, NEW h, h = l + 1, NEW a, Pending(f, n, s, h, a)
  PROVE  Pending([f EXCEPT ![l] = <<a + BlockSize(l)>> \o @], [n EXCEPT ![l] = @ + 1], s, l, a)
<1> DEFINE T == BlocksOf(s)
           c == a + BlockSize(l)
<1>1. /\ T \in SUBSET BlockRec /\ a \in Nat /\ At(h, a) /\ InRange(a) /\ Block(h, a) /\ Apart(T, h, a)
      /\ h \in Orders /\ Lists(f, n, T \cup {Blk(h, a)}) /\ LeftTaken(s, h, a, Len(s)) /\ l \in Nat /\ h \in Nat
  BY BlocksOfType, Sizes DEF Pending, Block
<1>2. At(l, a) /\ Idx(l, a) = 2 * Idx(h, a) /\ c \in Nat /\ Idx(l, c) = Idx(l, a) + 1
  BY <1>1, AtDown
<1>3. Idx(h, a) \in Nat /\ Same(h, c, a)
  <2>1. Idx(h, c) = Idx(l, c) \div 2 /\ Idx(h, a) \in Nat
    BY <1>1, <1>2, IdxUp, IdxIs
  <2> QED
    BY <1>2, <2>1 DEF Same
<1> HIDE DEF T, c
<1>4. OneMore(T \cup {Blk(h, a)}, T \cup {Blk(l, a)}, l, c)
  <2>1. ASSUME NEW p, NEW b
        PROVE  IsFree(T \cup {Blk(l, a)}, p, b)
                 <=> IsFree(T \cup {Blk(h, a)}, p, b) \/ (p = l /\ b = a + BlockSize(l))
    <3>1. T \in SUBSET BlockRec /\ h = l + 1 /\ l \in Orders /\ l < Top /\ Block(h, a) /\ Apart(T, h, a)
      BY <1>1
    <3> QED
      BY <3>1, SplitOne
  <2> QED
    BY <2>1 DEF OneMore, c
<1>5. ~ IsFree(T \cup {Blk(h, a)}, l, c)
  <2>1. Meets(l, c, Blk(h, a))
    BY <1>1, <1>3 DEF Meets, Blk
  <2> QED
    BY <2>1 DEF IsFree, Apart
<1>6. Lists([f EXCEPT ![l] = <<c>> \o @], [n EXCEPT ![l] = @ + 1], T \cup {Blk(l, a)})
  BY <1>1, <1>2, <1>4, <1>5, ListsPut
<1>7. LeftTaken(s, l, a, Len(s))
  <2>1. ASSUME NEW p \in l .. Top - 1, Idx(p, a) % 2 = 1
        PROVE  \E j \in 1 .. Len(s) : s[j].order <= p /\ Idx(p, s[j].addr) = Idx(p, a) - 1
    <3>1. p # l
      <4>1. Idx(l, a) % 2 = 0
        BY <1>2, <1>3
      <4> QED
        BY <2>1, <4>1
    <3>2. p \in h .. Top - 1
      BY <1>1, <3>1, Sizes
    <3> QED
      BY <1>1, <2>1, <3>2 DEF LeftTaken
  <2> QED
    BY <2>1 DEF LeftTaken
<1>8. Apart(T, l, a)
  <2>1. ASSUME NEW t \in T, Meets(l, a, t) PROVE Meets(h, a, t)
    <3>1. t.addr \in Nat /\ t.order \in Orders /\ t.order \in Nat
      BY <1>1, BlockTypes
    <3>2. CASE t.order <= l
      BY <1>1, <2>1, <3>1, <3>2, SameHolds DEF Meets, SameFacts
    <3>3. CASE h <= t.order
      BY <1>1, <2>1, <3>1, <3>3, SameHolds DEF Meets, SameFacts
    <3> QED
      BY <1>1, <3>1, <3>2, <3>3
  <2> QED
    BY <1>1, <2>1 DEF Apart
<1>9. Block(l, a)
  BY <1>1, <1>2 DEF Block
<1> QED
  BY <1>6, <1>7, <1>8, <1>9 DEF Pending, T, c

\* The pending block after entry k of its order's list is removed.
Merged(f, n, s, o, a, k) ==
    Pending([f EXCEPT ![o] = RemoveAt(@, k)], [n EXCEPT ![o] = @ - 1], s, o + 1, a)

\* A pending block whose other half has its bit clear is a left half; the other
\* half is in its list, and the two are the pending block once it is removed.
LEMMA MergeUp ==
  ASSUME NEW f, NEW n, NEW s, NEW u, LiveOK(s), NEW o, o < Top, NEW a, Pending(f, n, s, o, a),
         Bits(u, BlocksOf(s), o, a), NEW c \in Nat, InRange(c), At(o, c), Idx(o, c) = Sibling(Idx(o, a)),
         Same(o + 1, c, a), ~ Same(o, c, a), BitOf(o, c) \notin u
  PROVE  \E k \in 1 .. Len(f[o]) :
            f[o][k] = c /\ Merged(f, n, s, o, a, k)
<1> DEFINE T == BlocksOf(s)
<1>1. /\ T \in SUBSET BlockRec /\ a \in Nat /\ At(o, a) /\ InRange(a) /\ Block(o, a) /\ Apart(T, o, a)
      /\ o \in Orders /\ Lists(f, n, T \cup {Blk(o, a)}) /\ LeftTaken(s, o, a, Len(s)) /\ o \in Nat
      /\ o + 1 \in Orders /\ Top \in Nat
  BY BlocksOfType, Sizes DEF Pending, Block
<1>2. ~ Held(T, o, c)
  BY <1>1 DEF Bits
<1>3. PICK k \in Nat : k = Idx(o, a)
  BY <1>1, IdxIs
<1>4. k % 2 = 0
  <2>1. SUFFICES ASSUME k % 2 = 1 PROVE FALSE
    OBVIOUS
  <2>2. o \in o .. Top - 1
    BY <1>1
  <2>3. PICK j \in 1 .. Len(s) : s[j].order <= o /\ Idx(o, s[j].addr) = k - 1
    BY <1>1, <1>3, <2>1, <2>2 DEF LeftTaken
  <2>4. Same(o, c, s[j].addr) /\ s[j] \in T
    BY <1>3, <2>1, <2>3, BlocksOfType DEF Same, Sibling
  <2> QED
    BY <1>2, <2>3, <2>4 DEF Held
<1>5. At(o + 1, a)
  BY <1>1, <1>3, <1>4, AtUp
<1>6. Idx(o, c) = k + 1
  BY <1>3, <1>4 DEF Sibling
<1>7. c = a + BlockSize(o)
  <2>1. PICK d \in Nat : d = a + BlockSize(o) /\ At(o, d) /\ Idx(o, d) = k + 1
    BY <1>1, <1>3, <1>5, AtDown
  <2>2. Same(o, c, d)
    BY <1>6, <2>1 DEF Same
  <2> QED
    BY <1>1, <2>1, <2>2, AtOnly
<1>8. Block(o + 1, a)
  BY <1>1, <1>5 DEF Block
<1> HIDE DEF T
<1>9. Apart(T, o + 1, a)
  <2>1. ASSUME NEW t \in T, Meets(o + 1, a, t) PROVE FALSE
    <3>1. t.addr \in Nat /\ t.order \in Orders /\ t.order \in Nat /\ ~ Meets(o, a, t)
      BY <1>1, BlockTypes DEF Apart
    <3>2. CASE t.order <= o
      <4>1. Same(o + 1, a, t.addr)
        BY <1>1, <2>1, <3>1, <3>2 DEF Meets
      <4>2. ~ Same(o, a, t.addr)
        BY <3>1, <3>2 DEF Meets
      <4>3. Idx(o + 1, a) = k \div 2 /\ Idx(o + 1, t.addr) = Idx(o, t.addr) \div 2 /\ Idx(o, t.addr) \in Nat
        BY <1>1, <1>3, <3>1, IdxUp, IdxIs
      <4>4. PICK y \in Nat : y = Idx(o, t.addr)
        BY <4>3
      <4>5. y # k /\ y \div 2 = k \div 2
        BY <1>3, <4>1, <4>2, <4>3, <4>4 DEF Same
      <4>6. y = k + 1
        BY <1>4, <4>5
      <4>7. Same(o, c, t.addr)
        BY <1>6, <4>4, <4>6 DEF Same
      <4> QED
        BY <1>2, <3>2, <4>7 DEF Held
    <3>3. CASE o + 1 <= t.order
      <4>1. Same(t.order, a, t.addr)
        BY <1>1, <2>1, <3>1, <3>3 DEF Meets
      <4> QED
        BY <1>1, <3>1, <3>3, <4>1 DEF Meets
    <3> QED
      BY <1>1, <3>1, <3>2, <3>3
  <2> QED
    BY <2>1 DEF Apart
<1>10. ~ IsFree(T \cup {Blk(o + 1, a)}, o, c)
  <2>1. Meets(o, c, Blk(o + 1, a))
    BY <1>1 DEF Meets, Blk
  <2> QED
    BY <2>1 DEF IsFree, Apart
<1>11. PICK h : h = o + 1
  OBVIOUS
<1>12. ASSUME NEW p, NEW b
       PROVE  IsFree(T \cup {Blk(o, a)}, p, b)
                <=> IsFree(T \cup {Blk(h, a)}, p, b) \/ (p = o /\ b = a + BlockSize(o))
  <2>1. T \in SUBSET BlockRec /\ h = o + 1 /\ o \in Orders /\ o < Top /\ Block(h, a) /\ Apart(T, h, a)
    BY <1>1, <1>8, <1>9, <1>11
  <2> QED
    BY <2>1, SplitOne
<1>13. OneLess(T \cup {Blk(o, a)}, T \cup {Blk(h, a)}, o, c) /\ IsFree(T \cup {Blk(o, a)}, o, c)
  BY <1>7, <1>10, <1>11, <1>12 DEF OneLess
<1>14. PICK i \in 1 .. Len(f[o]) : f[o][i] = c
  <2>1. c \in FreeSet(T \cup {Blk(o, a)}, o)
    BY <1>13 DEF FreeSet
  <2> QED
    BY <1>1, <2>1, ListsAt DEF ListOf
<1>15. Lists([f EXCEPT ![o] = RemoveAt(@, i)], [n EXCEPT ![o] = @ - 1], T \cup {Blk(h, a)})
  BY <1>1, <1>13, <1>14, ListsRemove
<1>16. LeftTaken(s, h, a, Len(s))
  <2>1. \A p \in h .. Top - 1 : p \in o .. Top - 1
    BY <1>1, <1>11
  <2> QED
    BY <1>1, <2>1 DEF LeftTaken
<1>17. Pending([f EXCEPT ![o] = RemoveAt(@, i)], [n EXCEPT ![o] = @ - 1], s, h, a)
  BY <1>8, <1>9, <1>11, <1>15, <1>16 DEF Pending, T
<1> QED
  BY <1>11, <1>14, <1>17 DEF Merged

\* A pending block that is not merged goes into its list.
LEMMA PutBack ==
  ASSUME NEW f, NEW n, NEW s, LiveOK(s), NEW o, NEW a, Pending(f, n, s, o, a),
         o = Top \/ Held(BlocksOf(s), o + 1, a)
  PROVE  Lists([f EXCEPT ![o] = <<a>> \o @], [n EXCEPT ![o] = @ + 1], BlocksOf(s))
<1> DEFINE T == BlocksOf(s)
<1>1. /\ T \in SUBSET BlockRec /\ a \in Nat /\ o \in Orders /\ Block(o, a) /\ Apart(T, o, a)
      /\ Lists(f, n, T \cup {Blk(o, a)})
  BY BlocksOfType DEF Pending, Block
<1>2. IsFree(T, o, a)
  BY <1>1 DEF IsFree
<1> HIDE DEF T
<1>3. ~ IsFree(T \cup {Blk(o, a)}, o, a) /\ OneMore(T \cup {Blk(o, a)}, T, o, a)
  BY <1>1, <1>2, TakeOne DEF OneMore
<1>4. Lists([f EXCEPT ![o] = <<a>> \o @], [n EXCEPT ![o] = @ + 1], T)
  BY <1>1, <1>3, ListsPut
<1> QED
  BY <1>4 DEF T

----------------------------------------------------------------------------
\* The invariant holds initially.

LEMMA SameInterval ==
  ASSUME NEW a \in Nat, NEW b \in Nat, 1 .. a = 1 .. b
  PROVE  a = b
<1>1. ASSUME NEW x \in Nat, NEW y \in Nat, x < y PROVE 1 .. x # 1 .. y
  <2>1. y \in 1 .. y /\ y \notin 1 .. x
    BY <1>1
  <2> QED
    BY <2>1
<1>2. ~ (a < b) /\ ~ (b < a)
  BY <1>1
<1> QED
  BY <1>2

LEMMA FreshTop ==
  ASSUME NEW s, s = [i \in 1 .. max_map_size |-> mem_start + (i - 1) * BlockSize(Top)]
  PROVE  ListOf(s, FreeSet({}, Top)) /\ Len(s) = max_map_size
<1>1. PICK b \in Nat \ {0}, g \in Nat, m \in Nat :
         b = BlockSize(Top) /\ g = First /\ m = max_map_size /\ mem_start = g * b
  BY Sizes, Start
<1>2. ASSUME NEW i \in 1 .. m
      PROVE  g + (i - 1) \in Nat /\ g * b + (i - 1) * b \in Nat /\ g * b + (i - 1) * b = (g + (i - 1)) * b
  <2>1. PICK d \in Nat : d = i - 1
    OBVIOUS
  <2>2. g * b + d * b \in Nat /\ g * b + d * b = (g + d) * b /\ g + d \in Nat
    OBVIOUS
  <2> QED
    BY <2>1, <2>2
<1>3. s = [i \in 1 .. m |-> (g + (i - 1)) * b]
  BY <1>1, <1>2
<1>4. s \in Seq(Nat) /\ Len(s) = m /\ \A i \in 1 .. m : s[i] = (g + (i - 1)) * b
  <2>1. \A i \in 1 .. m : (g + (i - 1)) * b \in Nat
    BY <1>2
  <2>2. s \in [1 .. m -> Nat]
    BY <1>3, <2>1
  <2>3. s \in Seq(Nat) /\ DOMAIN s = 1 .. m
    <3>1. Seq(Nat) = UNION {[1 .. k -> Nat] : k \in Nat}
      BY SeqDef
    <3>2. [1 .. m -> Nat] \in {[1 .. k -> Nat] : k \in Nat}
      OBVIOUS
    <3>3. s \in Seq(Nat)
      BY <2>2, <3>1, <3>2, Zenon
    <3> QED
      BY <2>2, <3>3
  <2>4. Len(s) \in Nat /\ 1 .. Len(s) = 1 .. m
    BY <2>3, LenProperties
  <2>5. Len(s) = m
    BY <2>4, SameInterval
  <2> QED
    BY <1>3, <2>3, <2>5
<1>5. \A i \in 1 .. m : Idx(Top, s[i]) = g + (i - 1) /\ At(Top, s[i])
  <2>1. ASSUME NEW i \in 1 .. m PROVE Idx(Top, s[i]) = g + (i - 1) /\ At(Top, s[i])
    <3>1. PICK k \in Nat : k = g + (i - 1)
      BY <1>2
    <3>2. s[i] = k * BlockSize(Top) /\ Top \in Orders
      BY <1>1, <1>4, <3>1, Sizes
    <3> QED
      BY <3>1, <3>2, Multiple
  <2> QED
    BY <2>1
<1>6. \A a \in Nat : a \in FreeSet({}, Top) <=> At(Top, a) /\ Idx(Top, a) \in g .. g + m - 1
  BY <1>1, Sizes DEF FreeSet, IsFree, Block, InRange, Apart
<1>7. ASSUME NEW a \in Nat PROVE a \in FreeSet({}, Top) <=> \E i \in 1 .. Len(s) : s[i] = a
  <2>1. ASSUME NEW i \in 1 .. m PROVE s[i] \in FreeSet({}, Top)
    <3>1. g + (i - 1) \in g .. g + m - 1
      OBVIOUS
    <3>2. s[i] \in Nat
      <4>1. g * b + (i - 1) * b \in Nat
        BY <1>2
      <4> QED
        BY <1>2, <1>4, <4>1
    <3> QED
      BY <1>5, <1>6, <3>1, <3>2
  <2>2. ASSUME a \in FreeSet({}, Top) PROVE \E i \in 1 .. m : s[i] = a
    <3>1. PICK k \in g .. g + m - 1 : k = Idx(Top, a) /\ a = k * b
      BY <1>1, <1>6, <2>2 DEF At
    <3>2. PICK i \in 1 .. m : k = g + (i - 1)
      <4>1. (k - g) + 1 \in 1 .. m /\ k = g + (((k - g) + 1) - 1)
        BY <3>1
      <4> QED
        BY <4>1
    <3> QED
      BY <1>4, <3>1, <3>2
  <2> QED
    BY <1>4, <2>1, <2>2
<1>8. ASSUME NEW i \in 1 .. Len(s), NEW j \in 1 .. Len(s), s[i] = s[j] PROVE i = j
  <2>1. g + (i - 1) = g + (j - 1)
    BY <1>4, <1>5, <1>8
  <2> QED
    BY <1>4, <2>1
<1> QED
  BY <1>1, <1>4, <1>7, <1>8 DEF ListOf, NatSeq

LEMMA InitInv == Init => BuddyInv
<1> SUFFICES ASSUME Init PROVE BuddyInv
  OBVIOUS
<1>1. live = <<>> /\ used = {} /\ call = Idle /\ free_list = Fresh
      /\ num_free = [o \in Orders |-> IF o = Top THEN max_map_size ELSE 0]
  BY DEF Init
<1>2. BlocksOf(live) = {} /\ LiveOK(live)
  <2>1. live \in Seq(BlockRec) /\ Len(live) = 0
    BY <1>1
  <2>2. 1 .. Len(live) = {}
    BY <2>1
  <2> QED
    BY <2>1, <2>2 DEF BlocksOf, LiveOK, BlockSeq
<1>3. Bits(used, {}, MAX_ORDER, mem_start)
  <2>1. \A o \in Orders : ~ (MAX_ORDER <= o)
    BY BuddyAssumption DEF Orders
  <2> QED
    BY <1>1, <2>1 DEF Bits, Held
<1>4. \A o \in Orders : o # Top => FreeSet({}, o) = {}
  BY DEF FreeSet, IsFree, Held
<1>5. ListOf(<<>>, {}) /\ Len(<<>>) = 0
  <2>1. <<>> \in Seq(Nat) /\ Len(<<>>) = 0
    OBVIOUS
  <2>2. \A i \in 1 .. Len(<<>>) : FALSE
    BY <2>1
  <2> QED
    BY <2>1, <2>2 DEF ListOf, NatSeq
<1>6. ASSUME NEW o \in Orders
      PROVE  ListOf(free_list[o], FreeSet({}, o)) /\ num_free[o] = Len(free_list[o])
  <2>1. CASE o = Top
    <3>1. free_list[o] = [i \in 1 .. max_map_size |-> mem_start + (i - 1) * BlockSize(Top)] /\ num_free[o] = max_map_size
      BY <1>1, <2>1 DEF Fresh
    <3> QED
      BY <2>1, <3>1, FreshTop
  <2>2. CASE o # Top
    <3>1. free_list[o] = <<>> /\ num_free[o] = 0
      BY <1>1, <2>2 DEF Fresh
    <3> QED
      BY <1>4, <1>5, <2>2, <3>1
  <2> QED
    BY <2>1, <2>2
<1>7. free_list \in [Orders -> NatSeq] /\ num_free \in [Orders -> Nat]
  <2>1. \A o \in Orders : free_list[o] \in NatSeq
    BY <1>6 DEF ListOf
  <2>2. max_map_size \in Nat
    BY Start
  <2> QED
    BY <1>1, <2>1, <2>2 DEF Fresh
<1>8. Lists(free_list, num_free, {})
  BY <1>6, <1>7 DEF Lists
<1> QED
  BY <1>1, <1>2, <1>3, <1>8 DEF BuddyInv, Between, Settled

----------------------------------------------------------------------------
\* Every step keeps it.

LEMMA Phase ==
  ASSUME BuddyInv
  PROVE  /\ LiveOK(live)
         /\ call = Idle => Between
         /\ call.op = "alloc" => Between /\ call \in AllocCall
         /\ call.op = "slice" => InSlice
         /\ call.op = "free" => InFree
         /\ call.op = "coalesce" => InCoalesce
         /\ call.op # "fault"
<1>1. Idle.op = "idle"
  BY DEF Idle
<1>2. CASE Between
  <2>1. call.op = "idle" \/ (call \in AllocCall /\ call.op = "alloc")
    BY <1>1, <1>2 DEF Between, AllocCall
  <2> QED
    BY <1>2, <2>1 DEF BuddyInv
<1>3. CASE InSlice
  <2>1. call.op = "slice"
    BY <1>3 DEF InSlice, SliceCall
  <2> QED
    BY <1>1, <1>3, <2>1 DEF BuddyInv
<1>4. CASE InFree
  <2>1. call.op = "free"
    BY <1>4 DEF InFree, FreeCall
  <2> QED
    BY <1>1, <1>4, <2>1 DEF BuddyInv
<1>5. CASE InCoalesce
  <2>1. call.op = "coalesce"
    BY <1>5 DEF InCoalesce, CoalesceCall
  <2> QED
    BY <1>1, <1>5, <2>1 DEF BuddyInv
<1> QED
  BY <1>2, <1>3, <1>4, <1>5 DEF BuddyInv

LEMMA AllocKeeps ==
  ASSUME BuddyInv, NEW n \in Requests, Alloc(n)
  PROVE  BuddyInv'
<1>1. n \in Pos
  BY BuddyAssumption DEF Pos
<1>2. call' \in AllocCall
  BY <1>1 DEF Alloc, AllocCall
<1>3. LiveOK(live) /\ Settled(free_list, num_free, live, used)
  BY Phase DEF Alloc, Between
<1> QED
  BY <1>2, <1>3 DEF Alloc, BuddyInv, Between

\* What a caller is given next.
LEMMA Current ==
  ASSUME call \in AllocCall
  PROVE  call.left \in Pos /\ cur_nframes \in Pos /\ get_buddy_order(cur_nframes) \in Orders
<1>1. call.left \in Pos
  BY DEF AllocCall
<1>2. MAX_BUDDY_NFRAMES \in Pos
  BY Sizes DEF MAX_BUDDY_NFRAMES, Pos
<1>3. cur_nframes \in Pos
  BY <1>1, <1>2 DEF cur_nframes
<1> QED
  BY <1>1, <1>3, LeastOrder

LEMMA HandOutKeeps ==
  ASSUME LiveOK(live), NEW o, NEW a, NEW n \in Pos, NEW l \in Pos, o = get_buddy_order(n),
         Pending(free_list', num_free', live, o, a), Bits(used', BlocksOf(live), o, a), HandOut(a, n, l)
  PROVE  BuddyInv'
<1>1. live' = Append(live, Blk(o, a))
  BY DEF HandOut, Blk
<1>2. LiveOK(live') /\ Settled(free_list', num_free', live', used')
  BY <1>1, GiveOut
<1>3. call' = Idle \/ call' \in AllocCall
  <2>1. l > n => l - n \in Pos
    BY DEF Pos
  <2> QED
    BY <2>1 DEF HandOut, AllocCall
<1>4. Between'
  BY <1>2, <1>3 DEF Between
<1> QED
  BY <1>2, <1>4 DEF BuddyInv

LEMMA AllocHeadKeeps ==
  ASSUME BuddyInv, AllocHead
  PROVE  BuddyInv'
<1> DEFINE o == get_buddy_order(cur_nframes)
           a == Head(free_list[o])
<1>1. call.op = "alloc" /\ num_free[o] > 0 /\ used' = used \cup {BitOf(o, a)}
      /\ free_list' = [free_list EXCEPT ![o] = Tail(@)] /\ num_free' = [num_free EXCEPT ![o] = @ - 1]
      /\ HandOut(a, cur_nframes, call.left)
  BY DEF AllocHead
<1>2. LiveOK(live) /\ Settled(free_list, num_free, live, used) /\ call \in AllocCall
  BY <1>1, Phase DEF Between
<1>3. call.left \in Pos /\ cur_nframes \in Pos /\ o \in Orders
  BY <1>2, Current
<1> HIDE DEF o
<1>4. /\ Pending([free_list EXCEPT ![o] = Tail(@)], [num_free EXCEPT ![o] = @ - 1], live, o, a)
      /\ a \in Nat /\ InRange(a) /\ (o = Top \/ Held(BlocksOf(live), o + 1, a))
  BY <1>1, <1>2, <1>3, TakeOff DEF Settled
<1> HIDE DEF a
<1>5. BlocksOf(live) \in SUBSET BlockRec
  BY <1>2, BlocksOfType
<1>6. Bits(used, BlocksOf(live), o + 1, a)
  BY <1>2, <1>3, <1>4, <1>5, BitsAbove DEF Settled
<1>7. Bits(used', BlocksOf(live), o, a)
  BY <1>1, <1>3, <1>4, <1>6, BitsLower
<1>8. Pending(free_list', num_free', live, o, a)
  BY <1>1, <1>4
<1>9. o = get_buddy_order(cur_nframes)
  BY DEF o
<1> QED
  BY <1>1, <1>2, <1>3, <1>7, <1>8, <1>9, HandOutKeeps

LEMMA AllocSliceKeeps ==
  ASSUME BuddyInv, AllocSlice
  PROVE  BuddyInv'
<1> DEFINE g == get_buddy_order(cur_nframes)
<1>1. call.op = "alloc" /\ used' = used /\ live' = live
  BY DEF AllocSlice
<1>2. PICK i \in Splittable(g) :
        /\ free_list' = [free_list EXCEPT ![i] = Tail(@)]
        /\ num_free' = [num_free EXCEPT ![i] = @ - 1]
        /\ call' = [op |-> "slice", addr |-> Head(free_list[i]), start |-> i,
                    target |-> g, nframes |-> cur_nframes, left |-> call.left]
  BY DEF AllocSlice
<1>3. LiveOK(live) /\ Settled(free_list, num_free, live, used) /\ call \in AllocCall
  BY <1>1, Phase DEF Between
<1>4. call.left \in Pos /\ cur_nframes \in Pos /\ g \in Orders
  BY <1>3, Current
<1>5. i \in Orders /\ g < i /\ num_free[i] > 0
  <2>1. i \in g + 1 .. Top /\ num_free[i] > 0
    BY DEF Splittable
  <2> QED
    BY <1>4, <2>1, BuddyAssumption DEF Orders, Top
<1> HIDE DEF g
<1>6. PICK a : a = Head(free_list[i])
  OBVIOUS
<1>7. /\ Pending([free_list EXCEPT ![i] = Tail(@)], [num_free EXCEPT ![i] = @ - 1], live, i, a)
      /\ a \in Nat /\ (i = Top \/ Held(BlocksOf(live), i + 1, a))
  BY <1>3, <1>5, <1>6, TakeOff DEF Settled
<1>8. Bits(used, BlocksOf(live), i + 1, a)
  <2>1. BlocksOf(live) \in SUBSET BlockRec
    BY <1>3, BlocksOfType
  <2> QED
    BY <1>3, <1>5, <1>7, <2>1, BitsAbove DEF Settled
<1>9. Pending(free_list', num_free', live', i, a) /\ Bits(used', BlocksOf(live'), i + 1, a)
  BY <1>1, <1>2, <1>7, <1>8
<1>10. /\ call' \in SliceCall /\ call'.start = i /\ call'.addr = a
       /\ call'.target = g /\ call'.nframes = cur_nframes
  BY <1>2, <1>4, <1>5, <1>6, <1>7 DEF SliceCall
<1>11. InSlice'
  <2>1. call'.target = get_buddy_order(call'.nframes)
    BY <1>10 DEF g
  <2> QED
    BY <1>5, <1>9, <1>10, <2>1 DEF InSlice
<1> QED
  BY <1>1, <1>3, <1>11 DEF BuddyInv

LEMMA AllocFailsKeeps ==
  ASSUME BuddyInv, AllocFails
  PROVE  BuddyInv'
<1>1. LiveOK(live) /\ Settled(free_list, num_free, live, used)
  BY Phase DEF AllocFails, Between
<1> QED
  BY <1>1 DEF AllocFails, BuddyInv, Between

LEMMA SliceKeeps ==
  ASSUME BuddyInv, buddy_slice
  PROVE  BuddyInv'
<1>1. LiveOK(live) /\ InSlice
  BY Phase DEF buddy_slice
<1>2. PICK h \in Orders, a \in Nat, g \in Orders, n \in Pos, l \in Pos :
         h = call.start /\ a = call.addr /\ g = call.target /\ n = call.nframes /\ l = call.left
  BY <1>1 DEF InSlice, SliceCall
<1>3. g < h /\ g = get_buddy_order(n) /\ Pending(free_list, num_free, live, h, a) /\ Bits(used, BlocksOf(live), h + 1, a)
  BY <1>1, <1>2 DEF InSlice
<1>4. PICK o \in Orders : o = h - 1 /\ o < Top /\ h = o + 1 /\ g <= o /\ (o <= g => o = g)
  <2>1. g \in Nat /\ h \in Nat /\ h <= Top
    BY Sizes
  <2>2. h - 1 \in Orders /\ h - 1 < Top /\ h = (h - 1) + 1 /\ g <= h - 1 /\ (h - 1 <= g => h - 1 = g)
    BY <1>3, <2>1, BuddyAssumption DEF Orders, Top
  <2> QED
    BY <2>2
<1>5. BlockSize(h) \div 2 = BlockSize(o)
  <2>1. BlockSize(h) = 2 * BlockSize(o) /\ BlockSize(o) \in Nat
    BY <1>4, Sizes
  <2> QED
    BY <2>1
<1>6. free_list' = [free_list EXCEPT ![o] = <<a + BlockSize(o)>> \o @] /\ num_free' = [num_free EXCEPT ![o] = @ + 1]
  BY <1>2, <1>4, <1>5 DEF buddy_slice, Insert
<1>7. Pending(free_list', num_free', live, o, a)
  BY <1>1, <1>3, <1>4, <1>6, SplitOff
<1>8. InRange(a)
  BY <1>3 DEF Pending, Block
<1>9. Bits(used \cup {BitOf(h, a)}, BlocksOf(live), h, a)
  BY <1>3, <1>8, BitsLower
<1>10. CASE o <= g
  <2>1. used' = (used \cup {BitOf(h, a)}) \cup {BitOf(o, a)} /\ HandOut(a, n, l)
    BY <1>2, <1>4, <1>10 DEF buddy_slice
  <2>2. Bits(used', BlocksOf(live), o, a)
    <3>1. Bits(used \cup {BitOf(h, a)}, BlocksOf(live), o + 1, a)
      BY <1>4, <1>9
    <3> QED
      BY <1>8, <2>1, <3>1, BitsLower
  <2> QED
    BY <1>1, <1>3, <1>4, <1>7, <1>10, <2>1, <2>2, HandOutKeeps
<1>11. CASE ~ (o <= g)
  <2>1. used' = used \cup {BitOf(h, a)} /\ call' = [call EXCEPT !.start = o] /\ live' = live
    BY <1>2, <1>4, <1>11 DEF buddy_slice
  <2>2. call' \in SliceCall /\ call'.start = o /\ call'.addr = a /\ call'.target = g /\ call'.nframes = n
    BY <1>1, <1>2, <2>1 DEF InSlice, SliceCall
  <2>3. g < o
    BY <1>4, <1>11, Sizes
  <2>4. Bits(used', BlocksOf(live'), o + 1, a) /\ Pending(free_list', num_free', live', o, a)
    BY <1>4, <1>7, <1>9, <2>1
  <2>5. InSlice'
    BY <1>3, <2>2, <2>3, <2>4 DEF InSlice
  <2> QED
    BY <1>1, <2>1, <2>5 DEF BuddyInv
<1> QED
  BY <1>10, <1>11

LEMMA FreeKeeps ==
  ASSUME BuddyInv, NEW n \in Requests, Free(n)
  PROVE  BuddyInv'
<1>1. /\ live # <<>> /\ n <= 2 ^ Last(live).order /\ live' = Front(live)
      /\ call' = [op |-> "free", addr |-> Last(live).addr, order |-> get_buddy_order(n)]
      /\ free_list' = free_list /\ num_free' = num_free /\ used' = used
  BY DEF Free
<1>2. LiveOK(live) /\ Settled(free_list, num_free, live, used)
  BY Phase DEF Free, Between
<1>3. PICK t \in Orders, a \in Nat : t = Last(live).order /\ a = Last(live).addr
  <2>1. Last(live) \in BlockRec
    BY <1>1, <1>2, LiveFront
  <2> QED
    BY <2>1 DEF BlockRec
<1>4. /\ LiveOK(live') /\ Block(t, a) /\ Apart(BlocksOf(live'), t, a) /\ LeftTaken(live', t, a, Len(live'))
      /\ BlocksOf(live) = BlocksOf(live') \cup {Blk(t, a)}
  BY <1>1, <1>2, <1>3, LiveFront
<1>5. Pending(free_list', num_free', live', t, a)
  BY <1>1, <1>2, <1>4 DEF Settled, Pending
<1>6. Bits(used', BlocksOf(live'), t, a)
  BY <1>1, <1>2, <1>4, BitsGive DEF Settled
<1>7. n \in Pos
  BY BuddyAssumption DEF Pos
<1>8. get_buddy_order(n) \in Orders /\ get_buddy_order(n) <= t
  BY <1>1, <1>3, <1>7, LeastOrder
<1>9. call' \in FreeCall /\ call'.addr = a /\ call'.order = get_buddy_order(n)
  BY <1>1, <1>3, <1>8 DEF FreeCall
<1>10. InFree'
  BY <1>5, <1>6, <1>8, <1>9 DEF InFree
<1> QED
  BY <1>4, <1>10 DEF BuddyInv

\* Only the order of the block freed has its bit set.
LEMMA BitFound ==
  ASSUME NEW f, NEW n, NEW s, NEW u, LiveOK(s), NEW o \in Orders, NEW t, o <= t, NEW a,
         Pending(f, n, s, t, a), Bits(u, BlocksOf(s), t, a)
  PROVE  BitOf(o, a) \in u <=> o = t
<1>1. BlocksOf(s) \in SUBSET BlockRec /\ t \in Orders /\ a \in Nat /\ InRange(a) /\ Apart(BlocksOf(s), t, a)
  BY BlocksOfType DEF Pending, Block
<1>2. o \in Nat /\ t \in Nat /\ Same(o, a, a)
  BY <1>1, SameHolds DEF SameFacts
<1>3. BitOf(o, a) \in u <=> Held(BlocksOf(s), o, a) \/ t <= o
  BY <1>1, <1>2 DEF Bits
<1>4. ~ Held(BlocksOf(s), o, a)
  <2>1. SUFFICES ASSUME NEW b \in BlocksOf(s), b.order <= o, Same(o, a, b.addr) PROVE FALSE
    BY DEF Held
  <2>2. b.addr \in Nat /\ b.order \in Nat
    BY <1>1, BlockTypes
  <2>3. Same(t, a, b.addr) /\ b.order <= t
    BY <1>1, <1>2, <2>1, <2>2, SameHolds DEF SameFacts
  <2> QED
    BY <1>1, <2>3 DEF Apart, Meets
<1> QED
  BY <1>2, <1>3, <1>4

LEMMA FreeClimbKeeps ==
  ASSUME BuddyInv, FreeClimb
  PROVE  BuddyInv'
<1>1. LiveOK(live) /\ InFree
  BY Phase DEF FreeClimb
<1>2. PICK o \in Orders, a \in Nat : o = call.order /\ a = call.addr
  BY <1>1 DEF InFree, FreeCall
<1>3. PICK t \in Orders : o <= t /\ Pending(free_list, num_free, live, t, a) /\ Bits(used, BlocksOf(live), t, a)
  BY <1>1, <1>2 DEF InFree
<1>4. o # t
  BY <1>1, <1>2, <1>3, BitFound DEF FreeClimb
<1>5. o + 1 \in Orders /\ o + 1 <= t /\ o # Top
  BY <1>3, <1>4, Sizes
<1>6. /\ call' = [call EXCEPT !.order = o + 1]
      /\ free_list' = free_list /\ num_free' = num_free /\ used' = used /\ live' = live
  BY <1>2, <1>5 DEF FreeClimb
<1>7. call' \in FreeCall /\ call'.addr = a /\ call'.order = o + 1
  BY <1>1, <1>2, <1>5, <1>6 DEF InFree, FreeCall
<1>8. InFree'
  <2>1. call'.order <= t /\ Pending(free_list', num_free', live', t, call'.addr) /\ Bits(used', BlocksOf(live'), t, call'.addr)
    BY <1>3, <1>5, <1>6, <1>7
  <2> QED
    BY <1>7, <2>1 DEF InFree
<1> QED
  BY <1>1, <1>6, <1>8 DEF BuddyInv

LEMMA FreeFoundKeeps ==
  ASSUME BuddyInv, FreeFound
  PROVE  BuddyInv'
<1>1. LiveOK(live) /\ InFree
  BY Phase DEF FreeFound
<1>2. PICK o \in Orders, a \in Nat : o = call.order /\ a = call.addr
  BY <1>1 DEF InFree, FreeCall
<1>3. PICK t \in Orders : o <= t /\ Pending(free_list, num_free, live, t, a) /\ Bits(used, BlocksOf(live), t, a)
  BY <1>1, <1>2 DEF InFree
<1>4. o = t
  BY <1>1, <1>2, <1>3, BitFound DEF FreeFound
<1>5. /\ call' = [call EXCEPT !.op = "coalesce"]
      /\ free_list' = free_list /\ num_free' = num_free /\ used' = used /\ live' = live
  BY DEF FreeFound
<1>6. call' \in CoalesceCall /\ call'.addr = a /\ call'.order = o
  BY <1>1, <1>2, <1>5 DEF InFree, FreeCall, CoalesceCall
<1>7. InCoalesce'
  BY <1>3, <1>4, <1>5, <1>6 DEF InCoalesce
<1> QED
  BY <1>1, <1>5, <1>7 DEF BuddyInv

\* remove_free_frame stops at the block it looks for and at no other.
LEMMA OneContains ==
  ASSUME NEW T, Lists(free_list, num_free, T), NEW o \in Orders, NEW k \in 1 .. Len(free_list[o])
  PROVE  Containing(o, free_list[o][k]) = {k}
<1> DEFINE s == free_list[o]
<1>1. ListOf(s, FreeSet(T, o)) /\ Len(s) \in Nat
  BY ListsAt
<1>2. PICK b \in Nat \ {0} : b = BlockSize(o)
  BY Sizes
<1>3. \A i \in 1 .. Len(s) : s[i] \in Nat /\ At(o, s[i])
  <2>1. \A i \in 1 .. Len(s) : s[i] \in Nat /\ s[i] \in FreeSet(T, o)
    BY <1>1, ListLen
  <2> QED
    BY <2>1 DEF FreeSet, IsFree, Block
<1> HIDE DEF s
<1>4. ASSUME NEW i \in 1 .. Len(s), s[i] + b > s[k], s[i] <= s[k] PROVE i = k
  <2>1. PICK x \in Nat, c \in Nat : x = s[i] /\ c = s[k] /\ x <= c /\ c < x + b
    <3>1. k \in 1 .. Len(s)
      BY DEF s
    <3> QED
      BY <1>3, <1>4, <3>1
  <2>2. PICK q \in Nat : q = Idx(o, x) /\ x = q * b
    BY <1>2, <1>3, <2>1, IdxIs DEF At
  <2>3. q * b <= c /\ c < (q + 1) * b
    BY <2>1, <2>2
  <2>4. Idx(o, c) = q
    BY <1>2, <2>3, IdxIs
  <2>5. At(o, x) /\ At(o, c)
    BY <1>3, <2>1 DEF s
  <2>6. x = c
    BY <2>2, <2>4, <2>5, AtOnly DEF Same
  <2> QED
    BY <1>1, <2>1, <2>6 DEF ListOf, s
<1>5. k \in 1 .. Len(s) /\ s[k] + b > s[k] /\ s[k] <= s[k]
  <2>1. k \in 1 .. Len(s)
    BY DEF s
  <2>2. s[k] \in Nat
    BY <1>3, <2>1
  <2> QED
    BY <2>1, <2>2
<1>6. Containing(o, s[k]) = {i \in 1 .. Len(s) : s[i] + b > s[k] /\ s[i] <= s[k]}
  BY <1>2 DEF Containing, s
<1> QED
  BY <1>4, <1>5, <1>6 DEF s

LEMMA CoalesceUpKeeps ==
  ASSUME BuddyInv, CoalesceUp
  PROVE  BuddyInv'
<1>1. LiveOK(live) /\ InCoalesce
  BY Phase DEF CoalesceUp
<1>2. PICK o \in Orders, a \in Nat : o = call.order /\ a = call.addr
  BY <1>1 DEF InCoalesce, CoalesceCall
<1>3. Pending(free_list, num_free, live, o, a) /\ Bits(used, BlocksOf(live), o, a)
  BY <1>1, <1>2 DEF InCoalesce
<1>4. o < Top /\ Bit(o, buddy_map(addr_to_map_id(o, a))) \notin used
  BY <1>2 DEF CoalesceUp, MergesWithBuddy
<1>5. InRange(a) /\ Apart(BlocksOf(live), o, a) /\ Lists(free_list, num_free, BlocksOf(live) \cup {Blk(o, a)})
  BY <1>3 DEF Pending, Block
<1>6. PICK c \in Nat :
            /\ c = map_to_addr(o, buddy_map(addr_to_map_id(o, a)))
            /\ BitOf(o, c) = Bit(o, buddy_map(addr_to_map_id(o, a)))
            /\ Idx(o, c) = Sibling(Idx(o, a)) /\ At(o, c)
            /\ Same(o + 1, c, a) /\ ~ Same(o, c, a) /\ InRange(c)
  BY <1>4, <1>5, OtherHalf
<1>7. BitOf(o, c) \notin used
  BY <1>4, <1>6
<1>8. PICK k \in 1 .. Len(free_list[o]) :
            free_list[o][k] = c /\ Merged(free_list, num_free, live, o, a, k)
  <2>1. /\ LiveOK(live) /\ o < Top /\ Pending(free_list, num_free, live, o, a)
        /\ Bits(used, BlocksOf(live), o, a) /\ InRange(c) /\ At(o, c) /\ Idx(o, c) = Sibling(Idx(o, a))
        /\ Same(o + 1, c, a) /\ ~ Same(o, c, a) /\ BitOf(o, c) \notin used
    BY <1>1, <1>3, <1>4, <1>6, <1>7
  <2> QED
    BY <2>1, MergeUp
<1>9. Containing(o, c) = {k}
  BY <1>5, <1>8, OneContains
<1>10. num_free[o] > 0 /\ num_free[o] # 0
  <2>1. num_free[o] = Len(free_list[o]) /\ Len(free_list[o]) \in Nat
    BY <1>5, ListsAt
  <2> QED
    BY <2>1
<1>11. (CHOOSE i \in {k} : \A j \in {k} : i <= j) = k
  <2>1. k \in Nat
    OBVIOUS
  <2> QED
    BY <2>1
<1>12. /\ used' = used \ {BitOf(o, a)} /\ live' = live
       /\ call' = [call EXCEPT !.order = o + 1]
       /\ free_list' = [free_list EXCEPT ![o] = RemoveAt(@, k)]
       /\ num_free' = [num_free EXCEPT ![o] = @ - 1]
  <2>1. used' = used \ {BitOf(o, a)} /\ live' = live
    BY <1>2 DEF CoalesceUp, set_frame_unused
  <2>2. call' = [call EXCEPT !.order = o + 1]
    BY <1>2, <1>6, <1>9 DEF CoalesceUp
  <2>3. /\ free_list' = [free_list EXCEPT ![o] = RemoveAt(@, CHOOSE i \in Containing(o, c) : \A j \in Containing(o, c) : i <= j)]
        /\ num_free' = [num_free EXCEPT ![o] = @ - 1]
    BY <1>2, <1>6, <1>9, <1>10 DEF CoalesceUp
  <2> QED
    BY <1>9, <1>11, <2>1, <2>2, <2>3
<1>13. o + 1 \in Orders
  BY <1>4, Sizes
<1>14. call' \in CoalesceCall /\ call'.addr = a /\ call'.order = o + 1
  BY <1>1, <1>2, <1>12, <1>13 DEF InCoalesce, CoalesceCall
<1>15. Bits(used \ {BitOf(o, a)}, BlocksOf(live), o + 1, a)
  <2>1. BlocksOf(live) \in SUBSET BlockRec
    BY <1>1, BlocksOfType
  <2> QED
    BY <1>3, <1>5, <2>1, BitsClear
<1>16. InCoalesce'
  <2>1. Pending(free_list', num_free', live', o + 1, a) /\ Bits(used', BlocksOf(live'), o + 1, a)
    BY <1>8, <1>12, <1>15 DEF Merged
  <2> QED
    BY <1>14, <2>1 DEF InCoalesce
<1> QED
  BY <1>1, <1>12, <1>16 DEF BuddyInv

LEMMA CoalesceEndsKeeps ==
  ASSUME BuddyInv, CoalesceEnds
  PROVE  BuddyInv'
<1>1. LiveOK(live) /\ InCoalesce
  BY Phase DEF CoalesceEnds
<1>2. PICK o \in Orders, a \in Nat : o = call.order /\ a = call.addr
  BY <1>1 DEF InCoalesce, CoalesceCall
<1>3. Pending(free_list, num_free, live, o, a) /\ Bits(used, BlocksOf(live), o, a)
  BY <1>1, <1>2 DEF InCoalesce
<1>4. InRange(a) /\ Apart(BlocksOf(live), o, a) /\ BlocksOf(live) \in SUBSET BlockRec
  BY <1>1, <1>3, BlocksOfType DEF Pending, Block
<1>5. o = Top \/ Held(BlocksOf(live), o + 1, a)
  <2>1. SUFFICES ASSUME o # Top PROVE Held(BlocksOf(live), o + 1, a)
    OBVIOUS
  <2>2. o < Top /\ o + 1 \in Orders /\ o <= o + 1
    BY <2>1, Sizes
  <2>3. PICK c \in Nat :
            /\ BitOf(o, c) = Bit(o, buddy_map(addr_to_map_id(o, a)))
            /\ Same(o + 1, c, a) /\ ~ Same(o, c, a) /\ InRange(c)
    BY <1>4, <2>2, OtherHalf
  <2>4. BitOf(o, c) \in used
    BY <1>2, <2>2, <2>3 DEF CoalesceEnds, MergesWithBuddy
  <2>5. Held(BlocksOf(live), o, c)
    BY <1>3, <2>3, <2>4 DEF Bits
  <2>6. Same(o + 1, a, c)
    BY <2>3 DEF Same
  <2> QED
    BY <1>4, <2>2, <2>5, <2>6, HeldUp
<1>6. /\ used' = used \ {BitOf(o, a)} /\ live' = live /\ call' = Idle
      /\ free_list' = [free_list EXCEPT ![o] = <<a>> \o @] /\ num_free' = [num_free EXCEPT ![o] = @ + 1]
  BY <1>2 DEF CoalesceEnds, set_frame_unused, Insert
<1>7. Lists(free_list', num_free', BlocksOf(live))
  BY <1>1, <1>3, <1>5, <1>6, PutBack
<1>8. Bits(used', BlocksOf(live), o + 1, a)
  BY <1>3, <1>4, <1>6, BitsClear
<1>9. Bits(used', BlocksOf(live), MAX_ORDER, mem_start)
  BY <1>4, <1>5, <1>8, BitsAbove
<1>10. Between'
  BY <1>6, <1>7, <1>9 DEF Between, Settled
<1> QED
  BY <1>1, <1>6, <1>10 DEF BuddyInv

LEMMA StutterKeeps ==
  ASSUME BuddyInv, UNCHANGED vars
  PROVE  BuddyInv'
BY DEF vars, BuddyInv, Between, InSlice, InFree, InCoalesce

\* The lists and the bits describe the blocks held, at every step of a call to
\* buddy_alloc_frames or buddy_free_frames.
THEOREM BuddyInvariance == Spec => []BuddyInv
<1>1. BuddyInv /\ [Next]_vars => BuddyInv'
  <2> SUFFICES ASSUME BuddyInv, [Next]_vars PROVE BuddyInv'
    OBVIOUS
  <2>1. ASSUME NEW n \in Requests, Alloc(n) PROVE BuddyInv'
    BY <2>1, AllocKeeps
  <2>2. ASSUME NEW n \in Requests, Free(n) PROVE BuddyInv'
    BY <2>2, FreeKeeps
  <2>3. CASE AllocHead
    BY <2>3, AllocHeadKeeps
  <2>4. CASE AllocSlice
    BY <2>4, AllocSliceKeeps
  <2>5. CASE AllocFails
    BY <2>5, AllocFailsKeeps
  <2>6. CASE buddy_slice
    BY <2>6, SliceKeeps
  <2>7. CASE FreeClimb
    BY <2>7, FreeClimbKeeps
  <2>8. CASE FreeFound
    BY <2>8, FreeFoundKeeps
  <2>9. CASE CoalesceUp
    BY <2>9, CoalesceUpKeeps
  <2>10. CASE CoalesceEnds
    BY <2>10, CoalesceEndsKeeps
  <2>11. CASE UNCHANGED vars
    BY <2>11, StutterKeeps
  <2> QED
    BY <2>1, <2>2, <2>3, <2>4, <2>5, <2>6, <2>7, <2>8, <2>9, <2>10, <2>11 DEF Next, Step
<1> QED
  BY <1>1, InitInv, PTL DEF Spec

----------------------------------------------------------------------------
\* What follows from the invariant.

LEMMA SomeLists ==
  ASSUME BuddyInv
  PROVE  \E T : Lists(free_list, num_free, T)
BY DEF BuddyInv, Between, InSlice, InFree, InCoalesce, Settled, Pending

\* NumFreeExact: at no point of a call does num_free differ from the length of
\* the list, so remove_free_head and remove_free_frame never read an empty one.
THEOREM CountersExact == Spec => []NumFreeExact
<1>1. BuddyInv => NumFreeExact
  BY SomeLists DEF NumFreeExact, Lists
<1> QED
  BY <1>1, BuddyInvariance, PTL

\* NoFault: remove_free_frame finds the other half, and buddy_free_frames_rec a
\* bit that is set at or below the largest order.
THEOREM NeverFaults == Spec => []NoFault
<1>1. BuddyInv => NoFault
  BY Phase DEF NoFault
<1> QED
  BY <1>1, BuddyInvariance, PTL

\* FailsOnlyWhenFull: buddy_alloc_frames_max_order returns ENOMEM only when the
\* lists of the order asked for and of all larger ones are empty.
THEOREM FailureMeansFull == Spec => FailsOnlyWhenFull
<1>1. BuddyInv /\ [Next]_vars =>
        [AllocFails => \A o \in get_buddy_order(cur_nframes) .. Top : free_list[o] = <<>>]_vars
  <2> SUFFICES ASSUME BuddyInv, AllocFails, NEW o \in get_buddy_order(cur_nframes) .. Top
               PROVE  free_list[o] = <<>>
    OBVIOUS
  <2>1. PICK g \in Orders : g = get_buddy_order(cur_nframes)
    BY Phase, Current DEF AllocFails
  <2>2. o \in Orders /\ (o # g => o \in g + 1 .. Top)
    BY <2>1, BuddyAssumption DEF Orders, Top
  <2>3. num_free[g] = 0 /\ Splittable(g) = {}
    BY <2>1 DEF AllocFails
  <2>4. PICK T : Lists(free_list, num_free, T)
    BY SomeLists
  <2>5. num_free[o] = Len(free_list[o]) /\ Len(free_list[o]) \in Nat /\ (Len(free_list[o]) > 0 <=> free_list[o] # <<>>)
    BY <2>2, <2>4, ListsAt, ListLen
  <2>6. CASE o = g
    BY <2>3, <2>5, <2>6
  <2>7. CASE o # g
    BY <2>2, <2>3, <2>5, <2>7 DEF Splittable
  <2> QED
    BY <2>6, <2>7
<1> QED
  BY <1>1, BuddyInvariance, PTL DEF Spec, FailsOnlyWhenFull

\* The range starts where a block of every order starts.
LEMMA StartAt == \A o \in Orders : At(o, mem_start)
<1> DEFINE S == {o \in Orders : ~ At(o, mem_start)}
<1>1. SUFFICES ASSUME S # {} PROVE FALSE
  OBVIOUS
<1>2. S \in SUBSET (0 .. Top) /\ Top \in Nat
  BY BuddyAssumption DEF Orders, Top
<1>3. PICK o \in S : \A p \in S : p <= o
  BY <1>1, <1>2, GreatestOf
<1>4. o \in Orders /\ ~ At(o, mem_start) /\ o # Top /\ mem_start \in Nat
  BY Start, BuddyAssumption
<1>5. o < Top /\ o + 1 \in Orders /\ ~ (o + 1 <= o)
  BY <1>4, Sizes
<1>6. At(o + 1, mem_start)
  BY <1>3, <1>5
<1> QED
  BY <1>4, <1>5, <1>6, AtDown

\* BuddiesMerged: after a call no two halves of a block are both in a list.
THEOREM HalvesMerged == Spec => []BuddiesMerged
<1>1. ASSUME BuddyInv, call = Idle, NEW o \in 0 .. Top - 1,
             NEW i \in DOMAIN free_list[o], NEW j \in DOMAIN free_list[o],
             free_list[o][i] + BlockSize(o) = free_list[o][j],
             (free_list[o][i] - mem_start) % BlockSize(o + 1) = 0
      PROVE  FALSE
  <2> DEFINE L == BlocksOf(live)
  <2>1. Lists(free_list, num_free, L) /\ L \in SUBSET BlockRec
    BY <1>1, Phase, BlocksOfType DEF Between, Settled
  <2>2. o \in Orders /\ o < Top /\ o # Top /\ o + 1 \in Orders /\ o \in Nat
    <3>1. o \in Nat /\ o < Top /\ o # Top /\ o \in Orders
      BY BuddyAssumption DEF Orders, Top
    <3> QED
      BY <3>1, Sizes
  <2> HIDE DEF L
  <2>3. PICK a \in Nat, b \in Nat :
           a = free_list[o][i] /\ b = free_list[o][j] /\ b = a + BlockSize(o) /\ IsFree(L, o, a) /\ IsFree(L, o, b)
    <3>1. ListOf(free_list[o], FreeSet(L, o)) /\ DOMAIN free_list[o] = 1 .. Len(free_list[o])
      BY <2>1, <2>2, ListsAt, ListLen
    <3>2. \A k \in DOMAIN free_list[o] : free_list[o][k] \in Nat /\ free_list[o][k] \in FreeSet(L, o)
      BY <3>1, ListLen
    <3> QED
      BY <1>1, <3>2 DEF FreeSet
  <2>4. At(o + 1, a)
    <3>1. PICK c \in Nat \ {0}, q \in Nat : c = BlockSize(o + 1) /\ mem_start = q * c
      <4>1. At(o + 1, mem_start) /\ mem_start \in Nat /\ Idx(o + 1, mem_start) \in Nat /\ BlockSize(o + 1) \in Nat \ {0}
        BY <2>2, Sizes, StartAt, IdxIs, BuddyAssumption
      <4> QED
        BY <4>1 DEF At
    <3>2. PICK d \in Nat : d = a - mem_start /\ d % c = 0
      <4>1. mem_start <= a /\ mem_start \in Nat
        BY <2>3, RangeIs, IsFreeType, BuddyAssumption
      <4> QED
        BY <1>1, <2>3, <3>1, <4>1
    <3>3. PICK r \in Nat : d = c * r
      <4>1. PICK r \in Nat, z \in 0 .. c - 1 : z = d % c /\ d = c * r + z
        BY Quotient
      <4>2. d = c * r + 0
        BY <3>2, <4>1
      <4> QED
        BY <4>2
    <3>4. a = (q + r) * c /\ q + r \in Nat
      <4>1. a = q * c + c * r
        BY <2>3, <3>1, <3>2, <3>3
      <4> QED
        BY <4>1
    <3> QED
      BY <2>2, <3>1, <3>4, Multiple
  <2>5. PICK k \in Nat, m \in Nat : k = Idx(o, a) /\ m = Idx(o + 1, a) /\ k = 2 * m /\ Idx(o, b) = k + 1
    <3>1. Idx(o, a) = 2 * Idx(o + 1, a) /\ Idx(o, a + BlockSize(o)) = Idx(o, a) + 1
      BY <2>2, <2>4, AtDown
    <3>2. Idx(o, a) \in Nat /\ Idx(o + 1, a) \in Nat
      BY <2>2, IdxIs
    <3> QED
      BY <2>3, <3>1, <3>2
  <2>6. PICK t \in L : t.order <= o + 1 /\ Same(o + 1, a, t.addr)
    BY <2>2, <2>3 DEF IsFree, Held
  <2>7. t.addr \in Nat /\ t.order \in Nat /\ ~ Meets(o, a, t) /\ ~ Meets(o, b, t)
    BY <2>1, <2>3, BlockTypes DEF IsFree, Apart
  <2>8. t.order <= o
    <3>1. t.order # o + 1
      BY <2>2, <2>6, <2>7 DEF Meets
    <3> QED
      BY <2>2, <2>6, <2>7, <3>1
  <2>9. PICK y \in Nat : y = Idx(o, t.addr) /\ y \div 2 = m
    <3>1. Idx(o + 1, t.addr) = Idx(o, t.addr) \div 2
      BY <2>2, <2>7, IdxUp
    <3>2. Idx(o, t.addr) \in Nat
      BY <2>2, <2>7, IdxIs
    <3> QED
      BY <2>5, <2>6, <3>1, <3>2 DEF Same
  <2>10. y = k \/ y = k + 1
    BY <2>5, <2>9
  <2> QED
    BY <2>5, <2>7, <2>8, <2>9, <2>10 DEF Meets, Same
<1>2. BuddyInv => BuddiesMerged
  BY <1>1 DEF BuddiesMerged
<1> QED
  BY <1>2, BuddyInvariance, PTL

----------------------------------------------------------------------------
\* Pages.

LEMMA Product ==
  ASSUME NEW x \in Nat, NEW y \in Nat, NEW c \in Nat \ {0}
  PROVE  x * c \in Nat /\ y * c \in Nat /\ (x <= y <=> x * c <= y * c) /\ (x < y <=> x * c < y * c)
<1>1. ASSUME NEW v \in Nat, NEW w \in Nat, v <= w PROVE v * c <= w * c /\ (v # w => v * c < w * c)
  <2>1. PICK d \in Nat : w = v + d
    BY <1>1
  <2>2. w * c = v * c + d * c /\ d * c \in Nat /\ v * c \in Nat /\ (d # 0 => d * c > 0)
    BY <2>1
  <2> QED
    BY <2>1, <2>2
<1>2. x * c \in Nat /\ y * c \in Nat
  OBVIOUS
<1>3. CASE x <= y
  BY <1>1, <1>2, <1>3
<1>4. CASE y <= x /\ x # y
  BY <1>1, <1>2, <1>4
<1> QED
  BY <1>3, <1>4

\* The pages of a block are those that lie in it.
LEMMA PagesIn ==
  ASSUME NEW o \in Orders, NEW a \in Nat, At(o, a), NEW p \in Nat
  PROVE  p * PAGE_SIZE \in Nat /\ (p \in Pages(a, o) <=> Same(o, a, p * PAGE_SIZE))
<1>1. PICK S \in Nat \ {0}, w \in Nat \ {0}, b \in Nat \ {0}, k \in Nat :
         S = PAGE_SIZE /\ w = 2 ^ o /\ b = BlockSize(o) /\ b = S * w /\ k = Idx(o, a) /\ a = k * b
  <2>1. PAGE_SIZE \in Nat \ {0} /\ 2 ^ o \in Nat \ {0} /\ BlockSize(o) \in Nat \ {0} /\ Idx(o, a) \in Nat
    BY Sizes, IdxIs, BuddyAssumption
  <2> QED
    BY <2>1 DEF BlockSize, At
<1>2. PICK z \in Nat, x \in Nat : z = k * w /\ x = p * S
  OBVIOUS
<1>3. a = z * S /\ (k + 1) * b = (z + w) * S
  <2>1. k * (S * w) = (k * w) * S /\ (k + 1) * (S * w) = (k * w) * S + w * S
    OBVIOUS
  <2>2. (z + w) * S = z * S + w * S
    OBVIOUS
  <2> QED
    BY <1>1, <1>2, <2>1, <2>2
<1>4. a \div S = z
  <2>1. z * S <= a /\ a < (z + 1) * S
    BY <1>3
  <2> QED
    BY <2>1, QuotientIs
<1>5. p \in Pages(a, o) <=> z <= p /\ p < z + w
  <2>1. Pages(a, o) = {z + i : i \in 0 .. w - 1}
    BY <1>1, <1>4 DEF Pages
  <2>2. ASSUME z <= p, p < z + w PROVE p - z \in 0 .. w - 1 /\ p = z + (p - z)
    BY <2>2
  <2> QED
    BY <2>1, <2>2
<1>6. Same(o, a, x) <=> k * b <= x /\ x < (k + 1) * b
  BY <1>1, IdxIs DEF Same
<1>7. (z <= p <=> z * S <= x) /\ (p < z + w <=> x < (z + w) * S)
  <2>1. z + w \in Nat
    OBVIOUS
  <2> QED
    BY <1>2, <2>1, Product
<1>8. p \in Pages(a, o) <=> Same(o, a, x)
  BY <1>1, <1>3, <1>5, <1>6, <1>7
<1> QED
  BY <1>1, <1>2, <1>8

LEMMA ManagedIn ==
  ASSUME NEW p \in Managed
  PROVE  p \in Nat /\ p * PAGE_SIZE \in Nat /\ InRange(p * PAGE_SIZE)
<1>1. PICK S \in Nat \ {0}, w \in Nat \ {0}, b \in Nat \ {0}, g \in Nat, m \in Nat :
         /\ S = PAGE_SIZE /\ w = 2 ^ Top /\ b = BlockSize(Top) /\ b = S * w
         /\ g = First /\ m = max_map_size /\ mem_start = g * b
  <2>1. PAGE_SIZE \in Nat \ {0} /\ 2 ^ Top \in Nat \ {0} /\ BlockSize(Top) \in Nat \ {0}
        /\ First \in Nat /\ max_map_size \in Nat /\ mem_start = First * BlockSize(Top)
    BY Sizes, Start, BuddyAssumption
  <2> QED
    BY <2>1 DEF BlockSize
<1>2. PICK z \in Nat : z = g * w
  OBVIOUS
<1>3. mem_start = z * S /\ mem_start \in Nat
  BY <1>1, <1>2
<1>4. mem_start \div S = z
  <2>1. z * S <= mem_start /\ mem_start < (z + 1) * S
    BY <1>3
  <2> QED
    BY <1>3, <2>1, QuotientIs
<1>5. PICK i \in 0 .. m * w - 1 : p = z + i
  BY <1>1, <1>4 DEF Managed
<1>6. i \in Nat /\ i < m * w
  <2>1. m * w \in Nat
    OBVIOUS
  <2> QED
    BY <2>1
<1>7. PICK q \in Nat, r \in 0 .. w - 1 : i = w * q + r
  <2>1. PICK j \in Nat : j = i
    BY <1>6
  <2>2. \E q \in Nat, r \in 0 .. w - 1 : q = j \div w /\ r = j % w /\ j = w * q + r
    BY Quotient, Zenon
  <2> QED
    BY <2>1, <2>2
<1>8. q < m
  <2>1. q * w <= i
    BY <1>7
  <2>2. q * w < m * w
    <3>1. q * w \in Nat /\ m * w \in Nat
      OBVIOUS
    <3> QED
      BY <1>6, <2>1, <3>1
  <2> QED
    BY <2>2, Product
<1>9. PICK k \in Nat : k = g + q /\ k \in g .. g + m - 1
  BY <1>8
<1>10. p = k * w + r /\ p \in Nat
  BY <1>2, <1>5, <1>6, <1>7, <1>9
<1>11. k * b <= p * S /\ p * S < (k + 1) * b /\ p * S \in Nat
  <2>1. PICK x \in Nat, y \in Nat : x = k * w /\ y = (k + 1) * w
    OBVIOUS
  <2>2. y = x + w /\ k * b = x * S /\ (k + 1) * b = y * S
    BY <1>1, <2>1
  <2>3. x <= p /\ p < y
    BY <1>10, <2>1, <2>2
  <2> QED
    BY <1>10, <2>2, <2>3, Product
<1>12. Idx(Top, p * S) = k
  BY <1>1, <1>11, IdxIs, Sizes
<1> QED
  BY <1>1, <1>9, <1>10, <1>11, <1>12 DEF InRange

\* A page in no block held lies in a free one: in the largest block around it
\* in which nothing is held.
LEMMA FreeAround ==
  ASSUME NEW T \in SUBSET BlockRec, NEW x \in Nat, InRange(x), \A t \in T : ~ Same(t.order, x, t.addr)
  PROVE  \E o \in Orders, a \in Nat : IsFree(T, o, a) /\ Same(o, a, x)
<1> DEFINE B(o) == Idx(o, x) * BlockSize(o)
           G == {o \in Orders : Apart(T, o, B(o))}
<1>1. \A o \in Orders : B(o) \in Nat /\ Same(o, B(o), x) /\ At(o, B(o))
  BY IdxIs, Multiple DEF Same
<1>2. \A o \in Orders : Block(o, B(o))
  <2>1. ASSUME NEW o \in Orders PROVE InRange(B(o))
    <3>1. Same(o, x, B(o)) /\ B(o) \in Nat
      BY <1>1 DEF Same
    <3> QED
      BY <3>1, InRangeSame
  <2> QED
    BY <1>1, <2>1 DEF Block
<1> HIDE DEF B
\* A block held that is not smaller and meets the block around x contains x.
<1>3. ASSUME NEW o \in Orders, NEW t \in T, Meets(o, B(o), t) PROVE t.order < o /\ Same(o, B(o), t.addr)
  <2>1. t.addr \in Nat /\ t.order \in Orders /\ t.order \in Nat /\ o \in Nat
    BY BlockTypes, Sizes
  <2>2. ASSUME o <= t.order PROVE FALSE
    <3>1. Same(t.order, B(o), t.addr)
      BY <1>3, <2>1, <2>2 DEF Meets
    <3>2. Same(t.order, B(o), x)
      BY <1>1, <2>1, <2>2, SameHolds DEF SameFacts
    <3>3. Same(t.order, x, t.addr)
      BY <3>1, <3>2 DEF Same
    <3> QED
      BY <3>3
  <2>3. t.order < o
    BY <2>1, <2>2
  <2> QED
    BY <1>3, <2>1, <2>3 DEF Meets
<1>4. 0 \in G
  <2>1. ASSUME NEW t \in T, Meets(0, B(0), t) PROVE FALSE
    <3>1. t.order < 0 /\ t.order \in Nat
      BY <1>3, <2>1, Sizes, BlockTypes
    <3> QED
      BY <3>1
  <2> QED
    BY <2>1, Sizes DEF Apart
<1>5. G \in SUBSET (0 .. Top) /\ Top \in Nat /\ G # {}
  BY <1>4, BuddyAssumption DEF Orders, Top
<1>6. PICK g \in G : \A o \in G : o <= g
  BY <1>5, GreatestOf
<1>7. g \in Orders /\ Apart(T, g, B(g)) /\ g \in Nat
  BY Sizes
<1>8. ASSUME g # Top PROVE Held(T, g + 1, B(g))
  <2>1. g + 1 \in Orders /\ ~ (g + 1 <= g) /\ g <= g + 1
    BY <1>7, <1>8, Sizes
  <2>2. ~ Apart(T, g + 1, B(g + 1))
    BY <1>6, <2>1
  <2>3. PICK t \in T : Meets(g + 1, B(g + 1), t)
    BY <2>2 DEF Apart
  <2>4. t.order < g + 1 /\ Same(g + 1, B(g + 1), t.addr) /\ t.order \in Nat
    BY <1>3, <2>1, <2>3, BlockTypes
  <2>5. Same(g + 1, B(g + 1), x) /\ Same(g + 1, B(g), x)
    BY <1>1, <1>7, <2>1, SameHolds DEF SameFacts
  <2>6. Same(g + 1, B(g), t.addr) /\ t.order <= g + 1
    BY <1>7, <2>4, <2>5 DEF Same
  <2> QED
    BY <2>6 DEF Held
<1>9. IsFree(T, g, B(g))
  BY <1>2, <1>7, <1>8 DEF IsFree
<1> QED
  BY <1>1, <1>7, <1>9

\* EveryPageOnce: between calls every page of the range is in exactly one free
\* block or one block held, however buddy_slice and buddy_coalesce have cut and
\* merged them.
THEOREM PagesAccounted == Spec => []EveryPageOnce
<1>1. ASSUME BuddyInv, call = Idle, NEW p \in Managed
      PROVE  Cardinality({b \in FreeBlocks : p \in Pages(free_list[b[1]][b[2]], b[1])})
             + Cardinality({i \in DOMAIN live : p \in Pages(live[i].addr, live[i].order)}) = 1
  <2> DEFINE L == BlocksOf(live)
             x == p * PAGE_SIZE
             F == {b \in FreeBlocks : p \in Pages(free_list[b[1]][b[2]], b[1])}
             V == {i \in DOMAIN live : p \in Pages(live[i].addr, live[i].order)}
  <2>1. Lists(free_list, num_free, L) /\ LiveOK(live) /\ L \in SUBSET BlockRec
        /\ DOMAIN live = 1 .. Len(live) /\ \A i \in 1 .. Len(live) : live[i] \in L
    BY <1>1, Phase, BlocksOfType DEF Between, Settled
  <2>2. p \in Nat /\ x \in Nat /\ InRange(x)
    BY ManagedIn
  <2> HIDE DEF L, x
  <2>3. ASSUME NEW o \in Orders, NEW a \in Nat, At(o, a) PROVE p \in Pages(a, o) <=> Same(o, a, x)
    BY <2>2, <2>3, PagesIn DEF x
  <2>4. V = {i \in 1 .. Len(live) : Same(live[i].order, live[i].addr, x)}
    <3>1. \A i \in 1 .. Len(live) : live[i].order \in Orders /\ live[i].addr \in Nat /\ At(live[i].order, live[i].addr)
      BY <2>1 DEF LiveOK, Block
    <3> QED
      BY <2>1, <2>3, <3>1
  <2>5. \A o \in Orders : /\ DOMAIN free_list[o] = 1 .. Len(free_list[o])
                          /\ \A i \in 1 .. Len(free_list[o]) : free_list[o][i] \in Nat /\ IsFree(L, o, free_list[o][i])
    <3>1. ASSUME NEW o \in Orders
          PROVE  /\ DOMAIN free_list[o] = 1 .. Len(free_list[o])
                 /\ \A i \in 1 .. Len(free_list[o]) : free_list[o][i] \in Nat /\ free_list[o][i] \in FreeSet(L, o)
      <4>1. ListOf(free_list[o], FreeSet(L, o))
        BY <2>1, ListsAt
      <4>2. free_list[o] \in Seq(Nat)
        BY <4>1, ListLen
      <4> QED
        BY <4>1, <4>2, ListLen
    <3> QED
      BY <3>1 DEF FreeSet
  <2>6. \A b : b \in F <=> \E o \in Orders : \E i \in 1 .. Len(free_list[o]) :
                              b = <<o, i>> /\ Same(o, free_list[o][i], x)
    <3>1. \A b : b \in FreeBlocks <=> \E o \in Orders : \E i \in 1 .. Len(free_list[o]) : b = <<o, i>>
      <4>1. \A b : b \in FreeBlocks <=> \E o \in Orders : b \in {o} \X DOMAIN free_list[o]
        BY DEF FreeBlocks
      <4> QED
        BY <2>5, <4>1
    <3>2. ASSUME NEW o \in Orders, NEW i \in 1 .. Len(free_list[o])
          PROVE  p \in Pages(free_list[o][i], o) <=> Same(o, free_list[o][i], x)
      <4>1. free_list[o][i] \in Nat /\ At(o, free_list[o][i])
        BY <2>5, IsFreeType
      <4> QED
        BY <2>3, <4>1
    <3>3. ASSUME NEW o \in Orders, NEW i \in 1 .. Len(free_list[o])
          PROVE  <<o, i>> \in F <=> Same(o, free_list[o][i], x)
      <4>1. <<o, i>> \in FreeBlocks /\ <<o, i>>[1] = o /\ <<o, i>>[2] = i
        BY <3>1
      <4> QED
        BY <3>2, <4>1
    <3> QED
      BY <3>1, <3>3
  <2> HIDE DEF F, V
  <2>7. ASSUME NEW o \in Orders, NEW i \in 1 .. Len(free_list[o]), Same(o, free_list[o][i], x), NEW t \in L
        PROVE  ~ Same(t.order, t.addr, x)
    <3>1. PICK a \in Nat : a = free_list[o][i] /\ IsFree(L, o, a) /\ Same(o, a, x)
      BY <2>5, <2>7
    <3>2. t.addr \in Nat /\ t.order \in Orders /\ t.order \in Nat /\ o \in Nat
      BY <2>1, BlockTypes, Sizes
    <3>3. SUFFICES ASSUME Same(t.order, t.addr, x) PROVE Meets(o, a, t)
      BY <3>1 DEF IsFree, Apart
    <3>4. CASE t.order <= o
      <4>1. Same(o, t.addr, x)
        BY <2>2, <3>2, <3>3, <3>4, SameHolds DEF SameFacts
      <4> QED
        BY <3>1, <3>4, <4>1 DEF Meets, Same
    <3>5. CASE ~ (t.order <= o)
      <4>1. Same(t.order, a, x)
        BY <2>2, <3>1, <3>2, <3>5, SameHolds DEF SameFacts
      <4> QED
        BY <3>3, <3>5, <4>1 DEF Meets, Same
    <3> QED
      BY <3>4, <3>5
  <2>8. CASE \E k \in 1 .. Len(live) : Same(live[k].order, live[k].addr, x)
    <3>1. PICK k \in 1 .. Len(live) : Same(live[k].order, live[k].addr, x)
      BY <2>8
    <3>2. F = {}
      BY <2>1, <2>6, <2>7, <3>1
    <3>3. ASSUME NEW i \in 1 .. Len(live), Same(live[i].order, live[i].addr, x) PROVE i = k
      <4>1. PICK o \in Orders, q \in Orders, a \in Nat, b \in Nat :
               o = live[i].order /\ q = live[k].order /\ a = live[i].addr /\ b = live[k].addr
        BY <2>1, BlockTypes
      <4>2. o \in Nat /\ q \in Nat /\ Same(o, a, x) /\ Same(q, b, x)
        BY <3>1, <3>3, <4>1, Sizes
      <4>3. Meets(o, a, live[k])
        <5>1. CASE q <= o
          <6>1. Same(o, b, x)
            BY <2>2, <4>2, <5>1, SameHolds DEF SameFacts
          <6> QED
            BY <4>1, <4>2, <5>1, <6>1 DEF Meets, Same
        <5>2. CASE ~ (q <= o)
          <6>1. Same(q, a, x)
            BY <2>2, <4>2, <5>2, SameHolds DEF SameFacts
          <6> QED
            BY <4>1, <4>2, <5>2, <6>1 DEF Meets, Same
        <5> QED
          BY <5>1, <5>2
      <4> QED
        BY <2>1, <4>1, <4>3 DEF LiveOK
    <3>4. V = {k}
      BY <2>4, <3>1, <3>3
    <3>5. Cardinality(F) = 0 /\ Cardinality(V) = 1
      BY <3>2, <3>4, FS_EmptySet, FS_Singleton
    <3> QED
      BY <3>5 DEF F, V
  <2>9. CASE \A k \in 1 .. Len(live) : ~ Same(live[k].order, live[k].addr, x)
    <3>1. V = {}
      BY <2>4, <2>9
    <3>2. \A t \in L : ~ Same(t.order, x, t.addr)
      BY <2>9 DEF L, BlocksOf, Same
    <3>3. PICK o \in Orders, a \in Nat : IsFree(L, o, a) /\ Same(o, a, x)
      BY <2>1, <2>2, <3>2, FreeAround
    <3>4. PICK k \in 1 .. Len(free_list[o]) : free_list[o][k] = a
      <4>1. a \in FreeSet(L, o) /\ ListOf(free_list[o], FreeSet(L, o))
        BY <2>1, <3>3, ListsAt DEF FreeSet
      <4> QED
        BY <4>1 DEF ListOf
    <3>5. ASSUME NEW q \in Orders, NEW j \in 1 .. Len(free_list[q]), Same(q, free_list[q][j], x)
          PROVE  q = o /\ j = k
      <4>1. PICK c \in Nat : c = free_list[q][j] /\ IsFree(L, q, c) /\ Same(q, c, x)
        BY <2>5, <3>5
      <4>2. o \in Nat /\ q \in Nat
        BY Sizes
      <4>3. q = o /\ c = a
        <5>1. CASE o <= q
          <6>1. Same(q, a, x)
            BY <2>2, <3>3, <4>2, <5>1, SameHolds DEF SameFacts
          <6>2. Same(q, a, c)
            BY <4>1, <6>1 DEF Same
          <6> QED
            BY <2>1, <3>3, <4>1, <5>1, <6>2, FreeApart
        <5>2. CASE q <= o
          <6>1. Same(o, c, x)
            BY <2>2, <4>1, <4>2, <5>2, SameHolds DEF SameFacts
          <6>2. Same(o, c, a)
            BY <3>3, <6>1 DEF Same
          <6> QED
            BY <2>1, <3>3, <4>1, <5>2, <6>2, FreeApart
        <5> QED
          BY <4>2, <5>1, <5>2
      <4>4. ListOf(free_list[o], FreeSet(L, o))
        BY <2>1, ListsAt
      <4> QED
        BY <3>4, <4>1, <4>3, <4>4 DEF ListOf
    <3>6. F = {<<o, k>>}
      BY <2>6, <3>3, <3>4, <3>5
    <3>7. Cardinality(F) = 1 /\ Cardinality(V) = 0
      BY <3>1, <3>6, FS_EmptySet, FS_Singleton
    <3> QED
      BY <3>7 DEF F, V
  <2> QED
    BY <2>8, <2>9
<1>2. BuddyInv => EveryPageOnce
  BY <1>1 DEF EveryPageOnce
<1> QED
  BY <1>2, BuddyInvariance, PTL

=============================================================================
