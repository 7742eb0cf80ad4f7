----------------------------- MODULE BuddyAlloc -----------------------------
(***************************************************************************)
(* The buddy allocator of mem/buddy_frame_alloc.c, which hands out ranges  *)
(* of virtual addresses.  Free blocks are kept in one list per order; one  *)
(* bit per block and order says that the block is split or allocated.      *)
(*                                                                         *)
(* The recursion of buddy_slice, buddy_free_frames_rec and buddy_coalesce  *)
(* is a sequence of steps: call is the frame on top of the stack, and one  *)
(* step is one activation.  The list nodes come from a slab cache (module  *)
(* SlabCache) and are left out.  Callers free in the reverse of the order  *)
(* in which they allocated, as copy_page of mem/paging.c does, the only    *)
(* caller that frees; a caller may name fewer pages than it asked for.     *)
(***************************************************************************)
EXTENDS Integers, Sequences, FiniteSets, SequencesExt

CONSTANTS
    PAGE_SIZE,
    MAP_SIZE,       \* bits in a word of a map
    MAX_ORDER,      \* the orders are 0 .. MAX_ORDER - 1
    mem_start,
    mem_limit,
    Requests        \* bound: the numbers of pages asked for

ASSUME BuddyAssumption ==
    /\ {PAGE_SIZE, MAP_SIZE, MAX_ORDER} \subseteq Nat \ {0}
    /\ mem_start \in Nat /\ mem_limit \in Nat /\ mem_start < mem_limit
    /\ Requests \subseteq Nat \ {0}

Orders == 0 .. MAX_ORDER - 1
Top == MAX_ORDER - 1
MAX_BUDDY_NFRAMES == 2 ^ Top
mem_size == mem_limit - mem_start
BlockSize(order) == PAGE_SIZE * 2 ^ order
max_map_size == mem_size \div BlockSize(Top)

\* kern_buddy's range starts at 0xD0000000, a multiple of the largest block, and
\* the two halves of a block have their bits in one word.
ASSUME AlignedAssumption == mem_start % BlockSize(Top) = 0 /\ MAP_SIZE % 2 = 0

\* What the proofs need to know of powers of two.
ASSUME PowersAssumption ==
    /\ 2 ^ 0 = 1
    /\ \A o \in 0 .. Top : 2 ^ o \in Nat \ {0} /\ (o < Top => 2 ^ (o + 1) = 2 * 2 ^ o)

VARIABLES
    free_list,  \* [Orders -> addresses of the blocks, head first]
    num_free,   \* [Orders -> Nat]
    used,       \* the bits that are set, as <<word, bit>>
    live,       \* blocks held by callers, the latest last
    call        \* the operation in progress

vars == <<free_list, num_free, used, live, call>>

Idle == [op |-> "idle"]

----------------------------------------------------------------------------
\* Addresses, orders and bits.

\* get_buddy_order
get_buddy_order(nframes) ==
    IF nframes > MAX_BUDDY_NFRAMES THEN Top
    ELSE CHOOSE o \in Orders : nframes <= 2 ^ o /\ \A p \in 0 .. o - 1 : nframes > 2 ^ p

\* addr_to_map_id and map_to_addr: a block's word within the map of its order
\* and its bit within the word.  The word counts from address 0.
addr_to_map_id(order, addr) ==
    LET word == BlockSize(order) * MAP_SIZE
    IN  [frame_map |-> addr \div word, frame |-> (addr % word) \div BlockSize(order)]

map_to_addr(order, map) ==
    (map.frame_map * MAP_SIZE + map.frame) * BlockSize(order)

\* alloc_buddy_maps: where the map of an order starts in map_data, an array of
\* words; the code divides by the size of a pointer, 4, as well.
map_offset[order \in Nat] ==
    IF order = 0 THEN 0
    ELSE map_offset[order - 1] + mem_size \div (BlockSize(order - 1) * MAP_SIZE * 4)

Bit(order, map) == <<map_offset[order] + map.frame_map, map.frame>>
BitOf(order, addr) == Bit(order, addr_to_map_id(order, addr))

\* The maps of the orders overlap in map_data, but no two blocks of the range
\* share a bit.  This holds for kern_buddy, whose words run from 0x6800 for
\* order 0 down to 0xC0D for order 10; it does not for the buddy allocators of
\* the users, from 0x100000 to 0x40000000, which free nothing and read no bit.
ASSUME BitsAssumption ==
    LET range == mem_start .. mem_start + max_map_size * BlockSize(Top) - 1 IN
    \A o, p \in Orders : \A a, b \in range :
        BitOf(o, a) = BitOf(p, b) => o = p /\ a \div BlockSize(o) = b \div BlockSize(o)

\* The other half of the block one order up, by its place in the word.
\* Faulty variant: always the next block.
buddy_map_Next(map) == [map EXCEPT !.frame = map.frame + 1]

buddy_map(map) ==
    [map EXCEPT !.frame = IF map.frame % 2 = 1 THEN map.frame - 1 ELSE map.frame + 1]

\* insert_buddy, at the head of the list.
\* Faulty variant: the block is not counted.
Insert_Uncounted(order, addr) ==
    /\ free_list' = [free_list EXCEPT ![order] = <<addr>> \o @]
    /\ UNCHANGED num_free

Insert(order, addr) ==
    /\ free_list' = [free_list EXCEPT ![order] = <<addr>> \o @]
    /\ num_free' = [num_free EXCEPT ![order] = @ + 1]

\* The lists after buddy_alloc_create.
Fresh == [o \in Orders |-> IF o = Top
                           THEN [i \in 1 .. max_map_size |-> mem_start + (i - 1) * BlockSize(Top)]
                           ELSE <<>>]

\* buddy_alloc_create
Init ==
    /\ free_list = Fresh
    /\ num_free = [o \in Orders |-> IF o = Top THEN max_map_size ELSE 0]
    /\ used = {}
    /\ live = <<>>
    /\ call = Idle

----------------------------------------------------------------------------
\* buddy_alloc_frames: one block for every MAX_BUDDY_NFRAMES pages.

Alloc(nframes) ==
    /\ call = Idle
    /\ call' = [op |-> "alloc", left |-> nframes]
    /\ UNCHANGED <<free_list, num_free, used, live>>

cur_nframes == IF call.left > MAX_BUDDY_NFRAMES THEN MAX_BUDDY_NFRAMES ELSE call.left

\* A block is handed out: the next one is sought, or the call returns.
HandOut(addr, nframes, left) ==
    /\ live' = Append(live, [addr |-> addr, order |-> get_buddy_order(nframes)])
    /\ call' = IF left > nframes THEN [op |-> "alloc", left |-> left - nframes] ELSE Idle

\* buddy_alloc_frames_max_order with a block of the right order.
AllocHead ==
    LET order == get_buddy_order(cur_nframes)
        addr  == Head(free_list[order])
    IN
    /\ call.op = "alloc"
    /\ num_free[order] > 0
    /\ free_list' = [free_list EXCEPT ![order] = Tail(@)]
    /\ num_free' = [num_free EXCEPT ![order] = @ - 1]
    /\ used' = used \cup {BitOf(order, addr)}
    /\ HandOut(addr, cur_nframes, call.left)

\* The orders above that have a block to split.
\* Faulty variant: the largest order is left out.
Splittable_MissesTop(order) ==
    {i \in order + 1 .. Top - 1 : num_free[i] > 0 /\ free_list[i] # <<>>}

Splittable(order) == {i \in order + 1 .. Top : num_free[i] > 0 /\ free_list[i] # <<>>}

\* With a larger block: the smallest is taken off its list and sliced.

AllocSlice ==
    LET order == get_buddy_order(cur_nframes) IN
    /\ call.op = "alloc"
    /\ num_free[order] = 0
    /\ \E i \in Splittable(order) :
        /\ \A j \in Splittable(order) : i <= j
        /\ free_list' = [free_list EXCEPT ![i] = Tail(@)]
        /\ num_free' = [num_free EXCEPT ![i] = @ - 1]
        /\ call' = [op |-> "slice", addr |-> Head(free_list[i]), start |-> i,
                    target |-> order, nframes |-> cur_nframes, left |-> call.left]
    /\ UNCHANGED <<used, live>>

\* With none: ENOMEM.  Blocks found before stay with the caller.
AllocFails ==
    LET order == get_buddy_order(cur_nframes) IN
    /\ call.op = "alloc"
    /\ num_free[order] = 0
    /\ Splittable(order) = {}
    /\ call' = Idle
    /\ UNCHANGED <<free_list, num_free, used, live>>

\* buddy_slice: the upper half goes to the list one order down, the lower half
\* is sliced on or handed out.
\* Faulty variant: the upper half's address is off by a whole block.
buddy_slice_FullStep ==
    LET start == call.start
        lower == start - 1
        done  == lower <= call.target
    IN
    /\ call.op = "slice"
    /\ Insert(lower, call.addr + BlockSize(start))
    /\ used' = used \cup {BitOf(start, call.addr)}
                    \cup (IF done THEN {BitOf(call.target, call.addr)} ELSE {})
    /\ IF done THEN HandOut(call.addr, call.nframes, call.left)
       ELSE call' = [call EXCEPT !.start = lower] /\ UNCHANGED live

buddy_slice ==
    LET start == call.start
        lower == start - 1
        done  == lower <= call.target
    IN
    /\ call.op = "slice"
    /\ Insert(lower, call.addr + BlockSize(start) \div 2)
    /\ used' = used \cup {BitOf(start, call.addr)}
                    \cup (IF done THEN {BitOf(call.target, call.addr)} ELSE {})
    /\ IF done THEN HandOut(call.addr, call.nframes, call.left)
       ELSE call' = [call EXCEPT !.start = lower] /\ UNCHANGED live

----------------------------------------------------------------------------
\* buddy_free_frames: the caller gives back its latest block, and may count
\* fewer pages than the block has.

Free(nframes) ==
    /\ call = Idle
    /\ live # <<>>
    /\ nframes <= 2 ^ Last(live).order
    /\ call' = [op |-> "free", addr |-> Last(live).addr, order |-> get_buddy_order(nframes)]
    /\ live' = Front(live)
    /\ UNCHANGED <<free_list, num_free, used>>

\* buddy_free_frames_rec: up to the first order whose bit is set.
\* Past the last order the code reads a map that does not exist.
\* Faulty variant: the order is passed on unchanged.
FreeClimb_SameOrder ==
    /\ call.op = "free"
    /\ BitOf(call.order, call.addr) \notin used
    /\ UNCHANGED vars

FreeClimb ==
    /\ call.op = "free"
    /\ BitOf(call.order, call.addr) \notin used
    /\ call' = IF call.order = Top THEN [op |-> "fault"] ELSE [call EXCEPT !.order = @ + 1]
    /\ UNCHANGED <<free_list, num_free, used, live>>

FreeFound ==
    /\ call.op = "free"
    /\ BitOf(call.order, call.addr) \in used
    /\ call' = [call EXCEPT !.op = "coalesce"]
    /\ UNCHANGED <<free_list, num_free, used, live>>

\* remove_free_frame: the places in a list of blocks that contain addr.
Containing(order, addr) ==
    {i \in 1 .. Len(free_list[order]) :
        /\ free_list[order][i] + BlockSize(order) > addr
        /\ free_list[order][i] <= addr}

\* buddy_coalesce goes on when the other half's bit is clear.
\* Faulty variant: it stops one order short of the largest.
MergesWithBuddy_Early(order, addr) ==
    order < Top - 1 /\ Bit(order, buddy_map(addr_to_map_id(order, addr))) \notin used

MergesWithBuddy(order, addr) ==
    order < Top /\ Bit(order, buddy_map(addr_to_map_id(order, addr))) \notin used

set_frame_unused(order, addr) == used \ {BitOf(order, addr)}

CoalesceUp ==
    LET order == call.order
        other == map_to_addr(order, buddy_map(addr_to_map_id(order, call.addr)))
        hits  == Containing(order, other)
    IN
    /\ call.op = "coalesce"
    /\ MergesWithBuddy(order, call.addr)
    /\ used' = set_frame_unused(order, call.addr)
    /\ IF num_free[order] > 0 /\ hits = {}
       THEN /\ call' = [op |-> "fault"]     \* the walk ends at a null node
            /\ UNCHANGED <<free_list, num_free>>
       ELSE /\ call' = [call EXCEPT !.order = @ + 1]
            /\ IF num_free[order] = 0 THEN UNCHANGED <<free_list, num_free>>
               ELSE LET i == CHOOSE i \in hits : \A j \in hits : i <= j IN
                    /\ free_list' = [free_list EXCEPT ![order] = RemoveAt(@, i)]
                    /\ num_free' = [num_free EXCEPT ![order] = @ - 1]
    /\ UNCHANGED live

CoalesceEnds ==
    /\ call.op = "coalesce"
    /\ ~ MergesWithBuddy(call.order, call.addr)
    /\ used' = set_frame_unused(call.order, call.addr)
    /\ Insert(call.order, call.addr)
    /\ call' = Idle
    /\ UNCHANGED live

----------------------------------------------------------------------------
Step == AllocHead \/ AllocSlice \/ AllocFails \/ buddy_slice
        \/ FreeClimb \/ FreeFound \/ CoalesceUp \/ CoalesceEnds

Next == (\E n \in Requests : Alloc(n) \/ Free(n)) \/ Step

\* A call runs to its end: nothing else runs in the kernel meanwhile.
Spec == Init /\ [][Next]_vars /\ WF_vars(Step)

----------------------------------------------------------------------------
\* Type correctness of the lists, the counters, the bits and the call.
TypeOK ==
    /\ free_list \in [Orders -> Seq(Nat)]
    /\ num_free \in [Orders -> Nat]
    /\ used \subseteq Nat \X (0 .. MAP_SIZE - 1)
    /\ live \in Seq([addr : Nat, order : Orders])
    /\ call.op \in {"idle", "alloc", "slice", "free", "coalesce", "fault"}

Pages(addr, order) == {addr \div PAGE_SIZE + i : i \in 0 .. 2 ^ order - 1}
Managed == {mem_start \div PAGE_SIZE + i : i \in 0 .. max_map_size * 2 ^ Top - 1}

FreeBlocks == UNION {{o} \X DOMAIN free_list[o] : o \in Orders}

\* Between calls every page of the range belongs to exactly one free block or
\* one block a caller holds: buddy_slice and buddy_coalesce neither lose a
\* page nor hand one out twice.
EveryPageOnce ==
    call = Idle =>
        \A p \in Managed :
            Cardinality({b \in FreeBlocks : p \in Pages(free_list[b[1]][b[2]], b[1])})
            + Cardinality({i \in DOMAIN live : p \in Pages(live[i].addr, live[i].order)}) = 1

\* buddy_coalesce leaves no two halves of a block free and unmerged.
BuddiesMerged ==
    call = Idle =>
        \A o \in 0 .. Top - 1 : \A i, j \in DOMAIN free_list[o] :
            free_list[o][i] + BlockSize(o) = free_list[o][j]
                => (free_list[o][i] - mem_start) % BlockSize(o + 1) # 0

\* remove_free_frame finds the buddy it looks for and buddy_free_frames_rec a
\* bit that is set: no call reads through a null node or past the last map.
NoFault == call.op # "fault"

\* The counter that decides whether a list is read is the list's length, so
\* no head is taken from an empty list.
NumFreeExact == \A o \in Orders : num_free[o] = Len(free_list[o])

\* ENOMEM is returned only when no free block is large enough.
FailsOnlyWhenFull ==
    [][AllocFails =>
        \A o \in get_buddy_order(cur_nframes) .. Top : free_list[o] = <<>>]_vars

\* Every call of buddy_alloc_frames and buddy_free_frames returns.
CallsReturn == (call # Idle) ~> (call = Idle)
=============================================================================
