-------------------------------- MODULE Heap --------------------------------
(***************************************************************************)
(* The kernel heap of mem/allocator.c: headers in the memory they manage,  *)
(* linked to their neighbours (next, prev) and through next_hole, which    *)
(* kmalloc_align follows from the first header to the first hole that      *)
(* fits.  Headers of blocks in use stay on the next_hole chain.            *)
(*                                                                         *)
(* Addresses and sizes count 16 bytes (HEAP_ALIGN), so that a header is    *)
(* 2 long.  mem holds the headers, also of blocks that were merged away,   *)
(* until their place is handed to a caller, who may write anything there.  *)
(* One step of a walk is one iteration of the loop.                        *)
(***************************************************************************)
EXTENDS Integers, Sequences, FiniteSets, SequencesExt

CONSTANTS
    heap_base,          \* address of the first header
    map_limit,          \* end of the heap at the start
    MAP_CRITICAL_DIST,  \* distance to the end at which the heap grows
    Growth,             \* PT_SIZE * PAGE_SIZE, what one page table maps
    PAGE_SIZE,
    Sizes,              \* bound: sizes asked for
    MaxLive             \* bound: blocks in use at once

NULL == 0
Hdr == 2

ASSUME HeapAssumption ==
    /\ heap_base \in Nat \ {0} /\ map_limit \in Nat /\ heap_base < map_limit
    /\ Sizes \subseteq Nat \ {0}
    \* No request comes near the distance at which the heap grows, and growing
    \* restores that distance.
    /\ \A s \in Sizes : s + 2 * PAGE_SIZE + 3 * Hdr <= MAP_CRITICAL_DIST
    /\ MAP_CRITICAL_DIST <= Growth

VARIABLES
    mem,        \* [address -> header]
    heap_end,
    live,       \* blocks in use that callers may free, the latest last
    tables,     \* page tables the heap asked for itself, never freed
    call,       \* the call in progress
    spoiled     \* ghost: a step was taken that leaves the headers wrong

vars == <<mem, heap_end, live, tables, call, spoiled>>

Idle == [op |-> "idle"]

align_up(n, a) == IF n % a = 0 THEN n ELSE n - (n % a) + a

\* heap_init
Init ==
    /\ mem = [a \in {heap_base} |->
                [magic |-> TRUE, next |-> NULL, prev |-> NULL, next_hole |-> NULL,
                 size |-> map_limit - heap_base, hole |-> TRUE]]
    /\ heap_end = map_limit
    /\ live = <<>> /\ tables = {} /\ spoiled = FALSE
    /\ call = Idle

----------------------------------------------------------------------------
\* do_alloc

\* get_data_base, aligned.
\* Faulty variant: the header is taken to be shorter than it is.
data_base_Short(h, align) == align_up(h + Hdr - 1, align)

data_base(h, align) == align_up(h + Hdr, align)

\* The test of kmalloc_align.
Fits(h, size, align) ==
    mem[h].hole /\ mem[h].size >= size + (data_base(h, align) - h)

\* A header is cut off the rest of the hole when the hole is the last block or
\* large enough.
Splits(m, h, size) == m[h].next = NULL \/ m[h].size >= size + 3 * Hdr

\* The first header's next_hole is set before the new header copies the
\* next_hole of the old one, which may be the same header.
Split(m, h, size, db) ==
    LET nb    == db + size
        first == m[heap_base].next_hole
        m1    == IF first \in {NULL, h} THEN [m EXCEPT ![heap_base].next_hole = nb] ELSE m
        new   == [magic |-> TRUE, next |-> m1[h].next, prev |-> h,
                  next_hole |-> m1[h].next_hole,
                  size |-> heap_end - db - size, hole |-> TRUE]
    IN  [[a \in DOMAIN m1 \cup {nb} |-> IF a = nb THEN new ELSE m1[a]]
            EXCEPT ![h].next_hole = nb, ![h].next = nb]

\* The headers left once a caller may write to [db, db + size).
Overwritten(m, db, size) ==
    [a \in {b \in DOMAIN m : b + Hdr <= db \/ b >= db + size} |-> m[a]]

\* Faulty variant: the block stays marked as a hole.
do_alloc_StaysHole(h, size, db) ==
    LET m1 == IF Splits(mem, h, size) THEN Split(mem, h, size, db) ELSE mem
    IN  [m1 EXCEPT ![h].size = size + Hdr]

do_alloc(h, size, db) ==
    LET m1 == IF Splits(mem, h, size) THEN Split(mem, h, size, db) ELSE mem
    IN  [m1 EXCEPT ![h].hole = FALSE, ![h].size = size + Hdr]

----------------------------------------------------------------------------
\* kmalloc_align

\* kmalloc of one of the Sizes.
kmalloc(siz) ==
    /\ call = Idle
    /\ Len(live) < MaxLive
    /\ call' = [op |-> "walk", size |-> siz, align |-> 1, at |-> heap_base]
    /\ UNCHANGED <<mem, heap_end, live, tables, spoiled>>

WalkNext ==
    /\ call.op = "walk"
    /\ ~ Fits(call.at, call.size, call.align)
    /\ call' = [call EXCEPT !.at = mem[call.at].next_hole]
    /\ UNCHANGED <<mem, heap_end, live, tables, spoiled>>

\* A split gives the new header all of the heap up to its end, also when the
\* hole was not the last block: it then reaches over the blocks that follow.  A
\* freed block that expand_heap enlarged is such a hole: its size counts the new
\* part of the heap, and the new header is written where the page table's is.
SplitsInside(h, size) == mem[h].next # NULL /\ Splits(mem, h, size)

\* The header found.  Near the end of the heap expand_heap moves the end, adds
\* to the size of the block just allocated and maps the new part, for which
\* alloc_pt asks the heap for a page table.
Running_out(m, h) == m[h].next > heap_end - MAP_CRITICAL_DIST

Found ==
    LET h  == call.at
        db == data_base(h, call.align)
        m1 == do_alloc(h, call.size, db)
    IN
    /\ call.op = "walk"
    /\ Fits(h, call.size, call.align)
    /\ IF call.align = 1
       THEN live' = Append(live, [data |-> db, size |-> call.size]) /\ UNCHANGED tables
       ELSE tables' = tables \cup {db} /\ UNCHANGED live
    /\ IF Running_out(m1, h)
       THEN /\ heap_end' = heap_end + Growth
            /\ mem' = Overwritten([m1 EXCEPT ![h].size = @ + Growth], db, call.size)
            /\ call' = [op |-> "walk", size |-> PAGE_SIZE, align |-> PAGE_SIZE, at |-> heap_base]
       ELSE /\ mem' = Overwritten(m1, db, call.size)
            /\ call' = Idle
            /\ UNCHANGED heap_end
    /\ spoiled' = (spoiled \/ SplitsInside(h, call.size))

----------------------------------------------------------------------------
\* kfree

\* The neighbours that are holes are merged with the header.
\* Faulty variant: the next block is merged whether it is a hole or not.
MergeNext_Always(m, h) ==
    LET n == m[h].next IN
    IF n = NULL THEN m
    ELSE [m EXCEPT ![h].size = @ + m[n].size, ![h].next_hole = m[n].next_hole,
                   ![h].next = m[n].next,
                   ![n].magic = FALSE, ![n].prev = IF m[n].next # NULL THEN h ELSE @]

MergeNext(m, h) ==
    LET n == m[h].next IN
    IF n = NULL \/ ~ m[n].hole THEN m
    ELSE [m EXCEPT ![h].size = @ + m[n].size, ![h].next_hole = m[n].next_hole,
                   ![h].next = m[n].next,
                   ![n].magic = FALSE, ![n].prev = IF m[n].next # NULL THEN h ELSE @]

MergePrev(m, h) ==
    LET p == m[h].prev
        n == m[h].next
    IN
    IF p = NULL \/ ~ m[p].hole THEN m
    ELSE LET m1 == [m EXCEPT ![p].next = n, ![p].size = @ + m[h].size,
                             ![p].next_hole = m[h].next_hole, ![h].magic = FALSE]
         IN  IF n = NULL THEN m1 ELSE [m1 EXCEPT ![n].prev = p]

Merge(m, h) == MergePrev(MergeNext(m, h), h)

\* The header is linked after prev_hole.
Link(prev_hole, h) ==
    Merge([mem EXCEPT ![h].next_hole = mem[prev_hole].next_hole, ![prev_hole].next_hole = h], h)

\* Merging with the next hole sets prev in that hole and not in the block after
\* it, which keeps its link to the hole, unless the previous one is merged too.
LeavesStalePrev(h) ==
    LET n == mem[h].next
        p == mem[h].prev
    IN
    /\ n # NULL /\ mem[n].hole /\ mem[n].next # NULL
    /\ p = NULL \/ ~ mem[p].hole

\* A header still on the chain from its last time as a hole is linked after the
\* one that leads to it: it leads to itself, unless the next hole is merged.
LinksToItself(m, h) == m[h].next_hole = h

\* A header without the magic number is left alone.
Accepts(h) == h \in DOMAIN mem /\ mem[h].magic

\* A block that lies before every hole is linked at once, for another the
\* search for the hole before it begins.
kfree(i) ==
    LET h == live[i].data - Hdr
        m == [mem EXCEPT ![h].hole = TRUE]
    IN
    /\ call = Idle
    /\ live' = RemoveAt(live, i)
    /\ spoiled' = (spoiled \/ (Accepts(h) /\ LeavesStalePrev(h)))
    /\ IF ~ Accepts(h) THEN UNCHANGED <<mem, call>>
       ELSE IF m[heap_base].next_hole > h
       THEN /\ mem' = Merge([m EXCEPT ![h].next_hole = m[heap_base].next_hole,
                                      ![heap_base].next_hole = h], h)
            /\ UNCHANGED call
       ELSE /\ mem' = m
            /\ call' = [op |-> "seek", at |-> heap_base, header |-> h]
    /\ UNCHANGED <<heap_end, tables>>

\* Faulty variant: the search passes over the block itself.
SeekNext_PastBlock ==
    /\ call.op = "seek"
    /\ mem[call.at].next_hole > call.header
    /\ call' = [call EXCEPT !.at = mem[call.at].next_hole]
    /\ UNCHANGED <<mem, heap_end, live, tables, spoiled>>

SeekNext ==
    /\ call.op = "seek"
    /\ mem[call.at].next_hole < call.header
    /\ call' = [call EXCEPT !.at = mem[call.at].next_hole]
    /\ UNCHANGED <<mem, heap_end, live, tables, spoiled>>

SeekEnds ==
    /\ call.op = "seek"
    /\ mem[call.at].next_hole >= call.header
    /\ mem' = Link(call.at, call.header)
    /\ call' = Idle
    /\ spoiled' = (spoiled \/ LinksToItself(mem', call.header))
    /\ UNCHANGED <<heap_end, live, tables>>

----------------------------------------------------------------------------
\* The callers (initrd_closedir, free_pd, the destructors of the slab and buddy
\* allocators) free any block in any order, never the very first one.
Free == \E i \in 2 .. Len(live) : kfree(i)

Step == WalkNext \/ Found \/ SeekNext \/ SeekEnds

\* spoiled stays TRUE and the properties speak of heaps that are not spoiled, so
\* no call is followed that begins after that.
Next ==
    \/ ~ spoiled /\ ((\E s \in Sizes : kmalloc(s)) \/ Free)
    \/ Step

\* A call runs to its end: nothing else allocates meanwhile.
Spec == Init /\ [][Next]_vars /\ WF_vars(Step)

----------------------------------------------------------------------------
\* Type correctness of the headers, the blocks in use and the call.
TypeOK ==
    /\ \A a \in DOMAIN mem :
        mem[a] \in [magic : BOOLEAN, next : Nat, prev : Nat, next_hole : Nat,
                    size : Nat, hole : BOOLEAN]
    /\ heap_end \in Nat
    /\ live \in Seq([data : Nat, size : Sizes])
    /\ tables \subseteq Nat
    /\ call.op \in {"idle", "walk", "seek"}

Spans == {<<live[i].data - Hdr, live[i].data + live[i].size>> : i \in DOMAIN live}
         \cup {<<t, t + PAGE_SIZE>> : t \in tables}

\* The properties hold until one of three things happens, each in one step of
\* the code: SplitsInside, LeavesStalePrev or LinksToItself.

\* No two blocks in use overlap, headers included, and none lies beyond the end
\* of the heap, with every order of kmalloc and kfree, before and after the heap
\* has grown.
BlocksDisjoint ==
    ~ spoiled =>
        /\ Cardinality(Spans) = Len(live) + Cardinality(tables)
        /\ \A s, t \in Spans : s # t => s[2] <= t[1] \/ t[2] <= s[1]
        /\ \A s \in Spans : heap_base <= s[1] /\ s[2] <= heap_end

\* The walks of kmalloc_align and kfree only ever read headers: the chain leads
\* through no place a caller may have written to, and does not end before a
\* hole is found (kmalloc_align would then compute an address from NULL).
WalksHeaders ==
    ~ spoiled /\ call.op \in {"walk", "seek"} => call.at \in DOMAIN mem

\* The header of a block in use is one kfree accepts, and its neighbours know
\* it: the next header leads back to it, the previous one on to it.
HeadersIntact ==
    ~ spoiled =>
        \A i \in DOMAIN live :
            LET h == live[i].data - Hdr
                n == mem[h].next
                p == mem[h].prev
            IN
            /\ h \in DOMAIN mem /\ mem[h].magic /\ (call.op # "seek" => ~ mem[h].hole)
            /\ n # NULL => n \in DOMAIN mem /\ mem[n].prev = h
            /\ p # NULL => p \in DOMAIN mem /\ mem[p].next = h

\* Every kmalloc and every kfree returns, although the chain of holes has cycles
\* and kmalloc enters itself for a page table, on heaps that are not spoiled.
CallsReturn == (call # Idle) ~> (call = Idle \/ spoiled)
=============================================================================
