----------------------------- MODULE SlabCache -----------------------------
(***************************************************************************)
(* One object cache of the slab allocator, mem/slav_allocator.c, at the    *)
(* level of its pointers.                                                  *)
(*                                                                         *)
(* A cache (struct slab_cache) holds three doubly linked lists of slabs,   *)
(* each with a dummy head inside the cache: free, partial and full.  A     *)
(* slab holds Cap chunks.  Its free chunks form a singly linked chain,     *)
(* next_free, kept in address order, that starts in base_chunk.  The chain *)
(* ends in a header that lies behind the last chunk: room is reserved for  *)
(* it, nothing is stored in it and it must never be handed out.            *)
(*                                                                         *)
(* Nothing in the kernel calls the slab allocator from an interrupt, so    *)
(* slab_alloc_from_cache is one step.  The loops of slab_free and of       *)
(* slab_cache_destroy are taken one iteration at a time, because whether   *)
(* they stop is a question about the pointers.                             *)
(*                                                                         *)
(* prev_free is written by the code and never read, so it is left out.     *)
(***************************************************************************)
EXTENDS Integers, FiniteSets

CONSTANTS
    Cap,        \* SLAB_CAPACITY
    MaxSlabs,   \* bound: slabs the heap can supply
    Aligned     \* TRUE for a cache made with a non-zero alignment

ASSUME CapAssumption == Cap \in Nat /\ Cap >= 2
ASSUME MaxSlabsAssumption == MaxSlabs \in Nat \ {0}
ASSUME AlignedAssumption == Aligned \in BOOLEAN

----------------------------------------------------------------------------
\* Pointers to slabs.  Slabs are numbered in the order kmalloc returns them.

NULL        == 0
FreeHead    == -1       \* &cache->slabs_free
PartialHead == -2       \* &cache->slabs_partial
FullHead    == -3       \* &cache->slabs_full
Heads       == {FreeHead, PartialHead, FullHead}
Slabs       == 1 .. MaxSlabs
Nodes       == Heads \cup Slabs

\* Pointers to chunks of one slab, in address order.  No next_free ever holds
\* the address of base_chunk, so 0 also stands for the null pointer there.
Base     == 0
Sentinel == Cap + 1
Chunks   == 1 .. Cap

VARIABLES
    links,      \* next and prev of the slabs and of the three list heads
    numFree,    \* num_free of each slab
    nextFree,   \* next_free of each chunk of each slab, and of base_chunk
    nslabs,     \* slabs allocated so far
    pc,         \* where slab_free or slab_cache_destroy has got to
    obj,        \* the object slab_free was called with: <<slab, chunk>>
    cur,        \* the loop variable of the loop at pc
    list,       \* the list head whose list the loop at pc runs over
    released,   \* how often slab_cache_destroy called kfree on each slab
    live,       \* ghost: objects handed out and not given back
    lost        \* ghost: objects given back that the cache did not recover

vars == <<links, numFree, nextFree, nslabs, pc, obj, cur, list, released, live, lost>>

Allocated == 1 .. nslabs

\* The locals of a call hold nothing between calls.
NoObj == <<1, 1>>

NoCall == obj' = NoObj /\ cur' = NULL /\ list' = PartialHead

\* The chain slab_alloc_slab_align builds: chunk i links to chunk i + 1, the
\* last one to the header behind it.
NewChain == [c \in 0 .. Sentinel |-> IF c <= Cap THEN c + 1 ELSE 0]

\* slab_cache_create_align: a cache starts with one free slab.
Init ==
    /\ links = [next |-> [n \in Nodes |-> IF n = FreeHead THEN 1 ELSE NULL],
                prev |-> [n \in Nodes |-> IF n = 1 THEN FreeHead ELSE NULL]]
    /\ numFree = [s \in Slabs |-> IF s = 1 THEN Cap ELSE 0]
    /\ nextFree = [s \in Slabs |-> IF s = 1 THEN NewChain ELSE [c \in 0 .. Sentinel |-> 0]]
    /\ nslabs = 1
    /\ pc = "idle"
    /\ obj = NoObj
    /\ cur = NULL
    /\ list = PartialHead
    /\ released = [s \in Slabs |-> 0]
    /\ live = {}
    /\ lost = {}

----------------------------------------------------------------------------
\* The list primitives, as functions of the links.

\* Faulty variants: the successor keeps its back pointer; nothing is unlinked.
slab_remove_from_cache_KeepsPrev(l, s) ==
    IF s = NULL THEN l ELSE [l EXCEPT !.next[l.prev[s]] = l.next[s]]

slab_remove_from_cache_Forgotten(l, s) == l

slab_remove_from_cache(l, s) ==
    IF s = NULL THEN l
    ELSE [next |-> [l.next EXCEPT ![l.prev[s]] = l.next[s]],
          prev |-> IF l.next[s] = NULL THEN l.prev
                   ELSE [l.prev EXCEPT ![l.next[s]] = l.prev[s]]]

\* Faulty variant: the slabs behind the head are dropped.
slab_insert_in_cache_DropsRest(l, head, s) ==
    [next |-> [l.next EXCEPT ![head] = s, ![s] = NULL],
     prev |-> [l.prev EXCEPT ![s] = head]]

slab_insert_in_cache(l, head, s) ==
    [next |-> [l.next EXCEPT ![head] = s, ![s] = l.next[head]],
     prev |-> IF l.next[head] = NULL THEN [l.prev EXCEPT ![s] = head]
              ELSE [l.prev EXCEPT ![s] = head, ![l.next[head]] = s]]

----------------------------------------------------------------------------
\* slab_alloc_from_cache.  The second half, on the slab s that was chosen.

\* Faulty variant: the slab stays on the partial list when it fills up.
TakeChunk_NoFullList(s, l, nf, chain) ==
    /\ nextFree' = [chain EXCEPT ![s][Base] = chain[s][chain[s][Base]]]
    /\ numFree' = [nf EXCEPT ![s] = @ - 1]
    /\ links' = IF nf[s] = Cap
                THEN slab_insert_in_cache(
                        slab_remove_from_cache(l, l.next[FreeHead]), PartialHead, s)
                ELSE l
    /\ live' = live \cup {<<s, chain[s][Base]>>}

TakeChunk(s, l, nf, chain) ==
    LET c    == chain[s][Base]
        left == nf[s] - 1
    IN  /\ nextFree' = [chain EXCEPT ![s][Base] = chain[s][c]]
        /\ numFree' = [nf EXCEPT ![s] = left]
        /\ links' = IF left = 0
                    THEN slab_insert_in_cache(
                            slab_remove_from_cache(l, l.next[PartialHead]), FullHead, s)
                    ELSE IF left = Cap - 1
                    THEN slab_insert_in_cache(
                            slab_remove_from_cache(l, l.next[FreeHead]), PartialHead, s)
                    ELSE l
        /\ live' = live \cup {<<s, c>>}

AllocFromPartial ==
    /\ pc = "idle"
    /\ links.next[PartialHead] # NULL
    /\ TakeChunk(links.next[PartialHead], links, numFree, nextFree)
    /\ UNCHANGED <<nslabs, pc, obj, cur, list, released, lost>>

AllocFromFree ==
    /\ pc = "idle"
    /\ links.next[PartialHead] = NULL
    /\ links.next[FreeHead] # NULL
    /\ TakeChunk(links.next[FreeHead], links, numFree, nextFree)
    /\ UNCHANGED <<nslabs, pc, obj, cur, list, released, lost>>

\* slab_alloc_slab_align puts the new slab in front of the free list.
AllocFromNewSlab ==
    /\ pc = "idle"
    /\ links.next[PartialHead] = NULL
    /\ links.next[FreeHead] = NULL
    /\ nslabs < MaxSlabs
    /\ nslabs' = nslabs + 1
    /\ TakeChunk(nslabs + 1,
                 slab_insert_in_cache(links, FreeHead, nslabs + 1),
                 [numFree EXCEPT ![nslabs + 1] = Cap],
                 [nextFree EXCEPT ![nslabs + 1] = NewChain])
    /\ UNCHANGED <<pc, obj, cur, list, released, lost>>

slab_alloc_from_cache == AllocFromPartial \/ AllocFromFree \/ AllocFromNewSlab

----------------------------------------------------------------------------
\* slab_free.

\* The body of slab_free once the chunk is known: count it, move the slab to
\* the list its count now calls for, and link the chunk, either as the first
\* of the chain or behind the last free chunk below it (found by FreeWalk).
GiveBack(s, c) ==
    LET left == numFree[s] + 1
        move(head) == slab_insert_in_cache(slab_remove_from_cache(links, s), head, s)
        first == nextFree[s][Base]
    IN  /\ numFree' = [numFree EXCEPT ![s] = left]
        /\ links' = IF left = 1 THEN move(PartialHead)
                    ELSE IF left = Cap THEN move(FreeHead)
                    ELSE links
        /\ live' = live \ {<<s, c>>}
        /\ \/ /\ first = 0 \/ first > c
              /\ nextFree' = [nextFree EXCEPT ![s][c] = first, ![s][Base] = c]
              /\ pc' = "idle" /\ NoCall
           \/ /\ ~(first = 0 \/ first > c)
              /\ pc' = "walk"
              /\ obj' = <<s, c>> /\ cur' = first
              /\ UNCHANGED <<nextFree, list>>

\* A cache without alignment finds the header in front of the object.
FreeDirect(s, c) ==
    /\ pc = "idle" /\ ~Aligned
    /\ <<s, c>> \in live
    /\ GiveBack(s, c)
    /\ UNCHANGED <<nslabs, released, lost>>

\* An aligned cache keeps the headers apart from the objects and looks for
\* the header: slab_find_chunk over the partial, then over the full slabs.
FreeSeek(s, c) ==
    /\ pc = "idle" /\ Aligned
    /\ <<s, c>> \in live
    /\ obj' = <<s, c>>
    /\ pc' = "find"
    /\ list' = PartialHead
    /\ cur' = links.next[PartialHead]
    /\ UNCHANGED <<links, numFree, nextFree, nslabs, released, live, lost>>

\* Within a slab the search starts at chunks->next, the second chunk.  The
\* header behind the last chunk ends it: it holds zeros, as a slab comes from
\* heap that was not used before.
Found == cur = obj[1] /\ obj[2] \in 2 .. Cap

FindHit ==
    /\ pc = "find" /\ cur # NULL /\ Found
    /\ GiveBack(obj[1], obj[2])
    /\ UNCHANGED <<nslabs, released, lost>>

FindNextSlab ==
    /\ pc = "find" /\ cur # NULL /\ ~Found
    /\ cur' = links.next[cur]
    /\ UNCHANGED <<links, numFree, nextFree, nslabs, pc, obj, list, released, live, lost>>

\* Faulty variant: the second search goes over the free slabs.
FindNextList_FreeSlabs ==
    /\ pc = "find" /\ cur = NULL /\ list = PartialHead
    /\ list' = FullHead
    /\ cur' = links.next[FreeHead]
    /\ UNCHANGED <<links, numFree, nextFree, nslabs, pc, obj, released, live, lost>>

FindNextList ==
    /\ pc = "find" /\ cur = NULL /\ list = PartialHead
    /\ list' = FullHead
    /\ cur' = links.next[FullHead]
    /\ UNCHANGED <<links, numFree, nextFree, nslabs, pc, obj, released, live, lost>>

\* Neither list has it: slab_free returns and the object stays allocated.
FindMiss ==
    /\ pc = "find" /\ cur = NULL /\ list = FullHead
    /\ pc' = "idle" /\ NoCall
    /\ live' = live \ {obj}
    /\ lost' = lost \cup {obj}
    /\ UNCHANGED <<links, numFree, nextFree, nslabs, released>>

\* for (; prev_free->next_free < chunk; prev_free = prev_free->next_free)
FreeWalk ==
    /\ pc = "walk"
    /\ nextFree[obj[1]][cur] < obj[2]
    /\ cur' = nextFree[obj[1]][cur]
    /\ UNCHANGED <<links, numFree, nextFree, nslabs, pc, obj, list, released, live, lost>>

\* Faulty variant: the chunk keeps the next_free it was handed out with.
FreeLink_StaleNext ==
    /\ pc = "walk"
    /\ ~(nextFree[obj[1]][cur] < obj[2])
    /\ nextFree' = [nextFree EXCEPT ![obj[1]][cur] = obj[2]]
    /\ pc' = "idle" /\ NoCall
    /\ UNCHANGED <<links, numFree, nslabs, released, live, lost>>

FreeLink ==
    /\ pc = "walk"
    /\ ~(nextFree[obj[1]][cur] < obj[2])
    /\ nextFree' = [nextFree EXCEPT ![obj[1]][obj[2]] = nextFree[obj[1]][cur],
                                    ![obj[1]][cur] = obj[2]]
    /\ pc' = "idle" /\ NoCall
    /\ UNCHANGED <<links, numFree, nslabs, released, live, lost>>

slab_free ==
    \/ \E s \in Slabs, c \in Chunks : FreeDirect(s, c) \/ FreeSeek(s, c)
    \/ FindHit \/ FindNextSlab \/ FindNextList \/ FindMiss
    \/ FreeWalk \/ FreeLink

----------------------------------------------------------------------------
\* slab_cache_destroy: kfree every slab of the free, the partial and the full
\* list, then the cache.  (kfree of the aligned data block of a slab goes with
\* the kfree of the slab.)

DestroyBegin ==
    /\ pc = "idle"
    /\ pc' = "destroy"
    /\ list' = FreeHead
    /\ cur' = links.next[FreeHead]
    /\ UNCHANGED <<links, numFree, nextFree, nslabs, obj, released, live, lost>>

DestroySlab ==
    /\ pc = "destroy" /\ cur # NULL
    /\ released' = [released EXCEPT ![cur] = @ + 1]
    /\ cur' = links.next[cur]
    /\ UNCHANGED <<links, numFree, nextFree, nslabs, pc, obj, list, live, lost>>

\* Faulty variant: the partial slabs are forgotten.
DestroyNextList_SkipsPartial ==
    /\ pc = "destroy" /\ cur = NULL /\ list # FullHead
    /\ list' = FullHead
    /\ cur' = links.next[list']
    /\ UNCHANGED <<links, numFree, nextFree, nslabs, pc, obj, released, live, lost>>

DestroyNextList ==
    /\ pc = "destroy" /\ cur = NULL /\ list # FullHead
    /\ list' = IF list = FreeHead THEN PartialHead ELSE FullHead
    /\ cur' = links.next[list']
    /\ UNCHANGED <<links, numFree, nextFree, nslabs, pc, obj, released, live, lost>>

DestroyEnd ==
    /\ pc = "destroy" /\ cur = NULL /\ list = FullHead
    /\ pc' = "destroyed"
    /\ UNCHANGED <<links, numFree, nextFree, nslabs, obj, cur, list, released, live, lost>>

slab_cache_destroy == DestroyBegin \/ DestroySlab \/ DestroyNextList \/ DestroyEnd

----------------------------------------------------------------------------

Next == slab_alloc_from_cache \/ slab_free \/ slab_cache_destroy

\* A call that has begun runs on: its loops are the only code on the CPU.
Fairness ==
    /\ WF_vars(FindHit \/ FindNextSlab \/ FindNextList \/ FindMiss)
    /\ WF_vars(FreeWalk \/ FreeLink)
    /\ WF_vars(DestroySlab \/ DestroyNextList \/ DestroyEnd)

Spec == Init /\ [][Next]_vars
FairSpec == Spec /\ Fairness

----------------------------------------------------------------------------
\* Properties.

\* Every variable of the cache has its type: pointers point to slabs, list
\* heads or nothing, and counts stay within a slab.
TypeOK ==
    /\ links \in [next : [Nodes -> Slabs \cup {NULL}],
                  prev : [Nodes -> Nodes \cup {NULL}]]
    /\ numFree \in [Slabs -> 0 .. Cap]
    /\ nextFree \in [Slabs -> [0 .. Sentinel -> 0 .. Sentinel]]
    /\ nslabs \in Slabs
    /\ pc \in {"idle", "find", "walk", "destroy", "destroyed"}
    /\ obj \in Slabs \X Chunks
    /\ cur \in Nat
    /\ list \in Heads
    /\ released \in [Slabs -> Nat]
    /\ live \subseteq Slabs \X Chunks
    /\ lost \subseteq Slabs \X Chunks

\* The object being linked back is counted free but not on the chain yet.
Pending == IF pc = "walk" THEN {obj} ELSE {}

\* Chunks of slab s that can be handed out.
FreeChunks(s) == {c \in Chunks : <<s, c>> \notin live \cup lost \cup Pending}

\* Chunks of slab s that the cache takes for allocated.
UsedChunks(s) == {c \in Chunks : <<s, c>> \in live \cup lost}

\* num_free, which alone decides which list a slab is on and whether its
\* chain may be read, counts exactly the chunks no caller holds.  A chunk
\* handed out twice, or the header behind the last chunk handed out, breaks it.
NumFreeExact ==
    \A s \in Allocated : numFree[s] = Cap - Cardinality(UsedChunks(s))

\* chain, starting in Base, visits the chunks F in address order and ends in
\* the header behind the last chunk.
ChainOver(chain, F) ==
    \A p \in {Base} \cup F :
        /\ chain[p] \in F \cup {Sentinel}
        /\ p < chain[p]
        /\ \A r \in F : r <= p \/ chain[p] <= r

\* The chain of next_free pointers of a slab holds exactly its free chunks,
\* whatever the order in which they were given back.
FreeChainExact ==
    \A s \in Allocated : ChainOver(nextFree[s], FreeChunks(s))

\* The head of the list a slab belongs on.
Home(n) ==
    IF n \in Heads THEN n
    ELSE IF numFree[n] = 0 THEN FullHead
    ELSE IF numFree[n] = Cap THEN FreeHead ELSE PartialHead

\* next and prev agree, and a slab's neighbours have the same home as it has.
WellLinked(l, S, home) ==
    /\ \A s \in S :
        /\ l.prev[s] \in Heads \cup S
        /\ l.next[l.prev[s]] = s
        /\ home[l.prev[s]] = home[s]
    /\ \A n \in Heads \cup S : l.next[n] # NULL =>
        /\ l.next[n] \in S
        /\ l.prev[l.next[n]] = n
        /\ home[l.next[n]] = home[n]

\* The three lists are well-formed doubly linked lists and every slab is
\* linked into the one its num_free calls for: slab_alloc_from_cache unlinks
\* the first slab of a list without looking whether it is the one it used.
ListsAgree == WellLinked(links, Allocated, [n \in Nodes |-> Home(n)])

\* The object an allocation returns is held by no caller, and it is a chunk
\* of a slab that had one to give.
NoDoubleHandout ==
    [][slab_alloc_from_cache =>
        \E s \in Slabs, c \in Chunks :
            /\ <<s, c>> \notin live \cup lost
            /\ live' = live \cup {<<s, c>>}]_vars

\* What holds of the locals of a call under way, and of the ghosts.
CallState ==
    /\ pc = "find" => obj \in live /\ cur \in Allocated \cup {NULL}
    /\ pc = "walk" => /\ obj \in Allocated \X Chunks
                     /\ obj \notin live \cup lost
                     /\ cur \in FreeChunks(obj[1])
                     /\ cur < obj[2]
    /\ pc = "destroy" => cur \in Allocated \cup {NULL}
    /\ live \cup lost \subseteq Allocated \X Chunks
    /\ live \cap lost = {}

\* The inductive invariant: the properties above need each other, and the
\* local state of slab_free while it walks down the chain.
IInv == TypeOK /\ NumFreeExact /\ FreeChainExact /\ ListsAgree /\ CallState

\* The cache asks the heap for a slab only when every slab it has is full:
\* no slab with room is ever off its list.
GrowsOnlyWhenFull ==
    [][nslabs' # nslabs => \A s \in Allocated : UsedChunks(s) = Chunks]_vars

\* slab_free gives back what it was given, except that an aligned cache never
\* finds the header of a slab's first chunk.
LosesOnlyFirstChunks == lost \subseteq (IF Aligned THEN Slabs \X {1} ELSE {})

\* slab_cache_destroy returns each slab to the heap exactly once.
DestroyReleasesAll ==
    pc = "destroyed" => \A s \in Slabs : released[s] = IF s \in Allocated THEN 1 ELSE 0

\* The loops of slab_free and slab_cache_destroy stop: the search, the walk
\* down the chain that has no null pointer at its end, and the release.
CallsReturn == pc \in {"find", "walk", "destroy"} ~> pc \in {"idle", "destroyed"}

=============================================================================
