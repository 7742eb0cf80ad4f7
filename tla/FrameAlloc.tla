----------------------------- MODULE FrameAlloc -----------------------------
(***************************************************************************)
(* The physical frame allocator of mem/frame_alloc.c: a bitmap with one    *)
(* word per BIT_FRAME_SIZE frames.  Each word is divided into submaps of   *)
(* MAX_BUDDY_SIZE bits; the first serves requests for one frame, the next  *)
(* for two, then four and eight.  A group of frames is taken for free when *)
(* its first bit is clear.                                                 *)
(*                                                                         *)
(* A frame is its number, so that bit j of word i is frame                 *)
(* i * BIT_FRAME_SIZE + j.  One step of a search is one word of the loop   *)
(* of find_alloc_nframes.                                                  *)
(***************************************************************************)
EXTENDS Integers, FiniteSets, FiniteSetsExt

CONSTANTS
    Submaps,    \* 4 in the code
    frames_num, \* words in the bitmap
    BootWords,  \* words marked by page_tables_init before any search
    Requests    \* bound: the numbers of frames asked for

MAX_BUDDY_SIZE == 2 ^ (Submaps - 1)
BIT_FRAME_SIZE == Submaps * MAX_BUDDY_SIZE

ASSUME FrameAssumption ==
    /\ Submaps \in Nat \ {0} /\ frames_num \in Nat /\ BootWords \in 0 .. frames_num

\* The callers ask for 1, USER_STACK_SIZE = 4 or PT_SIZE = 1024 frames: powers
\* of two, or multiples of the largest group.
ASSUME RequestsAssumption ==
    \A n \in Requests :
        \/ \E b \in 0 .. Submaps - 1 : n = 2 ^ b
        \/ n \in Nat \ {0} /\ n % MAX_BUDDY_SIZE = 0

\* What the proofs need to know of powers of two, the sizes of groups: they grow,
\* and each divides the size of a submap.
ASSUME PowersAssumption ==
    \A b \in 0 .. Submaps - 1 :
        /\ 2 ^ b \in Nat \ {0} /\ MAX_BUDDY_SIZE % 2 ^ b = 0
        /\ \A c \in 0 .. b - 1 : 2 ^ c < 2 ^ b

VARIABLES
    frames,     \* the bits that are set
    held,       \* ghost: for every request in use, its frames
    lost,       \* ghost: frames of requests that failed half way
    call        \* the search in progress

vars == <<frames, held, lost, call>>

Idle == [op |-> "idle"]
Boot == 0 .. BootWords * BIT_FRAME_SIZE - 1
Frame == 0 .. frames_num * BIT_FRAME_SIZE - 1

\* alloc_nframes: frames at a given place are marked unseen.
alloc_nframes(n, first) == frames \cup (first .. first + n - 1)

\* frame_alloc_init, then page_tables_init, which marks what the kernel is
\* loaded into.
Init ==
    /\ frames = Boot
    /\ held = {} /\ lost = {}
    /\ call = Idle

----------------------------------------------------------------------------
\* The groups of frames a word offers to a request.

\* get_frame_submap_mask
get_frame_submap(n) ==
    CHOOSE b \in 0 .. Submaps - 1 : n <= 2 ^ b /\ \A c \in 0 .. b - 1 : n > 2 ^ c

\* The first frames of the groups of n in word i, where find_frame_in_map looks.
Groups(i, n) ==
    LET first == i * BIT_FRAME_SIZE + MAX_BUDDY_SIZE * get_frame_submap(n)
    IN  {j \in first .. first + MAX_BUDDY_SIZE - 1 : (j - first) % n = 0}

FreeGroups(i, n) == Groups(i, n) \ frames

----------------------------------------------------------------------------
\* find_alloc_nframes

FindBegin(n) ==
    /\ call = Idle
    /\ call' = [op |-> "find", nframes |-> n, i |-> 0, got |-> {}]
    /\ UNCHANGED <<frames, held, lost>>

cur_nof ==
    LET left == call.nframes - Cardinality(call.got)
    IN  IF left > MAX_BUDDY_SIZE THEN MAX_BUDDY_SIZE ELSE left

\* A group is found in the word: it is marked, all of it, and the search is
\* over or goes on in the next word.
\* Faulty variant: the first frame of the group is not marked.
FindHit_FirstUnmarked ==
    /\ call.op = "find"
    /\ call.i < frames_num
    /\ FreeGroups(call.i, cur_nof) # {}
    /\ LET j == Min(FreeGroups(call.i, cur_nof))
           got == call.got \cup (j .. j + cur_nof - 1)
       IN  /\ frames' = frames \cup (j + 1 .. j + cur_nof - 1)
           /\ IF Cardinality(got) >= call.nframes
              THEN held' = held \cup {got} /\ call' = Idle
              ELSE call' = [call EXCEPT !.got = got, !.i = @ + 1] /\ UNCHANGED held
    /\ UNCHANGED lost

FindHit ==
    /\ call.op = "find"
    /\ call.i < frames_num
    /\ FreeGroups(call.i, cur_nof) # {}
    /\ LET j == Min(FreeGroups(call.i, cur_nof))
           got == call.got \cup (j .. j + cur_nof - 1)
       IN  /\ frames' = alloc_nframes(cur_nof, j)
           /\ IF Cardinality(got) >= call.nframes
              THEN held' = held \cup {got} /\ call' = Idle
              ELSE call' = [call EXCEPT !.got = got, !.i = @ + 1] /\ UNCHANGED held
    /\ UNCHANGED lost

\* No group in the word.
FindMiss ==
    /\ call.op = "find"
    /\ call.i < frames_num
    /\ FreeGroups(call.i, cur_nof) = {}
    /\ call' = [call EXCEPT !.i = @ + 1]
    /\ UNCHANGED <<frames, held, lost>>

\* ENOMEM.  What was found stays marked, and the caller is not told.
\* Faulty variant: the bound of the loop leaves out the last word.
FindFails_Early ==
    /\ call.op = "find"
    /\ call.i >= frames_num - 1
    /\ lost' = lost \cup call.got
    /\ call' = Idle
    /\ UNCHANGED <<frames, held>>

FindFails ==
    /\ call.op = "find"
    /\ call.i = frames_num
    /\ lost' = lost \cup call.got
    /\ call' = Idle
    /\ UNCHANGED <<frames, held>>

----------------------------------------------------------------------------
\* dealloc_nframes of what one search in one word returned; the frames of a
\* larger request do not follow one another.

\* Faulty variant: only the first frame is unmarked.
dealloc_nframes_First(h) ==
    /\ call = Idle
    /\ Cardinality(h) <= MAX_BUDDY_SIZE
    /\ frames' = frames \ {Min(h)}
    /\ held' = held \ {h}
    /\ UNCHANGED <<lost, call>>

\* Faulty variant: one frame too many is unmarked.
dealloc_nframes_OneMore(h) ==
    /\ call = Idle
    /\ Cardinality(h) <= MAX_BUDDY_SIZE
    /\ frames' = frames \ (Min(h) .. Min(h) + Cardinality(h))
    /\ held' = held \ {h}
    /\ UNCHANGED <<lost, call>>

dealloc_nframes(h) ==
    /\ call = Idle
    /\ Cardinality(h) <= MAX_BUDDY_SIZE
    /\ frames' = frames \ (Min(h) .. Min(h) + Cardinality(h) - 1)
    /\ held' = held \ {h}
    /\ UNCHANGED <<lost, call>>

----------------------------------------------------------------------------
Next ==
    \/ \E n \in Requests : FindBegin(n)
    \/ FindHit \/ FindMiss \/ FindFails
    \/ \E h \in held : dealloc_nframes(h)

Spec == Init /\ [][Next]_vars

----------------------------------------------------------------------------
\* Type correctness of the bitmap, the ghosts and the search.
TypeOK ==
    /\ frames \subseteq Frame
    /\ held \subseteq SUBSET Frame
    /\ lost \subseteq Frame
    /\ \/ call = Idle
       \/ call \in [op : {"find"}, nframes : Requests, i : 0 .. frames_num, got : SUBSET Frame]

Got == IF call.op = "find" THEN call.got ELSE {}

\* find_frame_in_map tests the first frame of a group only; still, no frame is
\* handed to two callers, and none the kernel is loaded into.
HeldOnce ==
    /\ \A g, h \in held : g # h => g \cap h = {}
    /\ \A h \in held : h \cap (Boot \cup lost \cup Got) = {}

\* The bitmap marks the frames in use, those of failed requests and no other.
BitmapExact == frames = Boot \cup (UNION held) \cup lost \cup Got

\* A request for one group fails only when no word has a free group for it.
FailsOnlyWhenFull ==
    [][(call.op = "find" /\ call' = Idle /\ held' = held /\ call.nframes <= MAX_BUDDY_SIZE)
        => \A i \in 0 .. frames_num - 1 : FreeGroups(i, call.nframes) = {}]_vars

\* The frames of a group are all marked or all clear, which is what makes the
\* test of the first one enough.
GroupsUniform ==
    \A i \in 0 .. frames_num - 1 : \A b \in 0 .. Submaps - 1 :
        \A j \in Groups(i, 2 ^ b) :
            (j .. j + 2 ^ b - 1) \subseteq frames \/ (j .. j + 2 ^ b - 1) \cap frames = {}
=============================================================================
