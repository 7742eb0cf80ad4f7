---------------------------- MODULE AddressSpace ----------------------------
(***************************************************************************)
(* Page directories and the processes that own them: mem/paging.c,         *)
(* mem/mmap.c and proc/proc.c, from the start of init to its exit, with    *)
(* fork, execve, page faults and the growth of the kernel heap.            *)
(*                                                                         *)
(* Addresses are page numbers; page v is entry v % PT_SIZE of table        *)
(* v \div PT_SIZE.  From the low end, a directory has the tables of the    *)
(* user's buddy allocator, the kernel image, the place where the heap      *)
(* grows, and the window of kern_buddy.  The allocators below are a step   *)
(* each: a buddy allocator (module BuddyAlloc) gives the lowest free block *)
(* that fits, the bitmap of the frames (module FrameAlloc) the groups that *)
(* its search finds.                                                       *)
(***************************************************************************)
EXTENDS Integers, Sequences, FiniteSets, SequencesExt, FiniteSetsExt

CONSTANTS
    PT_SIZE,          \* entries of a page table
    UserTables,       \* tables 0 .. UserTables - 1 are the user's
    MemStart,         \* first page of the user's buddy allocator
    NFrames,          \* frames of physical memory
    Submaps,          \* parts of a word of the bitmap, 4 in the code
    InitrdFrames,     \* frames of the RAM disk, in order
    FilePages,        \* pages of /usr/bin/init, the first ones of the RAM disk
    USER_STACK_SIZE,
    Touched,          \* bound: the user pages that programs refer to
    MaxForks          \* bound: calls of fork

ImageSlot == UserTables
HeapSlot == UserTables + 1
KernSlot == UserTables + 2
Slots == 0 .. KernSlot
Entries == 0 .. PT_SIZE - 1
Frames == 0 .. NFrames - 1
MAX_BUDDY_SIZE == 2 ^ (Submaps - 1)
BIT_FRAME_SIZE == Submaps * MAX_BUDDY_SIZE
BootFrames == 0 .. PT_SIZE - 1
KernPages == KernSlot * PT_SIZE .. (KernSlot + 1) * PT_SIZE - 1

\* The machine has less memory than 0xD0000000, where kern_buddy starts, and
\* the first table of the image maps the frames in use at boot, the RAM disk's
\* too.  Files and stack take at most a quarter of a table: MemStart is 0x100000.
\* Whole words count as memory, and no request for frames needs two sizes of groups.
ASSUME SpaceAssumption ==
    /\ NFrames \in Nat /\ PT_SIZE < NFrames /\ NFrames <= KernSlot * PT_SIZE
    /\ FilePages <= MemStart /\ USER_STACK_SIZE <= MemStart
    /\ 4 * MemStart = PT_SIZE /\ FilePages <= Len(InitrdFrames)
    /\ MaxForks \in Nat /\ Submaps \in Nat \ {0}
    /\ NFrames % BIT_FRAME_SIZE = 0
    /\ \A n \in {PT_SIZE, USER_STACK_SIZE} :
        n % MAX_BUDDY_SIZE = 0 \/ \E b \in 0 .. Submaps - 1 : n = 2 ^ b
    /\ {PT_SIZE, UserTables, MemStart, FilePages, USER_STACK_SIZE, MAX_BUDDY_SIZE} \subseteq Nat \ {0}
    /\ InitrdFrames \in Seq(BootFrames)
    /\ Touched \subseteq 0 .. UserTables * PT_SIZE - 1

VARIABLES
    tables,     \* page tables, in the order of their allocation
    dirs,       \* page directories; dirs[1] is kernel_pd
    cur_pd,
    frames,     \* frames marked in the bitmap
    tlb,        \* translations of kern_buddy's pages that the CPU has cached
    kern_buddy, \* pages that kern_buddy has handed out
    tasks,      \* every task made; tasks[1] is the kernel's
    task_list,
    cur_task,
    last_tid,   \* last_kernel_tid and last_user_tid
    pc,         \* where the kernel is
    job,        \* the clone of a directory under way
    access,     \* the memory access under way
    copied,     \* ghost: the frame that the last copy_page wrote to
    kmaps       \* ghost: <<page, frame>> mapped for the kernel

memory == <<tables, dirs, frames, tlb, kern_buddy>>
procs == <<tasks, task_list, cur_task, last_tid>>
vars == <<memory, cur_pd, procs, pc, job, access, copied, kmaps>>

None == -1
NoTable == 0
Absent == [frame |-> 0, flags |-> {}]
Present(e) == "PRESENT" \in e.flags
NoJob == [dir |-> 0]
NoAccess == [mode |-> "none"]

----------------------------------------------------------------------------
\* The allocators below.

\* get_frame_submap_mask
get_frame_submap(n) ==
    CHOOSE b \in 0 .. Submaps - 1 : n <= 2 ^ b /\ \A c \in 0 .. b - 1 : n > 2 ^ c

\* find_frame_in_map: the free groups of n frames, by their first ones; they lie in
\* the submap for n of each word.  The code looks at the first bit of a group only,
\* which is enough (GroupsUniform of FrameAlloc).
FreeGroups(used, n) ==
    LET sub == get_frame_submap(n)
    IN  {f \in Frames \ used :
            /\ (f % BIT_FRAME_SIZE) \div MAX_BUDDY_SIZE = sub
            /\ f % n = 0 /\ (f .. f + n - 1) \subseteq Frames \ used}

\* find_alloc_nframes: the frames found, fewer than n when the search fails.  Each
\* word gives its first free group, until there are enough.
find_alloc_nframes(used, n) ==
    LET group == Min({n, MAX_BUDDY_SIZE})
        free == FreeGroups(used, group)
        found == {f \in free : \A g \in free : g \div BIT_FRAME_SIZE = f \div BIT_FRAME_SIZE => f <= g}
        first(k) == CHOOSE f \in found : Cardinality({g \in found : g < f}) = k
    IN  [i \in 1 .. group * Min({n \div group, Cardinality(found)}) |->
            first((i - 1) \div group) + ((i - 1) % group)]

\* buddy_alloc_frames: the first page of a block of 2^k pages, aligned relative
\* to the start of the range, or None.
BlockPages(n) == Min({s \in {2 ^ k : k \in 0 .. n} : s >= n})

buddy_alloc_frames(start, limit, taken, n) ==
    LET size == BlockPages(n)
        found == {v \in start .. limit - size :
                    (v - start) % size = 0 /\ (v .. v + size - 1) \cap taken = {}}
    IN  IF found = {} THEN None ELSE Min(found)

\* Blocks are the least powers of 2 that suffice, MemStart is such a power, and
\* the window of kern_buddy has a page more than the RAM disk's block.
ASSUME BlockAssumption ==
    /\ \A n \in {FilePages, USER_STACK_SIZE} : BlockPages(n) \in n .. MemStart
    /\ BlockPages(Len(InitrdFrames)) \in Len(InitrdFrames) .. PT_SIZE - 1

KernBlock(n) == buddy_alloc_frames(Min(KernPages), Max(KernPages) + 1, kern_buddy, n)
UserBlock(taken, n) == buddy_alloc_frames(MemStart, UserTables * PT_SIZE, taken, n)

----------------------------------------------------------------------------
\* Tables.  vm is [tables, dirs, frames].

VM == [tables |-> tables, dirs |-> dirs, frames |-> frames]

SetVM(vm) == tables' = vm.tables /\ dirs' = vm.dirs /\ frames' = vm.frames

Entry(vm, dir, v) == vm.tables[vm.dirs[dir].virt[v \div PT_SIZE]][v % PT_SIZE]

Mapped(dir, v) ==
    Present(dirs[dir].tables[v \div PT_SIZE]) /\ Present(Entry(VM, dir, v))

\* map_alloc_pt: the table of a slot, a new empty one if there is none.
map_alloc_pt(vm, dir, slot, flags) ==
    IF Present(vm.dirs[dir].tables[slot])
    THEN [vm EXCEPT !.dirs[dir].tables[slot].flags = @ \cup flags]
    ELSE [vm EXCEPT !.tables = Append(@, [j \in Entries |-> Absent]),
                    !.dirs[dir].tables[slot] = [pt |-> Len(vm.tables) + 1, flags |-> flags],
                    !.dirs[dir].virt[slot] = Len(vm.tables) + 1]

\* The entries from page v on, in the table of v: a range that leaves the table
\* is written behind it and not seen in the directory.
SetEntries(vm, dir, v, fs, flags) ==
    [vm EXCEPT !.tables[vm.dirs[dir].virt[v \div PT_SIZE]] =
        [j \in Entries |-> LET i == j - (v % PT_SIZE) + 1
                           IN  IF i \in DOMAIN fs THEN [frame |-> fs[i], flags |-> flags] ELSE @[j]]]

\* knmmap after its block of pages is found: fs are the frames, which are marked;
\* those given by address too, whether or not they already are.
\* Faulty variant: the frames found are not marked.
MapFrames_Unmarked(vm, dir, v, fs, flags) ==
    SetEntries(map_alloc_pt(vm, dir, v \div PT_SIZE, flags), dir, v, fs, flags)

MapFrames(vm, dir, v, fs, flags) ==
    SetEntries(map_alloc_pt([vm EXCEPT !.frames = @ \cup Range(fs)], dir, v \div PT_SIZE, flags),
               dir, v, fs, flags)

\* knmunmap_contiguous of one page: the entry loses PRESENT and keeps its frame,
\* and dealloc_nframes is given the virtual address.
\* Faulty variant: the frame that was mapped is released.
knmunmap_contiguous_Frame(vm, dir, v) ==
    [vm EXCEPT !.tables[vm.dirs[dir].virt[v \div PT_SIZE]][v % PT_SIZE].flags = @ \ {"PRESENT"},
               !.frames = @ \ {Entry(vm, dir, v).frame}]

knmunmap_contiguous(vm, dir, v) ==
    [vm EXCEPT !.tables[vm.dirs[dir].virt[v \div PT_SIZE]][v % PT_SIZE].flags = @ \ {"PRESENT"},
               !.frames = @ \ {v}]

\* flush_page reads its operand from below the stack, not from its argument: the
\* translation of any page, or of none, is dropped.  That covers what the CPU
\* forgets by itself: translations matter in copy_page only.
flush_page(t) == {t} \cup {[t EXCEPT ![w] = None] : w \in KernPages}

----------------------------------------------------------------------------
\* paging_init, kmmap_init and multiproc_init have run.

Init ==
    /\ tables = << [j \in Entries |-> [frame |-> j, flags |-> {"PRESENT"}]] >>
    /\ dirs = << [tables |-> [s \in Slots |-> IF s = ImageSlot THEN [pt |-> 1, flags |-> {"PRESENT"}]
                                              ELSE [pt |-> NoTable, flags |-> {}]],
                  virt |-> [s \in Slots |-> IF s = ImageSlot THEN 1 ELSE NoTable]] >>
    /\ cur_pd = 1
    /\ frames = BootFrames
    /\ tlb = [w \in KernPages |-> None]
    /\ kern_buddy = {}
    /\ tasks = << [id |-> 0, dir |-> 1, state |-> "RUNNING", buddy |-> {}] >>
    /\ task_list = <<1>>
    /\ cur_task = 1
    /\ last_tid = [kernel |-> 0, user |-> 1000]
    /\ pc = "boot"
    /\ job = NoJob
    /\ access = NoAccess
    /\ copied = None
    /\ kmaps = {}

\* fork_task up to clone_cur_page_dir: a copy of cur_task with a directory of
\* its own, IDLE, under the next number of its kind.
fork_task ==
    LET kind == IF tasks[cur_task].id >= 1000 THEN "user" ELSE "kernel"
    IN  /\ last_tid' = [last_tid EXCEPT ![kind] = @ + 1]
        /\ tasks' = Append(tasks, [tasks[cur_task] EXCEPT !.id = last_tid[kind] + 1,
                                                         !.dir = Len(dirs) + 1, !.state = "IDLE"])
        /\ job' = [dir |-> Len(dirs) + 1, slot |-> 0, table |-> NoTable, pte |-> 0]

\* The memory of a new directory is not cleared, but a slot is read only after the
\* clone has written it.
NewDir == [tables |-> [s \in Slots |-> [pt |-> NoTable, flags |-> {}]],
           virt |-> [s \in Slots |-> NoTable]]

\* spawn_init: initrd_init maps the RAM disk into kern_buddy's window, then
\* fork_task begins.
spawn_init ==
    /\ pc = "boot"
    /\ LET v == KernBlock(Len(InitrdFrames))
           vm == MapFrames(VM, cur_pd, v, InitrdFrames, {"PRESENT"})
       IN  /\ SetVM([vm EXCEPT !.dirs = Append(@, NewDir)])
           /\ kern_buddy' = v .. v + BlockPages(Len(InitrdFrames)) - 1
           /\ kmaps' = {<<v + i - 1, InitrdFrames[i]>> : i \in DOMAIN InitrdFrames}
    /\ fork_task
    /\ pc' = "spawn"
    /\ UNCHANGED <<tlb, cur_pd, task_list, cur_task, access, copied>>

\* load_elf in the directory dir: kfsmmap enters the RAM disk's frames of the file
\* without marking them, the stack's are new.  A failure to find those is not
\* noticed.
load_elf(vm, dir) ==
    LET file == UserBlock({}, FilePages)
        taken == file .. file + BlockPages(FilePages) - 1
        stack == UserBlock(taken, USER_STACK_SIZE)
        user == {"PRESENT", "USER"}
        with_file == SetEntries(map_alloc_pt(vm, dir, file \div PT_SIZE, user), dir, file,
                                SubSeq(InitrdFrames, 1, FilePages), user)
    IN  [vm |-> MapFrames(with_file, dir, stack, find_alloc_nframes(with_file.frames, USER_STACK_SIZE),
                          user),
         buddy |-> taken \cup (stack .. stack + BlockPages(USER_STACK_SIZE) - 1)]

\* The rest of spawn_init: the task is linked, its directory loaded, which empties
\* the TLB, its program mapped, and user mode entered with interrupts enabled.
EnterInit ==
    /\ pc = "spawn" /\ job.slot \notin Slots
    /\ LET loaded == load_elf(VM, job.dir)
       IN  /\ SetVM(loaded.vm)
           /\ tasks' = [tasks EXCEPT ![2].id = last_tid.user, ![2].state = "EMPTY",
                                     ![2].buddy = loaded.buddy]
    /\ task_list' = <<2>> \o task_list
    /\ cur_pd' = tasks[2].dir
    /\ tlb' = [w \in KernPages |-> None]
    /\ cur_task' = 2
    /\ pc' = "user" /\ job' = NoJob
    /\ UNCHANGED <<kern_buddy, last_tid, access, copied, kmaps>>

----------------------------------------------------------------------------
\* clone_page_dir of cur_pd into job.dir, one slot or one page at a time.

Cloning == pc \in {"spawn", "fork"} /\ job.slot \in Slots
CloneUnchanged == UNCHANGED <<kern_buddy, cur_pd, procs, pc, access, kmaps>>

\* The body of the loop: the table of a user's slot is cloned, any other is
\* shared.
CloneSlot ==
    /\ Cloning /\ job.table = NoTable
    /\ IF {"PRESENT", "USER"} \subseteq dirs[cur_pd].tables[job.slot].flags
       THEN /\ tables' = Append(tables, [j \in Entries |-> Absent])
            /\ job' = [job EXCEPT !.table = Len(tables) + 1, !.pte = 0]
            /\ UNCHANGED dirs
       ELSE /\ dirs' = [dirs EXCEPT ![job.dir].tables[job.slot] = dirs[cur_pd].tables[job.slot],
                                    ![job.dir].virt[job.slot] = dirs[cur_pd].virt[job.slot]]
            /\ job' = [job EXCEPT !.slot = @ + 1]
            /\ UNCHANGED tables
    /\ CloneUnchanged /\ UNCHANGED <<frames, tlb, copied>>

\* copy_page to frame f, through a page of kern_buddy's window that is mapped and
\* unmapped again: the copy goes where the TLB says.
copy_page(vm, f) ==
    LET v == KernBlock(1)
    IN  \E before \in flush_page(tlb) :
          LET hit == IF before[v] = None THEN f ELSE before[v]
          IN  /\ copied' = hit
              /\ tlb' \in flush_page([before EXCEPT ![v] = hit])
              /\ SetVM(knmunmap_contiguous(MapFrames(vm, cur_pd, v, <<f>>, {"PRESENT"}), cur_pd, v))

\* clone_page_table, entry job.pte: a user's page gets a frame of its own, which
\* is marked, and its contents; any other entry is shared.
\* Faulty variant: all entries are shared.
ClonePage_Shared ==
    /\ Cloning /\ job.table # NoTable /\ job.pte \in Entries
    /\ tables' = [tables EXCEPT ![job.table][job.pte] = tables[dirs[cur_pd].virt[job.slot]][job.pte]]
    /\ job' = [job EXCEPT !.pte = @ + 1]
    /\ CloneUnchanged /\ UNCHANGED <<dirs, frames, tlb, copied>>

ClonePage ==
    /\ Cloning /\ job.table # NoTable /\ job.pte \in Entries
    /\ LET e == tables[dirs[cur_pd].virt[job.slot]][job.pte]
           found == find_alloc_nframes(frames, 1)
       IN  IF {"PRESENT", "USER"} \subseteq e.flags
           THEN /\ found # <<>>
                /\ copy_page([VM EXCEPT !.tables[job.table][job.pte] = [e EXCEPT !.frame = found[1]],
                                        !.frames = @ \cup {found[1]}], found[1])
           ELSE /\ tables' = [tables EXCEPT ![job.table][job.pte] = e]
                /\ UNCHANGED <<dirs, frames, tlb, copied>>
    /\ job' = [job EXCEPT !.pte = @ + 1]
    /\ CloneUnchanged

\* No frame is found: clone_page_dir returns ENOMEM and fork goes on regardless.
CloneFails ==
    /\ Cloning /\ job.table # NoTable /\ job.pte \in Entries
    /\ {"PRESENT", "USER"} \subseteq tables[dirs[cur_pd].virt[job.slot]][job.pte].flags
    /\ find_alloc_nframes(frames, 1) = <<>>
    /\ job' = [job EXCEPT !.slot = KernSlot + 1]
    /\ CloneUnchanged /\ UNCHANGED <<tables, dirs, frames, tlb, copied>>

\* The cloned table is entered in the new directory without any flag.
CloneTableDone ==
    /\ Cloning /\ job.table # NoTable /\ job.pte \notin Entries
    /\ dirs' = [dirs EXCEPT ![job.dir].tables[job.slot] = [pt |-> job.table, flags |-> {}],
                            ![job.dir].virt[job.slot] = job.table]
    /\ job' = [job EXCEPT !.slot = @ + 1, !.table = NoTable]
    /\ CloneUnchanged /\ UNCHANGED <<tables, frames, tlb, copied>>

\* expand_heap and map_pages, when a kmalloc of fork finds the heap full: one
\* more table, of the directory in use, and its frames.  With fewer frames than it
\* asks for the kernel panics, and nothing follows.
\* Faulty variant: the table is put into the kernel's own directory.
GrowHeap_KernelDir ==
    /\ pc = "fork" /\ ~Present(dirs[cur_pd].tables[HeapSlot])
    /\ LET found == find_alloc_nframes(frames, PT_SIZE)
       IN  /\ Len(found) = PT_SIZE
           /\ SetVM(MapFrames(VM, 1, HeapSlot * PT_SIZE, found, {"PRESENT"}))
           /\ kmaps' = kmaps \cup {<<HeapSlot * PT_SIZE + i - 1, found[i]>> : i \in DOMAIN found}
    /\ UNCHANGED <<tlb, kern_buddy, cur_pd, procs, pc, job, access, copied>>

GrowHeap ==
    /\ pc = "fork" /\ ~Present(dirs[cur_pd].tables[HeapSlot])
    /\ LET found == find_alloc_nframes(frames, PT_SIZE)
       IN  /\ Len(found) = PT_SIZE
           /\ SetVM(MapFrames(VM, cur_pd, HeapSlot * PT_SIZE, found, {"PRESENT"}))
           /\ kmaps' = kmaps \cup {<<HeapSlot * PT_SIZE + i - 1, found[i]>> : i \in DOMAIN found}
    /\ UNCHANGED <<tlb, kern_buddy, cur_pd, procs, pc, job, access, copied>>

----------------------------------------------------------------------------
\* User mode and system calls, which run with interrupts disabled.

Running == pc = "user" /\ access = NoAccess

\* fork: the new task is never linked, so it never runs.
fork ==
    /\ Running /\ Len(dirs) < 2 + MaxForks
    /\ fork_task
    /\ dirs' = Append(dirs, NewDir)
    /\ pc' = "fork"
    /\ UNCHANGED <<tables, frames, tlb, kern_buddy, cur_pd, task_list, cur_task, access, copied, kmaps>>

\* The buddy allocator is cloned too, whose pages the child has by now; fork
\* returns 0 whether the clone of the directory failed or not.
ForkReturns ==
    /\ pc = "fork" /\ job.slot \notin Slots
    /\ pc' = "user" /\ job' = NoJob
    /\ UNCHANGED <<memory, cur_pd, procs, access, copied, kmaps>>

\* execve of a file that exists: buddy_alloc_clean gives all pages back, and
\* they stay mapped.
execve ==
    /\ Running
    /\ tasks' = [tasks EXCEPT ![cur_task].state = "EMPTY", ![cur_task].buddy = {}]
    /\ UNCHANGED <<memory, cur_pd, task_list, cur_task, last_tid, pc, job, access, copied, kmaps>>

\* exit: the list continues behind the task; only the kernel's is left, and
\* kern loops.
exit ==
    /\ Running
    /\ task_list' = SubSeq(task_list, 2, Len(task_list))
    /\ pc' = "kern"
    /\ UNCHANGED <<memory, cur_pd, tasks, cur_task, last_tid, job, access, copied, kmaps>>

kern == pc = "kern" /\ UNCHANGED vars

\* The program refers to page v, or the kernel does for it: sys_read and
\* sys_write use the buffer they are given.
Touch(mode, v) ==
    /\ Running
    /\ access' = [mode |-> mode, page |-> v]
    /\ UNCHANGED <<memory, cur_pd, procs, pc, job, copied, kmaps>>

\* The MMU lets the access through.
Allowed ==
    /\ Mapped(cur_pd, access.page)
    /\ access.mode = "user" => /\ "USER" \in dirs[cur_pd].tables[access.page \div PT_SIZE].flags
                              /\ "USER" \in Entry(VM, cur_pd, access.page).flags

Accessed ==
    /\ access # NoAccess /\ Allowed
    /\ access' = NoAccess
    /\ UNCHANGED <<memory, cur_pd, procs, pc, job, copied, kmaps>>

\* page_fault and non_present_page_hanler: error ^ PRESENT is not 0 for any
\* error code that occurs.  The new table and page are not the user's.
\* Faulty variant: a page is provided along with a new table only.
page_fault_TableOnly ==
    /\ access # NoAccess /\ ~Allowed
    /\ SetVM(IF Present(dirs[cur_pd].tables[access.page \div PT_SIZE]) THEN VM
             ELSE MapFrames(VM, cur_pd, access.page, find_alloc_nframes(frames, 1), {"PRESENT"}))
    /\ UNCHANGED <<tlb, kern_buddy, cur_pd, procs, pc, job, access, copied, kmaps>>

page_fault ==
    /\ access # NoAccess /\ ~Allowed
    /\ \E new \in {find_alloc_nframes(frames, 1)} :
        SetVM(IF ~Present(dirs[cur_pd].tables[access.page \div PT_SIZE])
              THEN MapFrames(VM, cur_pd, access.page, new, {"PRESENT"})
              ELSE IF ~Mapped(cur_pd, access.page)
              THEN SetEntries([VM EXCEPT !.frames = @ \cup Range(new)],
                              cur_pd, access.page, new, {"PRESENT"})
              ELSE VM)
    /\ UNCHANGED <<tlb, kern_buddy, cur_pd, procs, pc, job, access, copied, kmaps>>

Next ==
    \/ spawn_init \/ EnterInit
    \/ CloneSlot \/ ClonePage \/ CloneFails \/ CloneTableDone \/ GrowHeap
    \/ fork \/ ForkReturns \/ execve \/ exit \/ kern
    \/ \E mode \in {"user", "kernel"}, v \in Touched : Touch(mode, v)
    \/ Accessed \/ page_fault

\* The CPU goes on with the instruction that faulted until it succeeds.
Spec == Init /\ [][Next]_vars /\ WF_vars(Accessed) /\ WF_vars(page_fault)

----------------------------------------------------------------------------
\* Properties.

TypeOK ==
    /\ \A i \in DOMAIN tables : tables[i] \in [Entries -> [frame : Frames, flags : SUBSET {"PRESENT", "USER"}]]
    /\ \A d \in DOMAIN dirs : dirs[d].virt \in [Slots -> 0 .. Len(tables)]
    /\ cur_pd \in DOMAIN dirs /\ frames \subseteq Frames
    /\ tlb \in [KernPages -> Frames \cup {None}]
    /\ Range(task_list) \subseteq DOMAIN tasks /\ cur_task \in DOMAIN tasks

EntriesOf(d) == {x \in Slots \X Entries : dirs[d].virt[x[1]] # NoTable}
FramesOf(d, flags) ==
    {tables[dirs[d].virt[e[1]]][e[2]].frame :
        e \in {x \in EntriesOf(d) : flags \subseteq tables[dirs[d].virt[x[1]]][x[2]].flags}}

\* A frame that some directory maps is marked in the bitmap, so that the frame
\* allocator gives it to nobody else: also after copy_page has unmapped the frame
\* of a clone and "freed" the page it was mapped at.
FramesMarked == \A d \in DOMAIN dirs : FramesOf(d, {"PRESENT"}) \subseteq frames

\* Two processes never reach one frame through user pages: clone_page_table gives
\* every user page of the child a frame of its own, whatever forks and faults came
\* before.
ClonesDisjoint ==
    \A d, e \in DOMAIN dirs :
        d # e => FramesOf(d, {"PRESENT", "USER"}) \cap FramesOf(e, {"PRESENT", "USER"}) = {}

\* With a flush_page that flushes something else, copy_page may write through the
\* translation of an earlier copy: never into a page that the running process or
\* the kernel has mapped, at worst into another clone.
CopyStaysInClones == copied # None => copied \notin FramesOf(cur_pd, {"PRESENT"})

\* What the kernel mapped for itself (the RAM disk before init's directory is made,
\* the heap's new pages during a fork) is mapped, to the same frame, in the
\* directory in use.
KernelReachable ==
    \A m \in kmaps : Mapped(cur_pd, m[1]) /\ Entry(VM, cur_pd, m[1]).frame = m[2]

\* The kernel's access to a page that is not there succeeds after page faults,
\* unless the search for a single frame finds none: it looks at the first submap of
\* every word only, so the fault may repeat for ever while other frames are free.
FaultServed ==
    (access.mode = "kernel") ~> (access = NoAccess \/ find_alloc_nframes(frames, 1) = <<>>)

=============================================================================
