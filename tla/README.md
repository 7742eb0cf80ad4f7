# A TLA+ development of xanaduOS

xanaduOS is a small 32-bit x86 kernel in C. This directory holds TLA+ modules
that model its core, the TLC configurations that check them, and proofs that
TLAPS checks. `PROJECT.json` lists the components, the runs, the lines of the
source every definition stands for, the hazards and the theorems.

## 1. The system

| Part | Source | State | Operations |
|---|---|---|---|
| Boot | `arch/x86/start.asm`, `kernel/kernel.c`, `kernel/gdt.c`, `kernel/tss.c`, `drivers/apic.c` | segment and task-state tables | straight-line set-up; `kernel_main` fixes the order of all the `_init` calls |
| Interrupt dispatch | `kernel/int.c`, `kernel/int_l.asm`, `kernel/exceptions.c` | IDT, `isr_handlers`, interrupt flag | `idt_init`, `add_irq_handler`, `add_isr_handler`, `isr_x86` |
| Interrupt controller | `drivers/pic.c` | masks of two chips, `cached_mask` | `pic_init`, `pic_mask`, `pic_unmask`, `pic_eoi` |
| Timer | `drivers/pit.c` | `tick`, `pit_freq` | `pit_handler`, `sleep_us/ms/sec`, `wait_ticks` |
| Frame allocator | `mem/frame_alloc.c` | bitmap `frames` | `alloc_nframes`, `find_alloc_nframes`, `dealloc_nframes` |
| Buddy allocator | `mem/buddy_frame_alloc.c` | free lists, counters, bitmaps per order | create, alloc, free, clone, clean, destroy |
| Kernel heap | `mem/allocator.c` | block headers, `heap_end_addr` | `kmalloc_align`, `expand_heap`, `kfree` |
| Slab allocator | `mem/slav_allocator.c` | caches with three slab lists, chains of free chunks | create, `slab_alloc_from_cache`, `slab_free`, destroy |
| Paging, mmap | `mem/paging.c`, `mem/mmap.c` | page directories, `cur_pd` | map, unmap, clone, page fault |
| Processes | `proc/proc.c`, `kernel/syscall.c` | task list, `cur_task` | spawn, fork, execve, exit; `schedule` has no caller |
| RAM disk, VFS | `fs/initrd.c`, `fs/fs.c` | node arrays | tar walk, `opendir/readdir/closedir`, path look-up, mmap |
| Drivers | `drivers/serial.c`, `keyboard.c`, `ps2.c`, `rtc.c`, `storage/`, `ipc/pci.c`, `net/ethernet/rtl8139.c`, `drivers/fb.c` | small buffers | interrupt handlers and port I/O |
| Shell, user programs, library | `bin/`, `usermode/`, `lib/` | none of their own | callers and helpers |

How the parts meet. `mmap.c` takes virtual pages from a buddy allocator,
physical frames from the frame allocator and page tables from the heap. The
buddy allocator takes its list nodes from a slab cache, a slab cache takes its
slabs from the heap, and the heap, when it grows, calls `mmap_pages`, which
comes back to the heap for a page table. `fork` clones a page directory, one
temporary kernel mapping per user page. Interrupts come in only between
instructions of the single CPU; of the handlers only the page fault's calls the
allocators, the timer's counter and the serial buffers are shared with one, and
the keyboard's runs the line editor.

What is hard here: pointer structures under long mixes of calls in any order
(slab, heap, buddy); a test that is enough only because of an invariant (the
frame bitmap); a counter read several times while an interrupt moves it, with
`hlt` in between, at a width at which it overflows (timer); re-entry (the heap);
translations that are stale because the flush misses them (paging); a recursion
that hands a header back through several levels (RAM disk); a screen, its copy
and its marks that must scroll together (terminal).
There is no second CPU, no message passing and nothing persistent, so there is
no crash recovery to model.

What makes each part correct: an allocator hands out nothing twice, loses
nothing it can recover, fails only when it has nothing, and every call returns;
a sleep lasts as long as it was asked to; an interrupt line with a handler is
unmasked; a process sees its own pages only, the kernel all of its own; a path
names the node it spells; the line editor works on what was typed.

## 2. Modules

| Module | Models | Composes |
|---|---|---|
| `SlabCache` | one object cache, pointer by pointer | |
| `ObjectPool` | what a cache promises: an abstract pool | |
| `MCSlabCache` | the refinement of the pool by the cache | `SlabCache`, `ObjectPool` |
| `SlabCacheProofs` | counts, chains and lists of `SlabCache` are exact; what its loops find; the refinement of the pool | `MCSlabCache` |
| `PitTimer` | tick interrupt and sleeper | |
| `PitTimerProofs` | the theorems about `PitTimer` | `PitTimer` |
| `FrameAlloc` | the frame bitmap | |
| `FrameAllocProofs` | the theorems about `FrameAlloc` | `FrameAlloc` |
| `BuddyAlloc` | one buddy allocator | |
| `BuddyAllocProofs` | the theorems about `BuddyAlloc` | `BuddyAlloc` |
| `Heap` | the kernel heap | |
| `MCHeapTest` | `allocator_test` as a script of calls | `Heap` |
| `Interrupts` | boot, the two interrupt controllers, dispatch | |
| `MCInterrupts` | the orders in which drivers register | `Interrupts` |
| `InterruptsProofs` | the theorems about masks and dispatch | `Interrupts` |
| `AddressSpace` | page directories, mmap, page faults and processes | abstract allocators |
| `MCAddressSpace` | the RAM disk of the instance | `AddressSpace` |
| `AddressSpaceProofs` | the theorems about `AddressSpace` | `AddressSpace` |
| `Initrd` | tar walk, directories, path look-up | |
| `MCInitrd` | the names of the instance | `Initrd` |
| `InitrdProofs` | the theorems about `Initrd` | `Initrd` |
| `Terminal` | screen and line editor | |
| `MCTerminal` | the prompt of the instance | `Terminal` |
| `TerminalProofs` | the theorems about `Terminal` | `Terminal` |

A definition carries the name of the C function it stands for where that is
possible. A definition whose name ends in `_Something` after another's name
and whose comment says "faulty variant" is a plausible mistake in that function,
used to see that the properties notice it; it is not part of any specification.

**SlabCache.** Slabs and list heads are numbers; `links` holds their `next` and
`prev`, `nextFree` the chain of free chunks of each slab, which starts in
`base_chunk` and ends in the header behind the last chunk. An allocation is one
step; the loops of `slab_free` (search in an aligned cache, walk down the chain)
and `slab_cache_destroy` are one step per iteration, with the local variables
in `pc`, `obj`, `cur`, `list`. `live` and `lost` are ghosts: objects held by
callers, and objects given back that the cache did not find. Left out:
`prev_free`, which is written and never read, and the global list of caches.

**PitTimer.** Every read of the volatile `tick` in `wait_ticks` is a step, `hlt`
is a step of its own, and the handler may run between any two. `tick` has `W`
bits. The conversions keep the code's truncating divisions with `K` for 1000.
`MaxLag` bounds the ticks between two steps of the sleeper.

**FrameAlloc.** The bitmap is the set of frames whose bit is set, one word of
`find_alloc_nframes`'s loop is one step. `held` and `lost` are ghosts.

**BuddyAlloc.** `call` is the top frame of the recursion in `buddy_slice`,
`buddy_free_frames_rec` and `buddy_coalesce`. Bits are pairs of word and bit,
with the code's layout of the words, in which the maps of different orders
overlap; `BitsAssumption` says that the bits of the blocks in the range do not
meet all the same. A walk past the end of a list or of the maps is a step to
`fault`.

**Heap.** `mem` maps addresses to headers, stale ones too, until their place is
handed out and may be overwritten. A walk is one step per header. When the heap
grows, `Found` starts the nested call for the page table. `Free` releases any block in
use but the first, at any time. Three steps of the code leave headers that are wrong:
`SplitsInside`, `LeavesStalePrev`, `LinksToItself` (section 3). They set `spoiled`, which
the properties except, and no call is followed that begins after one of them.

**Interrupts.** A mask is the set of its bits, `cached_mask` has 16 of them as in
the code and `pic_unmask` cuts them to 8. `pc` follows `kernel_main` from
`idt_init` to user mode, one step per table or port that an interrupt could find
half done; `order` lists the lines still to be registered. `stack` holds one
frame per interrupt being handled, with the flag that `iret` restores;
`Acknowledge` is `isr_x86` up to the call of the handler, `HandlerReturns` the
handler and the end of `common_isr`. What handlers do to their devices is left
out, and so is entry by `sysenter`. The 8259 chips are external: latched
requests, fixed priorities, the second chip behind line 2 of the first.

**AddressSpace.** The composition of `paging.c`, `mmap.c` and `proc.c`. An address
is a page number; a directory has `tables`, what the MMU reads (entries with
flags), and `virt`, the kernel's pointers to the same tables, as in the code. From
the low end it has the user's tables, one for the kernel image, one where the
heap grows and one for the window of `kern_buddy`. `frames` is the bitmap as a
set. `find_alloc_nframes` gives the frames that the search of `frame_alloc.c` finds: of
each word the first free group, and groups of `n` frames in the one submap for `n`
only, so that it fails for a single frame while larger groups are free. It is one step
here; `FrameAlloc` has it word by word. A buddy allocator gives the lowest free block.
`R_W` and `ACCESSED` are left out, `USER` and `PRESENT` decide everything. A clone of a
directory is one step per slot and per page (`job` has the loop variables), since
in between `kmalloc` may find the heap full and enter a new table into the
directory being cloned (`GrowHeap`). `GrowHeap` is confined to `fork`: before
init runs, the first 16 MB of the heap are mapped already. A growth that finds too
few frames makes the kernel panic, and is not followed. `flush_page` takes
its operand from below the stack, so `tlb`, the translations of the window, loses
any one entry or none at each call; loading a directory empties it.
`dealloc_nframes` is given a virtual address above all physical memory
(`SpaceAssumption`): it clears a bit beyond the bitmap, which no frame of the model
has. A child of `fork` is never linked into the task list, so it never runs, and no tick
switches tasks: `pit_handler` returns before it calls anything (`pit.c:59`), so that
`schedule` is never called. A memory access is `Touch`, then `page_fault` until the MMU
lets it through (`Allowed`), then `Accessed`.

**Initrd.** The archive is first chosen, entry by entry, by `Pack`, which stands
for `tar`: depth, basename, file or directory, a directory before its contents,
every path once. `tar_parse_rec` is one step per header, `stack` its activations.
A basename is a model value; `Beginnings` says which name is the beginning of
which, because `strneq` compares over the length of the path's component only.
`sub_ent_num` of an empty directory is never written: reading it gives any value
of `Garbage`. `Parent`, `Children` and `PathTo` are the reference the walk is compared
with; they look at the archive only.

**Terminal.** The screen is a record; `frame_buf`, `fb_out` and the marks
(`attrs`) have one cell more than the code's arrays, the one behind them, which the
code reads and writes when the last cell of the screen has been used. `fault` is
set where it goes further than that: below cell 0, or a search for a mark that
has no end. `overrun` is set where UP and DOWN leave `cur_cmd`, which has `CMD_SIZE`
bytes (1024 in `shell.c`): UP copies a longer line into it, DOWN prints one that fills
it and so has no end. After either nothing is followed. `written` is a ghost, the cells
filled since the last prompt, and
`most` the largest number of them so far. A loop over a text is a recursive function of
the rounds it has made. The
kernel defines `shell_start` and does not call it at present; the keyboard's
handler calls whatever has registered.

## 3. Runs

| Run | Configuration | Bounds | Shows |
|---|---|---|---|
| `slab` | `SlabCache.cfg` | 3 slabs of 3 chunks | counts, chains and lists exact; no object handed out twice; a new slab only when all are full; loops end; destroy releases every slab once |
| `slab_aligned` | `SlabCacheAligned.cfg` | the same, aligned | the cache implements `ObjectPool`; only first chunks are ever lost |
| `pit` | `PitTimer.cfg` | 4-bit counter, delays of up to 12 ticks, at most one tick between steps | never early, at most five ticks late, always ends |
| `pit_overflow` | `PitTimerOverflow.cfg` | two ticks between steps | finding 1 |
| `frames` | `FrameAlloc.cfg` | 3 words of 12 frames, one taken at boot | groups uniform, frames held once, bitmap exact, fails only when full |
| `buddy` | `BuddyAlloc.cfg` | 2 largest blocks of 8 pages, 4 orders, requests of 1 to 9 pages | pages accounted for, halves merged, no fault, fails only when full |
| `heap` | `Heap.cfg` | 4 blocks, two sizes, one growth, releases in every order | until `spoiled`: blocks disjoint, headers and their neighbours agree, walks see headers only, every call returns |
| `interrupts` | `Interrupts.cfg` | devices on lines 0, 3 and 12 with two requests each, one exception, two orders of registration | masks follow the drivers, vectors and handlers are in place, handlers do not nest, open lines are served |
| `address_space` | `AddressSpace.cfg` | tables of 8 pages, 6 words of 4 frames in two submaps, 2 user tables, 2 forks, 3 pages touched | marked frames, disjoint processes, bounded damage of the missing flush, kernel mappings present, the kernel's faults served while the search finds a frame |
| `initrd` | `Initrd.cfg` | archives of up to 4 entries, 3 deep, 3 names of which one begins another | counts exact, directories complete, paths lead to their files |
| `terminal` | `Terminal.cfg` | 2 rows of 4 cells, prompt of 2, a saved line of 3, 8 cells written | the line taken from the screen is the line typed; the arrays are left at the edges only |
| `heap_test` | `HeapTest.cfg` | the script of `allocator_test` | finding 2 |

Why the bounds are enough. Three chunks give a slab with a free chunk before,
between and behind those in use; three slabs give a list with a first, a middle
and a last one. `CallsReturn` is checked in `slab`, where a free knows its
chunk; the search of the aligned cache is a loop of `slab_aligned`, in which
`CallsReturn` holds as well when it is added. A 4-bit counter overflows within a sleep from most start
values, and every start value is tried. In `frames` the request of 8 needs two
groups from two words and can fail half way. In `buddy` the 9 pages need two
blocks, which are all there are: with one in use the request fails half way, and the range starts far above 0
as the kernel's does, so that every bit
lies behind the map of its order. In `interrupts` line 0 has a driver, line 3 never has
one but opens in the second order, and line 12 is behind the cascade line, closed
in the first order and open in the second; two requests of a line let one arrive
while the other is served. In `address_space` a word of the bitmap has two
single frames and a pair. Of the 24 frames 8 are taken at boot, which leaves 8 single ones in
four words, and four pairs. A single frame goes to the stack, three to a fork, one to a page
faulted in, so they run out in the second fork or for a fault while all the pairs are
free; the growth of the heap takes the four pairs, so that it succeeds once;
the pages touched are one of the program, one missing in a
present table and one whose table is missing; two forks are needed for a
translation of the first to be stale in the second. In `initrd` four entries give
a header that returns through two levels and a file behind it. In `terminal` a
line wraps, scrolls once and scrolls its prompt off the screen; a line that still fits
is longer than `cur_cmd`, and one fills it. In `heap` the heap grows once, with its nested
call, holes open between blocks in use, and blocks are released before and after
growth, the enlarged one among them.

Fairness. Nothing pre-empts a kernel call for good: weak fairness on the steps
of the call under way says that a loop whose next iteration can run is run. In
`PitTimer` the timer is also assumed to keep ticking, which the chip does on its
own once it is programmed. In `Interrupts` delivery is strongly fair: a program
that makes system calls without end disables and enables interrupts over and
over, and the CPU takes a pending request at the first boundary of instructions
with the flag set. Devices ask a bounded number of times, since a device with a
higher priority that asks for ever does starve the others. In `AddressSpace` the
CPU repeats the instruction that faulted: the fault and the access are weakly fair. No fairness is put on
callers, devices or exceptions.

The modules that keep records or numbers across steps state `TypeOK` (`Initrd` and
`Terminal`, whose state is sequences built by the operators checked, do not). It is
not among the properties of the runs, where a value out of its type shows as a
failure of one of the others, and holds in each of them when it is added.

`CHECK_DEADLOCK FALSE` stands where the system may stop: a destroyed cache, a
heap whose callers hold all the blocks the bound allows, and a kernel whose init
has exited (`kern` loops with interrupts disabled), and a terminal that has left its
arrays or the one for a saved line, after which nothing is known.

### Findings

1. `wait_ticks` reads `tick` twice before it waits. If more than `delay` ticks
   pass between the reads (interrupts held off, or a delay of 0 or 1), the
   branch for overflow is taken without one, and the sleep lasts until the
   counter has really gone round. Run `pit_overflow`.
2. `allocator_test` hangs in `kfree(p3)`. `p4` reuses the hole of `p2`, which is
   still on the `next_hole` chain; freeing it links the header to itself. Run
   `heap_test`.

The run `heap` shows what else the heap does not survive. The link of finding 2
(`LinksToItself`) is one of three steps after which the headers are wrong; no comment
or test speaks of the other two. `SplitsInside`: `do_alloc` (line 114) gives the rest of
a hole the size up to the end of the heap although blocks in use follow. Above all this
is the block that was handed out when the heap grew: `expand_heap` adds the size of the
new part to its header (line 92), so that after `kfree` (`initrd_closedir`, `free_pd`)
it is a hole that reaches over the new page table, and the next `kmalloc` writes a
header over the table's. `LeavesStalePrev`: merging with the next hole means to set
`prev` in the block behind that hole and sets it in the hole (line 278). The run shows
that these three are all: with every order of calls within the bounds, before and after
growth, nothing goes wrong until one of them happens. Without the exception for any one of
them TLC finds a property violated.

Two further disagreements of the parts are outside the modules. The bitmap of
`frame_alloc_init` gets 1/128 of the memory it uses, so it writes over the heap
behind it (`do_alloc` even tests for the resulting `0xFFFFFFFF`); `FrameAlloc`
and `Heap` model each part as if the bitmap had its own memory. And the bits of
the kernel's buddy allocator are indexed from address 0 although the maps are
sized for a range from `0xD0000000`; `BuddyAlloc` shows which bits coincide (for
this range none), not which memory they lie in. `BuddyAlloc` also relies on what the kernel does and
the code does not enforce: blocks are freed in reverse order and the range
starts at a multiple of the largest block.

What `interrupts` shows about the registrations is worth knowing too. With the
drivers that `kernel_main` starts, line 2 of the first controller stays masked, so
the handler that `ps2_init` registers for line 12 is never called;
`DeliveredSafely` and `DevicesServed` state when a line of the second controller
is heard. With `rtl8139` (line 10) the shared mask opens line 2 by accident,
and line 3, which has no driver, by the same accident.

Behaviour that the newer runs show and no document of the repository contradicts:

* `flush_page` flushes the wrong page. While a directory is cloned, the page that
  `copy_page` maps again and again can keep its first translation, and the
  contents of one page of the child are then copied into another frame of the
  clones. `CopyStaysInClones` is how far that goes: never into memory of the running
  process or of the kernel. It holds because the release by virtual address
  (`mmap.c:112`) leaves the frames of the clones marked; the variant that releases the
  right frame breaks it.
* `clone_page_dir` enters a cloned table without flags, so a child would have no user
  pages; it never runs.
* A page fault in user mode is answered with a page that is not the user's; the
  access faults again, for ever. `FaultServed` is therefore about the kernel's own
  accesses (`sys_read` and `sys_write`).
* `initrd_readdir` lists nodes of other directories behind the entries of its own, and
  `ent_name_eq` takes any name that begins with the component. `FindsArchived` states
  the condition under which the look-up is right all the same.
* `cur_cmd` has 1024 bytes and the screen 2000 cells. UP on a line of more than 1024
  cells writes behind the array (`shell.c:57`); on one of exactly 1024 cells it leaves
  no 0 at the end, and DOWN prints what lies behind.
* Single frames come from one byte of each word of the bitmap only
  (`frame_alloc.c:96-105`), so that they run out while three quarters of the memory may
  be free; a fault of the kernel then comes again for ever. `FaultServed` excepts just that.
* When the last cell of the screen has been written, UP and DOWN look for the prompt
  from the cell behind the arrays.

## 4. Proofs

`SlabCacheProofs` proves for every capacity of at least 2, every number of slabs
and both kinds of cache:

* `Invariance`: `Spec => []IInv`;
* `TypeCorrect`: `Spec => []TypeOK`;
* `CountsExact`, `ChainsExact`, `CacheConsistent`: `num_free` counts the free chunks,
  the chain of a slab runs through them, the lists follow the counts;
* `HandsOutOnce`: an allocation returns an object that nobody holds.

The properties are not inductive alone. That the chain is exact says which chunk
an allocation takes only together with a count above 0; the count is above 0
because of the list the slab was found on; the slab is on that list because the
lists follow the counts; and while `slab_free` walks, one object is counted but
not yet linked. `IInv` is the conjunction of `TypeOK`, `NumFreeExact`,
`FreeChainExact`, `ListsAgree` and `CallState`, which speaks about the locals of
the call. The proof has one lemma per list primitive (what unlinking and
inserting do to well-formed lists, `WellLinked`), one for taking a chunk off a
chain and one for inserting a chunk into it (`ChainOver`), two for the
cardinality of the chunks in use, and one step per action.

Its second half goes on from there, and proves the rest of what the two slab runs
check except liveness:

* `NoCircles`: `Spec => []Acyclic`;
* `GrowsWhenFull`: `Spec => GrowsOnlyWhenFull`;
* `LoopInvariance`: `Spec => []LoopInv`, and from it `DestroyComplete`
  (`[]DestroyReleasesAll`) and `FreeFindsTheRest` (`[]LosesOnlyFirstChunks`);
* `PoolRefined`: `Spec => ImplementsPool`, the abstract pool.

`ListsAgree` is a statement about neighbours. It allows slabs that are linked in a
circle which no list head reaches: a loop would never see them, and an empty list
would not mean that no slab belongs on it. `Acyclic` excludes that: there is a rank
of the nodes that grows along every list. Unlinking keeps the rank; inserting behind
a head takes a new rank, in which all others are shifted. A node of least rank
whose list is not the one of its head leads to a contradiction, so a list that
looks empty at its head is empty (`GrowsWhenFull`). For the loops, `Front` says
of a set of slabs that it is what the loop has passed: closed under `prev`, with the
cursor as its only exit. At the end of the list the exit is `NULL`, and the same
argument with ranks shows that the set is the whole list. `FindState` and
`DestroyState` say it of `slab_free`'s search and of `slab_cache_destroy`.

In the refinement the pool's `outstanding` is the number of pairs of a slab and a
number up to its used chunks, as the counts have it, so that a step changes it by what
it does to one count; `live` is the pool's set of objects.

The assumptions are `CapAssumption`, `MaxSlabsAssumption`, `AlignedAssumption`.

`InterruptsProofs` proves `MasksCorrect`, `Spec => []MasksFollowDrivers`, for every
order of registration and any devices. The property says nothing about
`cached_mask`, which decides the next write; `MInv` adds that each chip's
register contains the cached mask (it is an earlier value of it, and bits are
only cleared), that each cleared bit belongs to a registered line of one chip or
the other, and that the line about to be opened has its handler.

`DeliverySafe` (`[]DeliveredSafely`) and `HandlersDoNotNest` (`[]OneAtATime`) hold for
any devices, exceptions and system calls. `OneAtATime` is not inductive: that no
second interrupt comes while a handler runs is a matter of the interrupt flag, and
the flag is restored from the frames of the stack. `DInv` says which flags the frames
hold (`FlagClosed`: the flag is clear while there is any frame, and only the lowest
can be a device's or have been entered with the flag set), that a line in service is
that of the only frame, before its end of interrupt (`InService`), that the table and
the remapping are complete before interrupts are enabled (`Ready`), and of each frame
that it is safe (`SafeFrame`). The only assumption is `InterruptsAssumption`.

`PitTimerProofs` proves, for every width of the counter, every phase of it at the call
and any number of ticks up to `MaxLag` between two steps of the sleeper:

* `SleepNeverEarly`: `Headroom` implies `Spec => []NeverEarly`;
* `SleepNeverLate`: `Headroom` and `MaxLag = 1` imply `Spec => []NeverLate`.

`Headroom` says that `pit_freq` is the 1000 of the conversions, which is what
`pit_init(0)` leaves, and that a sleep leaves three lags of the counter's range. It is
needed: a longer sleep that is caught by the overflow starts over with a rest that may
not fit once more, and TLC finds the early return with one amount more than
`PitTimer.cfg` has. For the counter of 32 bits that is a limit of 49 days, which only `sleep_sec`
comes near. A second assumption, `NoOverflowAssumption`, limits the arguments before that: an
amount times `pit_freq` fits 32 bits in whatever unit, so the theorems speak of
`sleep_sec` up to 49 days, of `sleep_ms` up to 71 minutes,
where the product of `pit.c:162` overflows and the sleep would be short, and of `sleep_us` up to 4.2 seconds (beyond, the code divides
first). What was asked for (`AskedTicks`) is counted in the steps that the units have in
the code: a call of `sleep_us` for a second or more counts in whole seconds, as the
truncation of `pit.c:149` has it, and the theorems do not judge that.
`MaxLag = 1` says that the CPU takes a step of the loop in every tick; with a greater
lag the bound of `NeverLate` is not the right one. `EarlyInv` relates the ghost
`elapsed` to the counter in each of the two loops, and bounds by the lag how far the
counter has come when the overflow is noticed; `LateInv` has the opposite bounds.

`AddressSpaceProofs` proves the four safety properties of the run `address_space`, for
every size of tables and of memory, every RAM disk and any number of forks:

* `SpaceInvariance`: `Spec => []SInv`;
* `MappedFramesMarked` (`[]FramesMarked`), `ProcessesSeparate` (`[]ClonesDisjoint`),
  `CopiesHitClonesOnly` (`[]CopyStaysInClones`), `KernelKeepsItsPages`
  (`[]KernelReachable`).

None of the four is inductive. `ClonesDisjoint` speaks of what directories map; a clone
fills a table that no directory has yet, and shares the tables that are not marked
as the user's. So `Separate` speaks of tables: two never share a frame through user
pages, two directories never share a table that has any, and in the directory in use
such a table is marked as the user's, so that a clone copies it and does not share
it. `Sound` adds that a table is in one slot only, in whatever directories: a page
that is mapped in one slot changes no other. `CopyStaysInClones` needs that every
translation that the TLB may still have, and the frame of the last copy, is marked and
not mapped in the directory in use (`Elsewhere`); that stays true because new pages get
frames that were not marked. `FramesMarked` needs that the virtual address that
`knmunmap_contiguous` gives to `dealloc_nframes` is the number of no frame, which is
what the assumption on `NFrames` says. `BootState`, `ForkState` and `KernState` follow
the clone of `spawn_init`, the clone of a fork, and the kernel's own mappings. The proof
has one lemma for the effect of each operation on tables (`AllocPt`, `SetEntriesEffect`,
`MapEffect`, `UnmapEffect`, ...), from there lemmas on what such an effect keeps
(`EffectSound`, `EffectSeparate`, `EffectElsewhere`, `EffectReaches`), and one lemma per
action. The assumptions are `SpaceAssumption` and `BlockAssumption`: blocks are the least
powers of 2 that suffice, those of init's file and stack fit below `MemStart`'s size,
and `kern_buddy`'s window has a page left behind the RAM disk.

`FrameAllocProofs` proves all that the run `frames` checks, for every number of
submaps, words and words taken at boot, and for every set of requests the callers
can make:

* `NoFrameTwice`: `Spec => []HeldOnce`;
* `BitmapIsExact`: `Spec => []BitmapExact`;
* `FirstFrameIsEnough`: `Spec => []GroupsUniform`;
* `FullWhenFails`: `Spec => FailsOnlyWhenFull`.

The three invariants lean on one another: a hit takes a group that nobody holds
because the bitmap is exact and the group uniform, and a release keeps the groups
uniform because what is released is a group. That is not in any of them, so `IInv`
adds `HeldShape` (what may be given back is one group), `CallShape` (a search that
has found something is one for whole submaps and has found whole submaps, so that
the size it looks for next is a size of groups) and `CallApart` (what it has found is
neither the kernel's nor lost). The heart is `GroupsApart`: two groups, of whatever
words and sizes, are the same or have no frame in common; `UniformKept` follows.
`FullWhenFails` needs in addition `SeenFull`, that the words behind a search for one
group have none; it stays true because such a search marks nothing before it is
over and no other call is under way.

The assumptions are `FrameAssumption`, `RequestsAssumption` (what the callers ask for)
and `PowersAssumption`: powers of two grow and each divides the size of a submap. The
last is a fact about `^`, which would need induction to prove; TLC evaluates it for the
constants of the run.

`InitrdProofs` proves what the run `initrd` checks, for every archive of any length and
depth and whatever the unset counts hold:

* `RamDiskInvariance`: `Spec => []RInv`;
* `EntriesCounted` (`[]CountsExact`), `DirectoriesComplete` (`[]ListsChildren`),
  `PathsFound` (`[]FindsArchived`).

All rests on one fact about the archive (`ParentIs`, `ParentOnly`): the directory of an
entry is the only node before it that is less deep and has nothing less deep between.
`Walk` says that the activations of `tar_parse_rec` are a branch of the tree, each with
the count of its directory's entries so far, and that the nodes that are on no
activation have their final count; `NoneEmpty`, that an activation with no entry is
about to add one, is why no directory that is left gets a count of 0. `Reading` says
what the directory has given up to the offset; it is kept because an entry of the
directory that comes later lies behind all children of the one just given
(`SkipsNone`), so the jump cannot pass it. For a look-up, `Looking` says that the entry on
the way to the file sought is still ahead of the offset (`Ahead`, `StaysAhead`), and
`FitsOnlyAhead` that nothing before it fits. `PathTo` is recursive: that the function
exists (`PathsExist`), is as long as the entry is deep and passes through the entries
above it (`PathThrough`) is proved from a least counterexample (`LeastOf`), not from
the library's induction theorems. The assumption is `InitrdAssumption`.

`BuddyAllocProofs` proves all the safety that the run `buddy` checks, for every number of
orders, of largest blocks and of pages asked for:

* `BuddyInvariance`: `Spec => []BuddyInv`;
* `PagesAccounted` (`[]EveryPageOnce`), `HalvesMerged` (`[]BuddiesMerged`),
  `CountersExact` (`[]NumFreeExact`), `NeverFaults` (`[]NoFault`);
* `FailureMeansFull`: `Spec => FailsOnlyWhenFull`.

`EveryPageOnce` and `BuddiesMerged` speak of the state between calls and say nothing of
the bits, so neither is inductive. `BuddyInv` says instead what the blocks held
determine. A block is in a list exactly when no page of it is held and, unless it is a
largest block, some page of the block around it is (`IsFree`, `Lists`); its bit is set
exactly when some page of it is held (`Bits`). Both halves being free contradicts the
first, which is `HalvesMerged`; and a page that is not held is in the largest block around
it of which nothing is held, and in no other, which is `PagesAccounted`. During a call
one block is neither in a list nor held: the one being split by `buddy_slice`, or being
merged upwards by `buddy_coalesce`. `Pending` says that the lists are then those of a
state in which a caller has that block too, and `Bits` takes the order the call has come to
as the limit up to which the bits lag behind. The lemmas on one step of splitting and
of merging (`SplitOne`, `TakeOne` and what they rest on) say how the free blocks change
when a block held is replaced by one of its halves or goes away.

Merging is right for a reason that the code does not show: `buddy_coalesce` keeps
the address of the block it frees, which is that of the merged block only for a left
half. `LeftTaken` is what releases in reverse order give: when a block was handed
out that is a right half, or inside one, something in the left half was held, and is
still held when the block comes back. So only left halves are merged.

The assumptions are `BuddyAssumption`; `AlignedAssumption`, that the range starts at a
multiple of the largest block; `PowersAssumption`, a fact about `^`; and `BitsAssumption`,
that no two blocks of the range share a bit. All hold for `kern_buddy`, at
`0xD0000000`, the only allocator that blocks are given back to (`copy_page`). In the
users' range, from `0x100000`, blocks of different orders do share bits; nothing is
released there, so no bit is read. Without `BitsAssumption` a bit left by one order
could be taken for another's, and the theorems would not hold.

`TerminalProofs` proves what the run `terminal` checks, for a screen of any number of rows
(at least two) and columns, any tab stop, any characters typed and every prompt of at
least two characters that is shorter than a row:

* `TerminalInvariance`: `Spec => []TInv`;
* `LineTakenIsTyped` (`[]LineExact`), `EditorStaysInside` (`[]FaultsOnlyAtEdges`).

`LineExact` speaks of what is read back and says nothing of what the next key does to it.
`TInv` has two parts. `Tidy` holds whatever has been typed: `fb_out` has what the screen
shows, there is nothing from the cursor on, and marks are before the cursor (or in the
cell behind the arrays, which nobody clears). `Line` holds while prompt and line have
taken less than a screenful since the prompt was printed (`Fits`): the prompt starts at
the beginning of a row, its last cell has the last mark, and the line follows it cell
by cell up to the cursor. A scroll takes all of it along because the prompt is then not
in the first row (`ScrollLine`): the rows from the prompt to the end of the screen would
hold a screenful otherwise. That is why `most`, the largest length so far, and not the
present one decides: a prompt that was scrolled off does not come back when the line is
deleted again. Within `fb_newline` the line reaches beyond the last cell for a moment;
`Line` allows that, with nothing there. A newline passes as many cells as the rest of
the row, counted from the prompt, because the prompt starts a row (`RestIs`).

That UP and DOWN leave `cur_cmd` only with a line that is too long or fills it rests on
the same invariant: what they count on the screen is the line, with nothing of the
prompt or of older lines. `FaultsOnlyAtEdges` excepts a line of a screenful there too.

The loops of `fb_print`, `fb_delete_last` and of the prompt are recursive functions of
the number of rounds. That such a function exists (`PrintLoop`, `DeleteLoop`,
`PromptLoop`) and that what holds before the first round and is kept by each holds
after the last (`Rounds`) is proved from a least counterexample (`LeastOf`).

The assumption is `TerminalAssumption`. That the prompt has two characters is needed, and
TLC finds both properties violated with one: a prompt that is printed with the cursor
behind the last cell has its first mark set there, before the scroll, and only the other
characters are marked where they are. The kernel's prompt has eight.

Only model-checked: all liveness (fairness and `ENABLED` are beyond this prover) and
`Heap`, whose invariant would have to say how the chain of holes runs through the headers
of blocks in use, cycles included.

## 5. Not modelled

* Serial port: `serial_write` has no caller and the receive buffer no reader in the
  kernel; a model would have to invent both. The overrun of `read_buf` is listed
  as a hazard.
* Floppy and ATA: not started by `kernel_main`; sequences of port accesses with
  waits on the timer, which `PitTimer` models.
* PCI, RTL8139, CMOS and the real-time clock: port input, decoding and printing,
  with no state of their own; the interrupt lines are in `Interrupts`.
* Boot, segments, task state, APIC: straight-line programming of the hardware.
* Library and user programs: formatting and string helpers, and callers of the
  system calls, which `AddressSpace` and `Interrupts` let any program make.
* The bitmap of the frames and the heap, which overlap in memory (see section 3):
  each is modelled as if it had its own.
* `buddy_alloc_clean` by pointers: nothing allocates from the user's buddy allocator
  after `execve`, so what it leaves behind is never read.

Theorems worth proving next: `BlocksDisjoint`, `WalksHeaders` and `HeadersIntact` of
`Heap`.
