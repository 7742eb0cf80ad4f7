------------------------- MODULE AddressSpaceProofs -------------------------
(***************************************************************************)
(* What page directories keep apart: frames that are mapped stay marked,   *)
(* processes share no user page, a copy through a stale translation hits   *)
(* no page in use, and the kernel finds its own pages in every directory   *)
(* it runs on.                                                             *)
(***************************************************************************)
EXTENDS AddressSpace, FiniteSetTheorems, WellFoundedInduction, TLAPS

----------------------------------------------------------------------------
\* The invariants, of a memory vm.

Flags == SUBSET {"PRESENT", "USER"}
Table == [Entries -> [frame : Frames, flags : Flags]]
SlotMap == [Slots -> [pt : Nat, flags : Flags]]
VirtMap == [Slots -> Nat]
Dir == [tables : SlotMap, virt : VirtMap]
TableSeq == Seq(Table)
Memory == [tables : TableSeq, dirs : Seq(Dir), frames : SUBSET Frames]

\* The table of a slot, the flags of the slot, and an entry.
Virt(vm, d, s) == vm.dirs[d].virt[s]
SlotFlags(vm, d, s) == vm.dirs[d].tables[s].flags
Pte(vm, i, j) == vm.tables[i][j]

UserSlots == 0 .. UserTables - 1
Private == {"PRESENT", "USER"}

\* A slot that is present has a table, a table is in one slot only, in whatever
\* directories, and a frame that any table maps is marked.
Sound(vm) ==
    /\ vm \in Memory
    /\ \A d \in DOMAIN vm.dirs, s \in Slots :
          /\ Virt(vm, d, s) \in 0 .. Len(vm.tables)
          /\ "PRESENT" \in SlotFlags(vm, d, s) => Virt(vm, d, s) # NoTable
    /\ \A d, e \in DOMAIN vm.dirs, s, t \in Slots :
          Virt(vm, d, s) = Virt(vm, e, t) /\ Virt(vm, d, s) # NoTable => s = t
    /\ \A i \in DOMAIN vm.tables, j \in Entries :
          "PRESENT" \in Pte(vm, i, j).flags => Pte(vm, i, j).frame \in vm.frames
    /\ BootFrames \subseteq vm.frames

\* User pages: two tables never share a frame, two directories never a table,
\* and the directory in use has their tables marked as the user's, so that a
\* clone copies them.
Separate(vm, cur) ==
    /\ \A i, j \in DOMAIN vm.tables, a, b \in Entries :
          Private \subseteq Pte(vm, i, a).flags /\ Private \subseteq Pte(vm, j, b).flags /\ i # j
             => Pte(vm, i, a).frame # Pte(vm, j, b).frame
    /\ \A d, e \in DOMAIN vm.dirs, s, t \in Slots, j \in Entries :
          Virt(vm, d, s) = Virt(vm, e, t) /\ Virt(vm, d, s) # NoTable /\ d # e
             => ~(Private \subseteq Pte(vm, Virt(vm, d, s), j).flags)
    /\ \A s \in Slots, j \in Entries :
          Virt(vm, cur, s) # NoTable /\ Private \subseteq Pte(vm, Virt(vm, cur, s), j).flags
             => Private \subseteq SlotFlags(vm, cur, s)

\* Frame f is marked, and the directory in use does not map it.
Elsewhere(vm, cur, f) ==
    /\ f \in vm.frames
    /\ \A s \in Slots, j \in Entries :
          Virt(vm, cur, s) # NoTable /\ "PRESENT" \in Pte(vm, Virt(vm, cur, s), j).flags
             => Pte(vm, Virt(vm, cur, s), j).frame # f

\* Page m[1] of the kernel is mapped to frame m[2].
Reaches(vm, cur, m) ==
    /\ "PRESENT" \in SlotFlags(vm, cur, m[1] \div PT_SIZE)
    /\ "PRESENT" \in Pte(vm, Virt(vm, cur, m[1] \div PT_SIZE), m[1] % PT_SIZE).flags
    /\ Pte(vm, Virt(vm, cur, m[1] \div PT_SIZE), m[1] % PT_SIZE).frame = m[2]

WindowStart == KernSlot * PT_SIZE
InitrdBlock == WindowStart .. WindowStart + BlockPages(Len(InitrdFrames)) - 1

\* Until init runs there are no user pages, and its directory is a copy of the
\* kernel's as far as the clone has got.
BootState ==
    /\ pc \in {"boot", "spawn"} =>
          /\ cur_pd = 1 /\ copied = None /\ tlb = [w \in KernPages |-> None]
          /\ \A i \in DOMAIN tables, j \in Entries : "USER" \notin Pte(VM, i, j).flags
          /\ \A s \in Slots : "USER" \notin SlotFlags(VM, 1, s)
          /\ \A s \in UserSlots : SlotFlags(VM, 1, s) = {}
    /\ pc = "boot" =>
          /\ Len(dirs) = 1 /\ kmaps = {} /\ kern_buddy = {} /\ cur_task = 1
          /\ tasks = << [id |-> 0, dir |-> 1, state |-> "RUNNING", buddy |-> {}] >>
    /\ pc = "spawn" =>
          /\ Len(dirs) = 2 /\ job.dir = 2 /\ job.table = NoTable /\ job.slot \in 0 .. KernSlot + 1
          /\ tasks[2].dir = 2
          /\ \A s \in Slots : s < job.slot =>
                SlotFlags(VM, 2, s) = SlotFlags(VM, 1, s) /\ Virt(VM, 2, s) = Virt(VM, 1, s)

Job == [dir : Nat, slot : Nat, table : Nat, pte : Nat]

\* The clone of a fork fills a directory that is not in use, from a table that is
\* the user's, into a table that no directory has.
ForkState ==
    /\ pc \in {"boot", "spawn", "user", "fork", "kern"}
    /\ pc \in {"user", "fork", "kern"} => cur_pd = 2 /\ Len(dirs) >= 2
    /\ pc \in {"spawn", "fork"} => job \in Job
    /\ pc = "fork" =>
          /\ job.dir = Len(dirs) /\ job.dir # 2 /\ job.slot \in 0 .. KernSlot + 1
          /\ job.table \in 0 .. Len(tables) /\ job.pte \in 0 .. PT_SIZE
          /\ job.table # NoTable /\ job.slot \in Slots =>
                /\ Private \subseteq SlotFlags(VM, 2, job.slot)
                /\ \A d \in DOMAIN dirs, s \in Slots : Virt(VM, d, s) # job.table
    /\ access # NoAccess => pc = "user" /\ access.page \in Touched

\* The translations and the frame of the last copy, and the kernel's pages.
KernState ==
    /\ pc # "boot" => kern_buddy = InitrdBlock
    /\ tlb \in [KernPages -> Frames \cup {None}]
    /\ copied \in Frames \cup {None}
    /\ \A w \in KernPages : tlb[w] # None => Elsewhere(VM, cur_pd, tlb[w])
    /\ copied # None => Elsewhere(VM, cur_pd, copied)
    /\ \A m \in kmaps : /\ Reaches(VM, cur_pd, m) /\ m[1] \in Nat
                        /\ m[1] \in InitrdBlock \/ m[1] \div PT_SIZE = HeapSlot

SInv ==
    /\ Sound(VM) /\ Separate(VM, cur_pd)
    /\ BootState /\ ForkState /\ KernState

----------------------------------------------------------------------------
\* Arithmetic of pages.

LEMMA SeqRange ==
  ASSUME NEW S, NEW f \in Seq(S)
  PROVE  \A i \in DOMAIN f : f[i] \in S
  OBVIOUS

LEMMA Constants ==
    /\ PT_SIZE \in Nat \ {0} /\ UserTables \in Nat \ {0} /\ MemStart \in Nat \ {0}
    /\ FilePages \in Nat \ {0} /\ USER_STACK_SIZE \in Nat \ {0} /\ NFrames \in Nat
    /\ PT_SIZE < NFrames /\ NFrames <= KernSlot * PT_SIZE /\ 4 * MemStart = PT_SIZE
    /\ InitrdFrames \in Seq(BootFrames) /\ FilePages <= Len(InitrdFrames)
    /\ Slots = 0 .. UserTables + 2 /\ HeapSlot = UserTables + 1 /\ KernSlot = UserTables + 2
    /\ HeapSlot \in Slots /\ KernSlot \in Slots /\ UserSlots \subseteq Slots
    /\ BootFrames \subseteq Frames /\ None \notin Frames /\ 0 \in BootFrames
<1>1. /\ PT_SIZE \in Nat \ {0} /\ UserTables \in Nat \ {0} /\ MemStart \in Nat \ {0}
      /\ FilePages \in Nat \ {0} /\ USER_STACK_SIZE \in Nat \ {0} /\ NFrames \in Nat
      /\ PT_SIZE < NFrames /\ NFrames <= KernSlot * PT_SIZE /\ 4 * MemStart = PT_SIZE
      /\ InitrdFrames \in Seq(BootFrames) /\ FilePages <= Len(InitrdFrames)
  BY SpaceAssumption
<1> QED
  BY <1>1 DEF ImageSlot, HeapSlot, KernSlot, Slots, BootFrames, Frames, None, UserSlots

LEMMA Division ==
    ASSUME NEW w \in Nat, NEW p \in Nat \ {0}, NEW q \in Nat, NEW b \in Nat, b < p, w = q * p + b
    PROVE  w \div p = q /\ w % p = b
<1>1. w \div p = q
  OBVIOUS
<1>2. w % p = b
  OBVIOUS
<1> QED
  BY <1>1, <1>2

\* A page has a slot and an entry, which are those of no other page.
LEMMA Pages ==
    ASSUME NEW v \in Nat
    PROVE  /\ v \div PT_SIZE \in Nat /\ v % PT_SIZE \in Entries
           /\ v % PT_SIZE = v - (v \div PT_SIZE) * PT_SIZE
<1>1. PICK p \in Nat \ {0} : p = PT_SIZE
  BY Constants
<1>2. v \div p \in Nat
  OBVIOUS
<1>3. v % p \in 0 .. p - 1
  OBVIOUS
<1>4. v % p = v - (v \div p) * p
  OBVIOUS
<1> QED
  BY <1>1, <1>2, <1>3, <1>4 DEF Entries

LEMMA SlotBounds ==
    ASSUME NEW v \in Nat, NEW k \in Nat, NEW l \in Nat
    PROVE  /\ v < k * PT_SIZE => v \div PT_SIZE < k
           /\ v >= l * PT_SIZE => v \div PT_SIZE >= l
<1>1. PICK p \in Nat \ {0} : p = PT_SIZE
  BY Constants
<1>2. PICK q \in Nat : q = v \div p /\ q * p <= v /\ v < (q + 1) * p
  BY <1>1
<1>3. ASSUME v < k * p, q >= k PROVE FALSE
  <2>1. q * p >= k * p
    BY <1>1, <1>2, <1>3
  <2> QED
    BY <1>1, <1>2, <1>3, <2>1
<1>4. ASSUME v >= l * p, q < l PROVE FALSE
  <2>1. (q + 1) * p <= l * p
    BY <1>1, <1>2, <1>4
  <2> QED
    BY <1>1, <1>2, <1>4, <2>1
<1> QED
  BY <1>1, <1>2, <1>3, <1>4

\* User pages are in the user's slots, the pages of kern_buddy in its slot, and
\* the numbers of those are no numbers of frames.
LEMMA PageSlots ==
    /\ \A v \in 0 .. UserTables * PT_SIZE - 1 : v \in Nat /\ v \div PT_SIZE \in UserSlots
    /\ \A v \in KernPages : v \in Nat /\ v \div PT_SIZE = KernSlot /\ v \notin Frames
    /\ WindowStart \in Nat /\ KernPages = WindowStart .. WindowStart + PT_SIZE - 1
<1>1. UserTables * PT_SIZE \in Nat /\ KernSlot * PT_SIZE \in Nat /\ KernSlot \in Nat
  BY Constants
<1>2. (KernSlot + 1) * PT_SIZE = KernSlot * PT_SIZE + PT_SIZE
  BY Constants, <1>1
<1>3. \A v \in 0 .. UserTables * PT_SIZE - 1 : v \in Nat /\ v \div PT_SIZE \in UserSlots
  <2> SUFFICES ASSUME NEW v \in 0 .. UserTables * PT_SIZE - 1
               PROVE  v \in Nat /\ v \div PT_SIZE \in UserSlots
    OBVIOUS
  <2>1. v \in Nat /\ v < UserTables * PT_SIZE
    BY <1>1
  <2> QED
    <3>1. v \div PT_SIZE < UserTables /\ v \div PT_SIZE \in Nat
      BY <2>1, Constants, SlotBounds, Pages
    <3> QED
      BY <2>1, <3>1, Constants DEF UserSlots
<1>4. \A v \in KernPages : v \in Nat /\ v \div PT_SIZE = KernSlot /\ v \notin Frames
  <2> SUFFICES ASSUME NEW v \in KernPages
               PROVE  v \in Nat /\ v \div PT_SIZE = KernSlot /\ v \notin Frames
    OBVIOUS
  <2>1. v \in Nat /\ v < (KernSlot + 1) * PT_SIZE /\ v >= KernSlot * PT_SIZE
    BY <1>1, <1>2, Constants DEF KernPages
  <2>2. v \div PT_SIZE < KernSlot + 1 /\ v \div PT_SIZE >= KernSlot /\ v \div PT_SIZE \in Nat
    BY <2>1, <1>1, SlotBounds, Pages
  <2> QED
    BY <1>1, <2>1, <2>2, Constants DEF Frames
<1>5. WindowStart \in Nat /\ KernPages = WindowStart .. WindowStart + PT_SIZE - 1
  BY <1>1, <1>2, Constants DEF WindowStart, KernPages
<1> QED
  BY <1>3, <1>4, <1>5

----------------------------------------------------------------------------
\* The operations on tables.

LEMMA AbsentEntry == [j \in Entries |-> Absent] \in Table
  BY Constants DEF Table, Absent, Flags, BootFrames, Frames

\* The memory vm with other tables, and other slots of one directory.
Updated(vm, dir, S, T, V) ==
    [vm EXCEPT !.tables = S,
               !.dirs = [vm.dirs EXCEPT ![dir] = [vm.dirs[dir] EXCEPT !.tables = T, !.virt = V]]]

LEMMA UpdateDir ==
    ASSUME NEW vm \in Memory, NEW dir \in DOMAIN vm.dirs, NEW S \in TableSeq,
           NEW T \in SlotMap, NEW V \in VirtMap
    PROVE  LET x == Updated(vm, dir, S, T, V)
           IN  /\ x \in Memory /\ x.frames = vm.frames /\ x.tables = S
               /\ DOMAIN x.dirs = DOMAIN vm.dirs
               /\ x.dirs[dir].tables = T /\ x.dirs[dir].virt = V
               /\ \A d \in DOMAIN vm.dirs : d # dir => x.dirs[d] = vm.dirs[d]
<1> DEFINE D == [vm.dirs[dir] EXCEPT !.tables = T, !.virt = V]
           ds == [vm.dirs EXCEPT ![dir] = D]
<1>1. vm.dirs \in Seq(Dir) /\ vm.dirs[dir] \in Dir
  BY DEF Memory
<1>2. D \in Dir /\ D.tables = T /\ D.virt = V
  BY <1>1 DEF Dir
<1>3. Updated(vm, dir, S, T, V) = [vm EXCEPT !.tables = S, !.dirs = ds]
  BY DEF Updated
<1> HIDE DEF D
<1>4. /\ ds \in Seq(Dir) /\ DOMAIN ds = DOMAIN vm.dirs /\ ds[dir] = D
      /\ \A d \in DOMAIN vm.dirs : d # dir => ds[d] = vm.dirs[d]
  BY <1>1, <1>2
<1> HIDE DEF ds
<1>5. [vm EXCEPT !.tables = S, !.dirs = ds] \in Memory
  BY <1>4 DEF Memory
<1> QED
  BY <1>2, <1>3, <1>4, <1>5 DEF Memory

\* map_alloc_pt changes one slot, and appends a table if the slot had none.
LEMMA AllocPt ==
    ASSUME NEW vm \in Memory, NEW dir \in DOMAIN vm.dirs, NEW slot \in Slots, NEW flags \in Flags
    PROVE  LET r == map_alloc_pt(vm, dir, slot, flags)
               old == "PRESENT" \in SlotFlags(vm, dir, slot)
           IN  /\ r \in Memory /\ r.frames = vm.frames /\ DOMAIN r.dirs = DOMAIN vm.dirs
               /\ r.tables = IF old THEN vm.tables ELSE Append(vm.tables, [j \in Entries |-> Absent])
               /\ Virt(r, dir, slot) = IF old THEN Virt(vm, dir, slot) ELSE Len(vm.tables) + 1
               /\ SlotFlags(r, dir, slot) = IF old THEN SlotFlags(vm, dir, slot) \cup flags ELSE flags
               /\ \A d \in DOMAIN vm.dirs, s \in Slots : d # dir \/ s # slot =>
                     Virt(r, d, s) = Virt(vm, d, s) /\ SlotFlags(r, d, s) = SlotFlags(vm, d, s)
<1> DEFINE r == map_alloc_pt(vm, dir, slot, flags)
           dd == vm.dirs[dir]
           tt == dd.tables[slot]
<1>1. vm.tables \in TableSeq /\ vm.dirs \in Seq(Dir) /\ vm.frames \in SUBSET Frames
  BY DEF Memory
<1>2. dd \in Dir
  BY <1>1
<1>3. dd.tables \in SlotMap /\ dd.virt \in VirtMap
  BY <1>2 DEF Dir
<1>4. tt \in [pt : Nat, flags : Flags] /\ tt.flags \in Flags
  BY <1>3 DEF SlotMap
<1>6. CASE "PRESENT" \in SlotFlags(vm, dir, slot)
  <2> DEFINE t == [tt EXCEPT !.flags = @ \cup flags]
             T == [dd.tables EXCEPT ![slot] = t]
  <2>1. t \in [pt : Nat, flags : Flags] /\ t.flags = tt.flags \cup flags
    BY <1>4 DEF Flags
  <2>2. /\ T \in SlotMap /\ T[slot] = t
        /\ \A s \in Slots : s # slot => T[s] = dd.tables[s]
    BY <1>3, <2>1 DEF SlotMap
  <2>3. r = Updated(vm, dir, vm.tables, T, dd.virt)
    BY <1>1, <1>2, <1>3, <1>6 DEF map_alloc_pt, Present, SlotFlags, Memory, Dir, Updated, SlotMap, VirtMap
  <2> HIDE DEF T, t, r, dd
  <2>4. /\ r \in Memory /\ r.frames = vm.frames /\ r.tables = vm.tables
        /\ DOMAIN r.dirs = DOMAIN vm.dirs
        /\ r.dirs[dir].tables = T /\ r.dirs[dir].virt = dd.virt
        /\ \A d \in DOMAIN vm.dirs : d # dir => r.dirs[d] = vm.dirs[d]
    <3>1. dd.virt \in VirtMap /\ vm.tables \in TableSeq
      BY <1>1, <1>3
    <3>2. T \in SlotMap
      BY <2>2
    <3> HIDE DEF dd
    <3> QED
      BY <2>3, <3>1, <3>2, UpdateDir
  <2> QED
    BY <1>6, <2>1, <2>2, <2>4 DEF Virt, SlotFlags, r, dd
<1>7. CASE ~("PRESENT" \in SlotFlags(vm, dir, slot))
  <2> DEFINE t == [pt |-> Len(vm.tables) + 1, flags |-> flags]
             T == [dd.tables EXCEPT ![slot] = t]
             V == [dd.virt EXCEPT ![slot] = Len(vm.tables) + 1]
             S == Append(vm.tables, [j \in Entries |-> Absent])
  <2>1. t \in [pt : Nat, flags : Flags] /\ t.flags = flags /\ S \in TableSeq
    BY <1>1, AbsentEntry DEF TableSeq
  <2>2. /\ T \in SlotMap /\ T[slot] = t
        /\ V \in VirtMap /\ V[slot] = Len(vm.tables) + 1
        /\ \A s \in Slots : s # slot => T[s] = dd.tables[s] /\ V[s] = dd.virt[s]
    BY <1>1, <1>3, <2>1 DEF SlotMap, VirtMap, TableSeq
  <2>3. r = Updated(vm, dir, S, T, V)
    BY <1>1, <1>2, <1>3, <1>7 DEF map_alloc_pt, Present, SlotFlags, Memory, Dir, Updated, SlotMap, VirtMap
  <2> HIDE DEF T, t, r, V, S, dd
  <2>4. /\ r \in Memory /\ r.frames = vm.frames /\ r.tables = S
        /\ DOMAIN r.dirs = DOMAIN vm.dirs
        /\ r.dirs[dir].tables = T /\ r.dirs[dir].virt = V
        /\ \A d \in DOMAIN vm.dirs : d # dir => r.dirs[d] = vm.dirs[d]
    <3>1. dd.virt \in VirtMap /\ vm.tables \in TableSeq
      BY <1>1, <1>3
    <3> HIDE DEF dd
    <3> QED
      BY <2>1, <2>2, <2>3, <3>1, UpdateDir
  <2> QED
    BY <1>7, <2>1, <2>2, <2>4 DEF Virt, SlotFlags, r, S, dd
<1> QED
  BY <1>6, <1>7

\* SetEntries changes one table.
Written(fs, flags, v, j, old) ==
    IF j - (v % PT_SIZE) + 1 \in DOMAIN fs
    THEN [frame |-> fs[j - (v % PT_SIZE) + 1], flags |-> flags] ELSE old

LEMMA SetTable ==
    ASSUME NEW vm \in Memory, NEW x \in DOMAIN vm.tables, NEW t \in Table,
           NEW r, r = [vm EXCEPT !.tables[x] = t]
    PROVE  /\ r \in Memory /\ r.frames = vm.frames /\ r.dirs = vm.dirs
           /\ Len(r.tables) = Len(vm.tables) /\ r.tables[x] = t
           /\ \A i \in DOMAIN vm.tables : i # x => r.tables[i] = vm.tables[i]
<1>1. vm.tables \in Seq(Table)
  BY DEF Memory, TableSeq
<1> DEFINE ts == [vm.tables EXCEPT ![x] = t]
<1>2. /\ ts \in Seq(Table) /\ Len(ts) = Len(vm.tables) /\ ts[x] = t
      /\ \A i \in DOMAIN vm.tables : i # x => ts[i] = vm.tables[i]
  BY <1>1
<1>3. r = [vm EXCEPT !.tables = ts]
  OBVIOUS
<1> HIDE DEF ts
<1> QED
  BY <1>2, <1>3 DEF Memory, TableSeq

LEMMA SetEntriesEffect ==
    ASSUME NEW vm \in Memory, NEW dir \in DOMAIN vm.dirs, NEW v \in Nat, NEW flags \in Flags,
           Virt(vm, dir, v \div PT_SIZE) \in DOMAIN vm.tables,
           NEW fs, \A i \in DOMAIN fs : fs[i] \in Frames
    PROVE  LET r == SetEntries(vm, dir, v, fs, flags)
               x == Virt(vm, dir, v \div PT_SIZE)
           IN  /\ r \in Memory /\ r.frames = vm.frames /\ r.dirs = vm.dirs
               /\ Len(r.tables) = Len(vm.tables)
               /\ \A i \in DOMAIN vm.tables, j \in Entries :
                     Pte(r, i, j) = IF i = x THEN Written(fs, flags, v, j, Pte(vm, x, j)) ELSE Pte(vm, i, j)
<1> DEFINE r == SetEntries(vm, dir, v, fs, flags)
           x == Virt(vm, dir, v \div PT_SIZE)
           t == [j \in Entries |-> Written(fs, flags, v, j, vm.tables[x][j])]
<1>1. x \in DOMAIN vm.tables /\ vm.tables \in Seq(Table)
  BY DEF Memory, TableSeq
<1>2. vm.tables[x] \in Table
  BY <1>1
<1>3. t \in Table
  BY <1>2 DEF Table, Written
<1>4. r = [vm EXCEPT !.tables[x] = t]
  BY DEF SetEntries, Virt, Written
<1>5. \A j \in Entries : t[j] = Written(fs, flags, v, j, vm.tables[x][j])
  OBVIOUS
<1> HIDE DEF t, r, x
<1>6. /\ r \in Memory /\ r.frames = vm.frames /\ r.dirs = vm.dirs
      /\ Len(r.tables) = Len(vm.tables) /\ r.tables[x] = t
      /\ \A i \in DOMAIN vm.tables : i # x => r.tables[i] = vm.tables[i]
  BY <1>1, <1>3, <1>4, SetTable
<1> QED
  BY <1>5, <1>6 DEF Pte, r, x

\* The memory r after frames fs are entered from page v on.
Effect(vm, r, dir, v, fs, flags) ==
    LET slot == v \div PT_SIZE
        old == "PRESENT" \in SlotFlags(vm, dir, slot)
        n == Len(vm.tables)
        x == Virt(r, dir, slot)
    IN  /\ r \in Memory /\ DOMAIN r.dirs = DOMAIN vm.dirs
        /\ Len(r.tables) = IF old THEN n ELSE n + 1
        /\ x = IF old THEN Virt(vm, dir, slot) ELSE n + 1
        /\ SlotFlags(r, dir, slot) = IF old THEN SlotFlags(vm, dir, slot) \cup flags ELSE flags
        /\ \A d \in DOMAIN vm.dirs, s \in Slots : d # dir \/ s # slot =>
              Virt(r, d, s) = Virt(vm, d, s) /\ SlotFlags(r, d, s) = SlotFlags(vm, d, s)
        /\ \A i \in 1 .. n, j \in Entries : i # x => Pte(r, i, j) = Pte(vm, i, j)
        /\ \A j \in Entries :
              Pte(r, x, j) = Written(fs, flags, v, j, IF old THEN Pte(vm, x, j) ELSE Absent)

LEMMA PlaceEffect ==
    ASSUME NEW vm \in Memory, NEW dir \in DOMAIN vm.dirs, NEW v \in Nat, v \div PT_SIZE \in Slots,
           NEW flags \in Flags, NEW fs, \A i \in DOMAIN fs : fs[i] \in Frames,
           "PRESENT" \in SlotFlags(vm, dir, v \div PT_SIZE) =>
                Virt(vm, dir, v \div PT_SIZE) \in 1 .. Len(vm.tables)
    PROVE  LET r == SetEntries(map_alloc_pt(vm, dir, v \div PT_SIZE, flags), dir, v, fs, flags)
           IN  Effect(vm, r, dir, v, fs, flags) /\ r.frames = vm.frames
<1>0. PICK slot \in Slots : slot = v \div PT_SIZE
  OBVIOUS
<1> DEFINE m == map_alloc_pt(vm, dir, slot, flags)
           r == SetEntries(m, dir, v, fs, flags)
           old == "PRESENT" \in SlotFlags(vm, dir, slot)
           x == Virt(m, dir, slot)
           n == Len(vm.tables)
<1>1. /\ m \in Memory /\ m.frames = vm.frames /\ DOMAIN m.dirs = DOMAIN vm.dirs
      /\ m.tables = IF old THEN vm.tables ELSE Append(vm.tables, [j \in Entries |-> Absent])
      /\ x = IF old THEN Virt(vm, dir, slot) ELSE n + 1
      /\ SlotFlags(m, dir, slot) = IF old THEN SlotFlags(vm, dir, slot) \cup flags ELSE flags
      /\ \A d \in DOMAIN vm.dirs, s \in Slots : d # dir \/ s # slot =>
            Virt(m, d, s) = Virt(vm, d, s) /\ SlotFlags(m, d, s) = SlotFlags(vm, d, s)
  BY AllocPt
<1>2. vm.tables \in Seq(Table) /\ n \in Nat /\ DOMAIN vm.tables = 1 .. n
  BY DEF Memory, TableSeq
<1>3. /\ Len(m.tables) = IF old THEN n ELSE n + 1
      /\ DOMAIN m.tables = 1 .. Len(m.tables)
      /\ x \in 1 .. Len(m.tables)
      /\ \A i \in 1 .. n : m.tables[i] = vm.tables[i]
      /\ ~old => m.tables[x] = [j \in Entries |-> Absent]
  <2>1. CASE old
    BY <1>0, <1>1, <1>2, <2>1
  <2>2. CASE ~old
    BY <1>1, <1>2, <2>2, AbsentEntry
  <2> QED
    BY <2>1, <2>2
<1> HIDE DEF m
<1>4. /\ r \in Memory /\ r.frames = m.frames /\ r.dirs = m.dirs
      /\ Len(r.tables) = Len(m.tables)
      /\ \A i \in DOMAIN m.tables, j \in Entries :
            Pte(r, i, j) = IF i = x THEN Written(fs, flags, v, j, Pte(m, x, j)) ELSE Pte(m, i, j)
  <2>1. m \in Memory /\ dir \in DOMAIN m.dirs /\ Virt(m, dir, v \div PT_SIZE) \in DOMAIN m.tables
    BY <1>0, <1>1, <1>3
  <2> QED
    BY <1>0, <2>1, SetEntriesEffect
<1>5. Virt(r, dir, slot) = x
  BY <1>4 DEF Virt
<1>6. \A i \in 1 .. n, j \in Entries : i # x => Pte(r, i, j) = Pte(vm, i, j)
  <2> SUFFICES ASSUME NEW i \in 1 .. n, NEW j \in Entries, i # x PROVE Pte(r, i, j) = Pte(vm, i, j)
    OBVIOUS
  <2>1. i \in DOMAIN m.tables
    BY <1>2, <1>3
  <2>2. Pte(m, i, j) = Pte(vm, i, j)
    BY <1>3 DEF Pte
  <2> QED
    BY <1>4, <2>1, <2>2
<1>7. \A j \in Entries : Pte(r, x, j) = Written(fs, flags, v, j, IF old THEN Pte(vm, x, j) ELSE Absent)
  <2> SUFFICES ASSUME NEW j \in Entries
               PROVE  Pte(r, x, j) = Written(fs, flags, v, j, IF old THEN Pte(vm, x, j) ELSE Absent)
    OBVIOUS
  <2>1. Pte(r, x, j) = Written(fs, flags, v, j, Pte(m, x, j))
    BY <1>3, <1>4
  <2>2. Pte(m, x, j) = IF old THEN Pte(vm, x, j) ELSE Absent
    BY <1>1, <1>2, <1>3 DEF Pte
  <2> QED
    BY <2>1, <2>2
<1>8. \A d \in DOMAIN vm.dirs, s \in Slots : Virt(r, d, s) = Virt(m, d, s) /\ SlotFlags(r, d, s) = SlotFlags(m, d, s)
  BY <1>4 DEF Virt, SlotFlags
<1> HIDE DEF r, x
<1>9. Effect(vm, r, dir, v, fs, flags)
  BY <1>0, <1>1, <1>3, <1>4, <1>5, <1>6, <1>7, <1>8 DEF Effect
<1> QED
  BY <1>0, <1>1, <1>4, <1>9 DEF r, m

----------------------------------------------------------------------------
\* What entering frames does to the invariants.

LEMMA Lengths ==
    ASSUME NEW vm \in Memory
    PROVE  /\ Len(vm.tables) \in Nat /\ DOMAIN vm.tables = 1 .. Len(vm.tables)
           /\ Len(vm.dirs) \in Nat /\ DOMAIN vm.dirs = 1 .. Len(vm.dirs)
           /\ vm.frames \subseteq Frames
           /\ \A d \in DOMAIN vm.dirs, s \in Slots : SlotFlags(vm, d, s) \in Flags /\ Virt(vm, d, s) \in Nat
           /\ \A i \in DOMAIN vm.tables, j \in Entries :
                 Pte(vm, i, j).flags \in Flags /\ Pte(vm, i, j).frame \in Frames
<1>1. vm.tables \in Seq(Table) /\ vm.dirs \in Seq(Dir) /\ vm.frames \in SUBSET Frames
  BY DEF Memory, TableSeq
<1>2. ASSUME NEW d \in DOMAIN vm.dirs, NEW s \in Slots
      PROVE  SlotFlags(vm, d, s) \in Flags /\ Virt(vm, d, s) \in Nat
  <2>1. vm.dirs[d] \in Dir
    BY <1>1
  <2>2. vm.dirs[d].tables \in SlotMap /\ vm.dirs[d].virt \in VirtMap
    BY <2>1 DEF Dir
  <2> QED
    BY <2>2 DEF SlotMap, VirtMap, SlotFlags, Virt
<1>3. ASSUME NEW i \in DOMAIN vm.tables, NEW j \in Entries
      PROVE  Pte(vm, i, j).flags \in Flags /\ Pte(vm, i, j).frame \in Frames
  <2>1. vm.tables[i] \in Table
    BY <1>1
  <2> QED
    BY <2>1 DEF Table, Pte
<1> QED
  BY <1>1, <1>2, <1>3

\* The entry of a table after frames are entered: one of the frames, with the
\* flags given, or what it was.
LEMMA WrittenEntry ==
    ASSUME NEW vm, NEW r, NEW dir, NEW v, NEW fs, NEW flags, NEW j \in Entries,
           Effect(vm, r, dir, v, fs, flags)
    PROVE  LET e == Pte(r, Virt(r, dir, v \div PT_SIZE), j)
           IN  \/ e.flags = flags /\ \E i \in DOMAIN fs : e.frame = fs[i]
               \/ e = IF "PRESENT" \in SlotFlags(vm, dir, v \div PT_SIZE)
                      THEN Pte(vm, Virt(vm, dir, v \div PT_SIZE), j) ELSE Absent
<1> DEFINE old == "PRESENT" \in SlotFlags(vm, dir, v \div PT_SIZE)
           x == Virt(r, dir, v \div PT_SIZE)
           k == j - (v % PT_SIZE) + 1
<1>1. Pte(r, x, j) = Written(fs, flags, v, j, IF old THEN Pte(vm, x, j) ELSE Absent)
  BY DEF Effect
<1>2. old => x = Virt(vm, dir, v \div PT_SIZE)
  BY DEF Effect
<1>3. CASE k \in DOMAIN fs
  <2>1. Pte(r, x, j) = [frame |-> fs[k], flags |-> flags]
    BY <1>1, <1>3 DEF Written
  <2> QED
    BY <1>3, <2>1
<1>4. CASE k \notin DOMAIN fs
  BY <1>1, <1>2, <1>4 DEF Written
<1> QED
  BY <1>3, <1>4

\* A table keeps its slot.
LEMMA EffectSound ==
    ASSUME NEW vm, Sound(vm), NEW dir \in DOMAIN vm.dirs, NEW v \in Nat, v \div PT_SIZE \in Slots,
           NEW fs, NEW flags \in Flags, NEW r, Effect(vm, r, dir, v, fs, flags),
           vm.frames \subseteq r.frames, \A i \in DOMAIN fs : fs[i] \in r.frames
    PROVE  Sound(r)
<1> DEFINE slot == v \div PT_SIZE
           old == "PRESENT" \in SlotFlags(vm, dir, slot)
           n == Len(vm.tables)
           x == Virt(r, dir, slot)
<1>1. vm \in Memory /\ r \in Memory /\ DOMAIN r.dirs = DOMAIN vm.dirs /\ slot \in Slots
  BY DEF Sound, Effect
<1>2. /\ n \in Nat /\ DOMAIN vm.tables = 1 .. n /\ DOMAIN r.tables = 1 .. Len(r.tables)
      /\ Len(r.tables) = IF old THEN n ELSE n + 1
      /\ x = IF old THEN Virt(vm, dir, slot) ELSE n + 1
  BY <1>1, Lengths DEF Effect
<1>3. \A d \in DOMAIN vm.dirs, s \in Slots :
          /\ Virt(vm, d, s) \in 0 .. n
          /\ "PRESENT" \in SlotFlags(vm, d, s) => Virt(vm, d, s) # NoTable
  BY DEF Sound
<1>4. \A d \in DOMAIN vm.dirs, s \in Slots : d # dir \/ s # slot =>
          Virt(r, d, s) = Virt(vm, d, s) /\ SlotFlags(r, d, s) = SlotFlags(vm, d, s)
  BY DEF Effect
<1>5. x \in 1 .. Len(r.tables)
  BY <1>1, <1>2, <1>3 DEF NoTable
<1>6. \A d \in DOMAIN r.dirs, s \in Slots :
          /\ Virt(r, d, s) \in 0 .. Len(r.tables)
          /\ "PRESENT" \in SlotFlags(r, d, s) => Virt(r, d, s) # NoTable
  BY <1>1, <1>2, <1>3, <1>4, <1>5 DEF NoTable
<1>7. ASSUME NEW d \in DOMAIN r.dirs, NEW e \in DOMAIN r.dirs, NEW s \in Slots, NEW t \in Slots,
             Virt(r, d, s) = Virt(r, e, t), Virt(r, d, s) # NoTable
      PROVE  s = t
  <2>1. Virt(vm, d, s) = Virt(vm, e, t) /\ Virt(vm, d, s) # NoTable => s = t
    BY <1>1 DEF Sound
  <2>2. CASE old
    BY <1>1, <1>2, <1>4, <1>7, <2>1, <2>2
  <2>3. CASE ~old
    BY <1>1, <1>2, <1>3, <1>4, <1>7, <2>1, <2>3, SMTT(30)
  <2> QED
    BY <2>2, <2>3
<1>8. ASSUME NEW i \in DOMAIN r.tables, NEW j \in Entries, "PRESENT" \in Pte(r, i, j).flags
      PROVE  Pte(r, i, j).frame \in r.frames
  <2>1. CASE i # x
    <3>1. i \in 1 .. n
      BY <1>2, <2>1
    <3>2. Pte(r, i, j) = Pte(vm, i, j)
      BY <2>1, <3>1 DEF Effect
    <3> QED
      BY <1>2, <1>8, <3>1, <3>2 DEF Sound
  <2>2. CASE i = x
    <3>1. CASE \E k \in DOMAIN fs : Pte(r, i, j).frame = fs[k]
      BY <3>1
    <3>2. CASE Pte(r, i, j) = IF old THEN Pte(vm, Virt(vm, dir, slot), j) ELSE Absent
      <4>1. old
        BY <1>8, <3>2 DEF Absent
      <4>2. Virt(vm, dir, slot) \in DOMAIN vm.tables
        BY <1>1, <1>2, <1>3, <4>1 DEF NoTable
      <4> QED
        BY <1>8, <3>2, <4>1, <4>2 DEF Sound
    <3> QED
      BY <2>2, <3>1, <3>2, WrittenEntry
  <2> QED
    BY <2>1, <2>2
<1> HIDE DEF slot, old, n, x
<1> QED
  BY <1>1, <1>6, <1>7, <1>8 DEF Sound

\* Pages that the directory in use did not map stay unmapped, unless entered.
LEMMA EffectElsewhere ==
    ASSUME NEW vm, Sound(vm), NEW cur \in DOMAIN vm.dirs, NEW v \in Nat, v \div PT_SIZE \in Slots,
           NEW fs, NEW flags, NEW r, Effect(vm, r, cur, v, fs, flags),
           vm.frames \subseteq r.frames,
           NEW f, Elsewhere(vm, cur, f), \A i \in DOMAIN fs : fs[i] # f
    PROVE  Elsewhere(r, cur, f)
<1> DEFINE slot == v \div PT_SIZE
           old == "PRESENT" \in SlotFlags(vm, cur, slot)
           n == Len(vm.tables)
           x == Virt(r, cur, slot)
<1>1. f \in r.frames
  BY DEF Elsewhere
<1>2. ASSUME NEW s \in Slots, NEW j \in Entries, Virt(r, cur, s) # NoTable,
             "PRESENT" \in Pte(r, Virt(r, cur, s), j).flags
      PROVE  Pte(r, Virt(r, cur, s), j).frame # f
  <2>1. CASE s = slot
    <3>1. CASE \E k \in DOMAIN fs : Pte(r, x, j).frame = fs[k]
      BY <2>1, <3>1
    <3>2. CASE Pte(r, x, j) = IF old THEN Pte(vm, Virt(vm, cur, slot), j) ELSE Absent
      <4>1. old
        BY <1>2, <2>1, <3>2 DEF Absent
      <4>2. Virt(vm, cur, slot) # NoTable
        BY <4>1 DEF Sound
      <4> QED
        BY <1>2, <2>1, <3>2, <4>1, <4>2 DEF Elsewhere
    <3> QED
      BY <3>1, <3>2, WrittenEntry
  <2>2. CASE s # slot
    <3>1. Virt(r, cur, s) = Virt(vm, cur, s)
      BY <2>2 DEF Effect
    <3>2. Virt(vm, cur, s) \in 1 .. n
      BY <1>2, <3>1 DEF Sound, NoTable
    <3>3. Virt(vm, cur, s) # x
      <4>1. x = IF old THEN Virt(vm, cur, slot) ELSE n + 1
        BY DEF Effect
      <4>2. n \in Nat
        BY Lengths DEF Sound
      <4>3. Virt(vm, cur, s) = Virt(vm, cur, slot) => s = slot
        BY <1>2, <3>1 DEF Sound
      <4> QED
        BY <2>2, <3>2, <4>1, <4>2, <4>3
    <3>4. Pte(r, Virt(r, cur, s), j) = Pte(vm, Virt(vm, cur, s), j)
      BY <3>1, <3>2, <3>3 DEF Effect
    <3> QED
      BY <1>2, <3>1, <3>4 DEF Elsewhere
  <2> QED
    BY <2>1, <2>2
<1> QED
  BY <1>1, <1>2 DEF Elsewhere

\* User pages stay apart when kernel pages are entered, and when the frames are
\* entered for the user into a table of this directory alone.
LEMMA EffectSeparate ==
    ASSUME NEW vm, Sound(vm), NEW cur \in DOMAIN vm.dirs, Separate(vm, cur),
           NEW v \in Nat, v \div PT_SIZE \in Slots,
           NEW fs, NEW flags, NEW r, Effect(vm, r, cur, v, fs, flags),
           Private \subseteq flags =>
              /\ \A i \in DOMAIN vm.tables, j \in Entries, k \in DOMAIN fs :
                    Private \subseteq Pte(vm, i, j).flags => Pte(vm, i, j).frame # fs[k]
              /\ "PRESENT" \in SlotFlags(vm, cur, v \div PT_SIZE) =>
                    \A d \in DOMAIN vm.dirs, s \in Slots :
                        d # cur => Virt(vm, d, s) # Virt(vm, cur, v \div PT_SIZE)
    PROVE  Separate(r, cur)
<1> DEFINE slot == v \div PT_SIZE
           old == "PRESENT" \in SlotFlags(vm, cur, slot)
           n == Len(vm.tables)
           x == Virt(r, cur, slot)
           Own(m, i, j) == Private \subseteq Pte(m, i, j).flags
<1>1. vm \in Memory /\ r \in Memory /\ DOMAIN r.dirs = DOMAIN vm.dirs /\ slot \in Slots
  BY DEF Sound, Effect
<1>2. /\ n \in Nat /\ DOMAIN vm.tables = 1 .. n /\ DOMAIN r.tables = 1 .. Len(r.tables)
      /\ Len(r.tables) = IF old THEN n ELSE n + 1
      /\ x = IF old THEN Virt(vm, cur, slot) ELSE n + 1
  BY <1>1, Lengths DEF Effect
<1>3. \A d \in DOMAIN vm.dirs, s \in Slots :
          /\ Virt(vm, d, s) \in 0 .. n
          /\ "PRESENT" \in SlotFlags(vm, d, s) => Virt(vm, d, s) # NoTable
  BY DEF Sound
<1>4. \A d \in DOMAIN vm.dirs, s \in Slots : d # cur \/ s # slot =>
          Virt(r, d, s) = Virt(vm, d, s) /\ SlotFlags(r, d, s) = SlotFlags(vm, d, s)
  BY DEF Effect
<1>5. old => x \in 1 .. n
  BY <1>1, <1>2, <1>3 DEF NoTable
<1>6. ASSUME NEW i \in DOMAIN r.tables, NEW j \in Entries, Own(r, i, j)
      PROVE  \/ i \in DOMAIN vm.tables /\ Own(vm, i, j) /\ Pte(r, i, j) = Pte(vm, i, j) /\ (i = x => old)
             \/ i = x /\ Private \subseteq flags /\ \E k \in DOMAIN fs : Pte(r, i, j).frame = fs[k]
  <2>1. CASE i # x
    <3>1. i \in 1 .. n
      BY <1>2, <2>1
    <3>2. Pte(r, i, j) = Pte(vm, i, j)
      BY <2>1, <3>1 DEF Effect
    <3> QED
      BY <1>2, <1>6, <2>1, <3>1, <3>2
  <2>2. CASE i = x
    <3>1. CASE Pte(r, i, j).flags = flags /\ \E k \in DOMAIN fs : Pte(r, i, j).frame = fs[k]
      BY <1>6, <2>2, <3>1
    <3>2. CASE Pte(r, i, j) = IF old THEN Pte(vm, Virt(vm, cur, slot), j) ELSE Absent
      <4>1. old
        BY <1>6, <3>2 DEF Absent, Private
      <4> QED
        BY <1>2, <1>5, <1>6, <2>2, <3>2, <4>1
    <3> QED
      BY <2>2, <3>1, <3>2, WrittenEntry
  <2> QED
    BY <2>1, <2>2
<1>7. ASSUME NEW i \in DOMAIN r.tables, NEW j \in DOMAIN r.tables, NEW a \in Entries, NEW b \in Entries,
             Own(r, i, a), Own(r, j, b), i # j
      PROVE  Pte(r, i, a).frame # Pte(r, j, b).frame
  <2>1. i \in DOMAIN vm.tables /\ j \in DOMAIN vm.tables /\ Own(vm, i, a) /\ Own(vm, j, b)
          => Pte(vm, i, a).frame # Pte(vm, j, b).frame
    BY <1>7 DEF Separate
  <2> HIDE DEF x, Own
  <2> QED
    BY <1>6, <1>7, <2>1 DEF Own
<1>8. ASSUME NEW d \in DOMAIN r.dirs, NEW e \in DOMAIN r.dirs, NEW s \in Slots, NEW t \in Slots,
             NEW j \in Entries, Virt(r, d, s) = Virt(r, e, t), Virt(r, d, s) # NoTable, d # e,
             Own(r, Virt(r, d, s), j)
      PROVE  FALSE
  <2>1. CASE Virt(r, d, s) = x
    <3>1. CASE ~old
      <4>1. \E g \in DOMAIN vm.dirs, u \in Slots : g # cur /\ Virt(r, g, u) = x
        BY <1>1, <1>8, <2>1
      <4>2. PICK g \in DOMAIN vm.dirs, u \in Slots : Virt(vm, g, u) = n + 1
        BY <1>2, <1>4, <3>1, <4>1
      <4> HIDE DEF n
      <4> QED
        BY <1>2, <1>3, <4>2
    <3>2. CASE old
      <4>1. Virt(vm, d, s) = x /\ Virt(vm, e, t) = x /\ x # NoTable /\ x = Virt(vm, cur, slot)
        BY <1>1, <1>2, <1>4, <1>8, <2>1, <3>2
      <4>2. ~Own(vm, x, j)
        BY <1>1, <1>8, <4>1 DEF Separate
      <4>3. \E g \in DOMAIN vm.dirs, u \in Slots : g # cur /\ Virt(vm, g, u) = x
        BY <1>1, <1>8, <4>1
      <4>4. ~(Private \subseteq flags)
        BY <3>2, <4>1, <4>3
      <4>5. x \in DOMAIN r.tables
        BY <1>2, <1>5, <3>2
      <4> QED
        BY <1>6, <1>8, <2>1, <4>2, <4>4, <4>5
    <3> QED
      BY <3>1, <3>2
  <2>2. CASE Virt(r, d, s) # x
    <3>1. Virt(r, d, s) = Virt(vm, d, s) /\ Virt(r, e, t) = Virt(vm, e, t)
      BY <1>1, <1>4, <1>8, <2>2
    <3>2. Virt(vm, d, s) \in 1 .. n
      BY <1>1, <1>2, <1>3, <1>8, <3>1 DEF NoTable
    <3>3. Virt(r, d, s) \in DOMAIN r.tables
      BY <1>2, <3>1, <3>2
    <3>4. Own(vm, Virt(vm, d, s), j)
      BY <1>6, <1>8, <2>2, <3>1, <3>3
    <3> QED
      BY <1>1, <1>8, <3>1, <3>4 DEF Separate
  <2> QED
    BY <2>1, <2>2
<1>9. ASSUME NEW s \in Slots, NEW j \in Entries, Virt(r, cur, s) # NoTable, Own(r, Virt(r, cur, s), j)
      PROVE  Private \subseteq SlotFlags(r, cur, s)
  <2>1. CASE s # slot
    <3>1. Virt(r, cur, s) = Virt(vm, cur, s) /\ SlotFlags(r, cur, s) = SlotFlags(vm, cur, s)
      BY <1>4, <2>1
    <3>2. Virt(vm, cur, s) \in 1 .. n
      BY <1>2, <1>3, <1>9, <3>1 DEF NoTable
    <3>3. Virt(vm, cur, s) # x
      <4>1. Virt(vm, cur, s) = Virt(vm, cur, slot) => s = slot
        BY <1>1, <1>9, <3>1 DEF Sound
      <4> QED
        BY <1>2, <2>1, <3>2, <4>1
    <3>4. Virt(r, cur, s) \in DOMAIN r.tables
      BY <1>2, <3>1, <3>2
    <3>5. Own(vm, Virt(vm, cur, s), j)
      BY <1>6, <1>9, <3>1, <3>3, <3>4
    <3> QED
      BY <1>9, <3>1, <3>5 DEF Separate
  <2>2. CASE s = slot
    <3>1. x \in DOMAIN r.tables
      BY <1>2, <1>5
    <3>2. SlotFlags(r, cur, slot) = IF old THEN SlotFlags(vm, cur, slot) \cup flags ELSE flags
      BY DEF Effect
    <3>3. CASE Private \subseteq flags
      BY <2>2, <3>2, <3>3
    <3>4. CASE ~(Private \subseteq flags)
      <4>1. Own(vm, x, j) /\ old
        BY <1>6, <1>9, <2>2, <3>1, <3>4
      <4>2. x = Virt(vm, cur, slot) /\ x # NoTable
        BY <1>2, <1>9, <2>2, <4>1
      <4> QED
        BY <1>1, <2>2, <3>2, <4>1, <4>2 DEF Separate
    <3> QED
      BY <3>3, <3>4
  <2> QED
    BY <2>1, <2>2
<1> HIDE DEF slot, old, n, x
<1> QED
  BY <1>7, <1>8, <1>9 DEF Separate

\* A page that was mapped stays mapped to its frame unless it is entered anew.
LEMMA EffectReaches ==
    ASSUME NEW vm, Sound(vm), NEW cur \in DOMAIN vm.dirs, NEW v \in Nat, v \div PT_SIZE \in Slots,
           NEW fs, NEW flags, NEW r, Effect(vm, r, cur, v, fs, flags),
           NEW m, m[1] \in Nat, m[1] \div PT_SIZE \in Slots, Reaches(vm, cur, m),
           m[1] \div PT_SIZE = v \div PT_SIZE => \A i \in DOMAIN fs : m[1] # v + i - 1
    PROVE  Reaches(r, cur, m)
<1> DEFINE slot == v \div PT_SIZE
           old == "PRESENT" \in SlotFlags(vm, cur, slot)
           n == Len(vm.tables)
           x == Virt(r, cur, slot)
           s == m[1] \div PT_SIZE
           j == m[1] % PT_SIZE
<1>1. n \in Nat /\ (x = IF old THEN Virt(vm, cur, slot) ELSE n + 1) /\ j \in Entries
  BY Lengths, Pages DEF Effect, Sound
<1>2. "PRESENT" \in SlotFlags(vm, cur, s) /\ Virt(vm, cur, s) \in 1 .. n
  BY DEF Reaches, Sound, NoTable
<1>3. CASE s # slot
  <2>1. Virt(r, cur, s) = Virt(vm, cur, s) /\ SlotFlags(r, cur, s) = SlotFlags(vm, cur, s)
    BY <1>3 DEF Effect
  <2>2. Virt(vm, cur, s) # x
    <3>1. Virt(vm, cur, s) = Virt(vm, cur, slot) /\ Virt(vm, cur, s) # NoTable => s = slot
      BY DEF Sound
    <3> QED
      BY <1>1, <1>2, <1>3, <3>1 DEF NoTable
  <2>3. Pte(r, Virt(r, cur, s), j) = Pte(vm, Virt(vm, cur, s), j)
    BY <1>1, <1>2, <2>1, <2>2 DEF Effect
  <2> QED
    BY <2>1, <2>3 DEF Reaches
<1>4. CASE s = slot
  <2>1. old /\ x = Virt(vm, cur, s) /\ "PRESENT" \in SlotFlags(r, cur, s)
    BY <1>1, <1>2, <1>4 DEF Effect
  <2>2. j - (v % PT_SIZE) + 1 \notin DOMAIN fs
    <3>1. j = m[1] - s * PT_SIZE /\ v % PT_SIZE = v - slot * PT_SIZE
      BY Pages
    <3>2. PICK z \in Int : z = slot * PT_SIZE
      <4>1. slot \in Nat /\ PT_SIZE \in Nat
        BY Constants, Pages
      <4> QED
        BY <4>1
    <3>3. m[1] = v + (j - (v % PT_SIZE) + 1) - 1
      BY <1>4, <3>1, <3>2
    <3> QED
      BY <1>4, <3>3
  <2>3. Pte(r, x, j) = Written(fs, flags, v, j, IF old THEN Pte(vm, x, j) ELSE Absent)
    BY <1>1 DEF Effect
  <2>4. Pte(r, x, j) = Pte(vm, x, j)
    BY <2>1, <2>2, <2>3 DEF Written
  <2> QED
    BY <1>4, <2>1, <2>4 DEF Reaches
<1> QED
  BY <1>3, <1>4

\* The pages entered are mapped to their frames.
LEMMA EffectMaps ==
    ASSUME NEW vm, NEW dir, NEW v \in Nat, NEW fs, NEW flags, "PRESENT" \in flags,
           NEW r, Effect(vm, r, dir, v, fs, flags),
           NEW i \in DOMAIN fs, i \in Nat \ {0}, (v % PT_SIZE) + i <= PT_SIZE
    PROVE  /\ Reaches(r, dir, <<v + i - 1, fs[i]>>)
           /\ v + i - 1 \in Nat /\ (v + i - 1) \div PT_SIZE = v \div PT_SIZE
<1>1. PICK p \in Nat \ {0}, q \in Nat, a \in Nat : p = PT_SIZE /\ q = v \div p /\ a = v % p /\ v = q * p + a
  <2>1. PT_SIZE \in Nat \ {0} /\ v \div PT_SIZE \in Nat /\ v % PT_SIZE \in Entries
        /\ v % PT_SIZE = v - (v \div PT_SIZE) * PT_SIZE
    BY Constants, Pages
  <2> QED
    BY <2>1 DEF Entries
<1>2. v + i - 1 = q * p + (a + i - 1) /\ a + i - 1 \in Nat /\ a + i - 1 < p
  BY <1>1
<1>3. (v + i - 1) \div p = q /\ (v + i - 1) % p = a + i - 1
  <2>1. PICK w \in Nat, b \in Nat : w = v + i - 1 /\ b = a + i - 1 /\ b < p /\ w = q * p + b
    BY <1>2
  <2>2. w \div p = q /\ w % p = b
    BY <2>1, Division, ZenonT(30)
  <2> QED
    BY <2>1, <2>2
<1>5. a + i - 1 \in Entries /\ (a + i - 1) - (v % PT_SIZE) + 1 = i
  BY <1>1, <1>2 DEF Entries
<1>6. PICK j \in Entries : j = a + i - 1 /\ j - (v % PT_SIZE) + 1 = i
  BY <1>5
<1>7. Pte(r, Virt(r, dir, q), j) = [frame |-> fs[i], flags |-> flags]
  BY <1>1, <1>6 DEF Effect, Written
<1>8. "PRESENT" \in SlotFlags(r, dir, q)
  BY <1>1 DEF Effect
<1> QED
  BY <1>1, <1>2, <1>3, <1>6, <1>7, <1>8 DEF Reaches

----------------------------------------------------------------------------
\* The allocators.

\* A set of natural numbers has a least element.
LEMMA LeastOf ==
    ASSUME NEW S \in SUBSET Nat, S # {}
    PROVE  \E x \in S : \A y \in S : x <= y
<1> DEFINE R == OpToRel(<, Nat)
<1>1. PICK x \in S : \A y \in S : ~(<<y, x>> \in R)
  <2>1. IsWellFoundedOn(R, Nat)
    BY NatLessThanWellFounded
  <2> HIDE DEF R
  <2> QED
    BY <2>1, WFMin
<1>2. \A y \in S : ~(y < x)
  BY <1>1 DEF OpToRel
<1> QED
  BY <1>2

LEMMA MinOf ==
    ASSUME NEW S \in SUBSET Nat, S # {}
    PROVE  Min(S) \in S /\ \A y \in S : Min(S) <= y
  BY LeastOf DEF Min

\* A finite set of numbers has an i-th smallest one.
LEMMA NthSmallest ==
    ASSUME NEW S \in SUBSET Nat, IsFiniteSet(S), NEW i \in 1 .. Cardinality(S)
    PROVE  \E f \in S : Cardinality({g \in S : g < f}) = i - 1
<1> DEFINE Below(f) == {g \in S : g < f}
           Bad == {k \in 1 .. Cardinality(S) : ~\E f \in S : Cardinality(Below(f)) = k - 1}
<1>0. Cardinality(S) \in Nat
  BY FS_CardinalityType
<1>1. ASSUME NEW k \in Bad, \A y \in Bad : k <= y PROVE FALSE
  <2>1. CASE k = 1
    <3>1. S # {}
      BY <1>0, <1>1, FS_EmptySet
    <3>2. PICK f \in S : \A y \in S : f <= y
      BY <3>1, LeastOf
    <3>3. Below(f) = {}
      <4>1. \A g \in S : ~(g < f)
        BY <3>2
      <4> QED
        BY <4>1
    <3>4. Cardinality(Below(f)) = k - 1
      BY <2>1, <3>3, FS_EmptySet
    <3> QED
      BY <1>1, <3>4
  <2>2. CASE k # 1
    <3>1. k - 1 \in 1 .. Cardinality(S) /\ k - 1 \notin Bad
      BY <1>0, <1>1, <2>2
    <3>2. PICK f \in S : Cardinality(Below(f)) = (k - 1) - 1
      BY <3>1
    <3>3. IsFiniteSet(Below(f)) /\ f \notin Below(f)
      <4>1. Below(f) \subseteq S
        OBVIOUS
      <4> QED
        BY <4>1, FS_Subset
    <3>4. PICK L : L = Below(f) \cup {f}
      OBVIOUS
    <3>5. Cardinality(L) = k - 1
      <4>1. Cardinality(L) = Cardinality(Below(f)) + 1
        BY <3>3, <3>4, FS_AddElement
      <4> QED
        BY <1>0, <1>1, <3>2, <4>1
    <3>6. S \ L # {} /\ S \ L \in SUBSET Nat
      <4>1. L # S
        BY <1>0, <1>1, <3>5
      <4> QED
        BY <3>4, <4>1
    <3>7. PICK h \in S \ L : \A y \in S \ L : h <= y
      BY <3>6, LeastOf
    <3>8. h > f
      BY <3>4, <3>7
    <3>9. Below(h) = L
      <4>1. \A g \in S : g < h => g \in L
        BY <3>7
      <4>2. \A g \in L : g \in S /\ g < h
        BY <3>4, <3>8
      <4> QED
        BY <4>1, <4>2
    <3> QED
      BY <1>1, <3>5, <3>7, <3>9
  <2> QED
    BY <2>1, <2>2
<1>2. Bad = {}
  <2>1. Bad \in SUBSET Nat
    BY <1>0
  <2> HIDE DEF Bad
  <2> QED
    BY <1>1, <2>1, LeastOf
<1> QED
  BY <1>2

\* Arithmetic of groups.
LEMMA Products ==
    ASSUME NEW g \in Nat, NEW c \in Nat, NEW q \in Nat, c <= q
    PROVE  g * c \in Nat /\ g * c <= g * q
<1>1. PICK d \in Nat : q = c + d
  BY q - c \in Nat
<1>2. g * q = g * c + g * d
  BY <1>1
<1>3. g * c \in Nat /\ g * d \in Nat
  OBVIOUS
<1> QED
  BY <1>2, <1>3

LEMMA Quotient ==
    ASSUME NEW g \in Nat \ {0}, NEW c \in Nat, NEW i \in Nat \ {0}, i <= g * c
    PROVE  \E k \in Nat, r \in 0 .. g - 1 : k = (i - 1) \div g /\ r = (i - 1) % g /\ k < c
<1>1. PICK k \in Nat, r \in Nat : k = (i - 1) \div g /\ r = (i - 1) % g /\ i - 1 = k * g + r /\ r < g
  OBVIOUS
<1>2. k < c
  <2>1. CASE k >= c
    <3>1. g * c <= g * k
      BY <2>1, Products
    <3> QED
      BY <1>1, <3>1
  <2> QED
    BY <2>1
<1> QED
  BY <1>1, <1>2

\* find_alloc_nframes gives frames that are not in use, and at least one if the
\* result is not empty.
LEMMA Found ==
    ASSUME NEW used \in SUBSET Frames, NEW n \in Nat \ {0}
    PROVE  LET fs == find_alloc_nframes(used, n)
           IN  /\ \A i \in DOMAIN fs : i \in Nat \ {0} /\ i <= n /\ fs[i] \in Frames \ used
               /\ fs # <<>> => 1 \in DOMAIN fs
<1> DEFINE group == Min({n, MAX_BUDDY_SIZE})
           free == FreeGroups(used, group)
           found == {f \in free : \A g \in free : g \div BIT_FRAME_SIZE = f \div BIT_FRAME_SIZE => f <= g}
           c == Min({n \div group, Cardinality(found)})
           fs == find_alloc_nframes(used, n)
           first(k) == CHOOSE f \in found : Cardinality({g \in found : g < f}) = k
<1>1. group \in Nat \ {0}
  <2>1. {n, MAX_BUDDY_SIZE} \in SUBSET Nat /\ {n, MAX_BUDDY_SIZE} # {} /\ 0 \notin {n, MAX_BUDDY_SIZE}
    BY SpaceAssumption
  <2>2. group \in {n, MAX_BUDDY_SIZE}
    BY <2>1, MinOf
  <2> QED
    BY <2>1, <2>2
<1>2. fs = [i \in 1 .. group * c |-> first((i - 1) \div group) + ((i - 1) % group)]
  BY DEF find_alloc_nframes
<1>3. \A f \in found : f \in Frames /\ (f .. f + group - 1) \subseteq Frames \ used
  BY DEF FreeGroups
<1> HIDE DEF group, found, fs
<1>4. IsFiniteSet(found) /\ Cardinality(found) \in Nat /\ found \in SUBSET Nat
  <2>1. IsFiniteSet(Frames) /\ found \subseteq Frames /\ Frames \subseteq Nat
    <3>1. 0 \in Int /\ NFrames - 1 \in Int
      BY Constants
    <3>2. IsFiniteSet(Frames)
      BY <3>1, FS_Interval DEF Frames
    <3> QED
      BY <1>3, <3>1, <3>2 DEF Frames
  <2> QED
    BY <2>1, FS_Subset, FS_CardinalityType
<1>5. PICK q \in Nat : q = n \div group /\ group * q <= n
  BY <1>1
<1>6. c \in Nat /\ c <= q /\ c <= Cardinality(found)
  <2>1. {q, Cardinality(found)} \in SUBSET Nat /\ {q, Cardinality(found)} # {}
    BY <1>4
  <2>2. c = Min({q, Cardinality(found)})
    BY <1>5
  <2>3. c \in {q, Cardinality(found)} /\ \A y \in {q, Cardinality(found)} : c <= y
    BY <2>1, <2>2, MinOf
  <2> QED
    BY <1>4, <2>3
<1> HIDE DEF c
<1>7. group * c \in Nat /\ group * c <= n
  BY <1>1, <1>5, <1>6, Products
<1>8. ASSUME NEW i \in DOMAIN fs PROVE i \in Nat \ {0} /\ i <= n /\ fs[i] \in Frames \ used
  <2>1. i \in Nat \ {0} /\ i <= group * c /\ i <= n
    BY <1>2, <1>7
  <2>2. PICK k \in Nat, r \in 0 .. group - 1 :
            k = (i - 1) \div group /\ r = (i - 1) % group /\ k < c
    BY <1>1, <1>6, <2>1, Quotient
  <2>3. k + 1 \in 1 .. Cardinality(found) /\ (k + 1) - 1 = k
    BY <1>4, <1>6, <2>2
  <2>4. \E f \in found : Cardinality({g \in found : g < f}) = k
    BY <1>4, <2>3, NthSmallest
  <2>5. PICK f \in found : f = first(k)
    BY <2>4
  <2>6. fs[i] = f + r
    BY <1>2, <2>2, <2>5
  <2>7. f + r \in f .. f + group - 1
    BY <1>1, <1>4, <2>2
  <2> QED
    BY <1>3, <2>1, <2>5, <2>6, <2>7
<1>9. ASSUME 1 \notin DOMAIN fs PROVE fs = <<>>
  <2>1. 1 .. group * c = {}
    BY <1>2, <1>7, <1>9
  <2> QED
    BY <1>2, <2>1
<1> QED
  BY <1>8, <1>9 DEF fs

\* A block that the buddy allocator finds is in its range and free.
LEMMA BlockFound ==
    ASSUME NEW start \in Nat, NEW limit \in Nat, NEW taken, NEW n, BlockPages(n) \in Nat \ {0},
           NEW v \in Nat, start <= v, v + BlockPages(n) <= limit, (v - start) % BlockPages(n) = 0,
           (v .. v + BlockPages(n) - 1) \cap taken = {}
    PROVE  LET b == buddy_alloc_frames(start, limit, taken, n)
           IN  /\ b \in Nat /\ start <= b /\ b <= v
               /\ (b .. b + BlockPages(n) - 1) \cap taken = {}
<1> DEFINE size == BlockPages(n)
           found == {w \in start .. limit - size :
                        (w - start) % size = 0 /\ (w .. w + size - 1) \cap taken = {}}
<1>1. v \in found /\ found \in SUBSET Nat
  OBVIOUS
<1>2. buddy_alloc_frames(start, limit, taken, n) = Min(found)
  BY <1>1 DEF buddy_alloc_frames
<1>3. Min(found) \in found /\ Min(found) <= v
  BY <1>1, MinOf
<1> QED
  BY <1>1, <1>2, <1>3

LEMMA OnePage == BlockPages(1) = 1
<1>1. {s \in {2 ^ k : k \in 0 .. 1} : s >= 1} = {1, 2}
  <2>1. 2 ^ 0 = 1 /\ 2 ^ 1 = 2 /\ 0 .. 1 = {0, 1}
    OBVIOUS
  <2>2. {2 ^ k : k \in {0, 1}} = {1, 2}
    BY <2>1
  <2> QED
    BY <2>1, <2>2
<1>2. Min({1, 2}) = 1
  <2>1. Min({1, 2}) \in {1, 2} /\ Min({1, 2}) <= 1
    BY MinOf
  <2> QED
    BY <2>1
<1> QED
  BY <1>1, <1>2 DEF BlockPages

\* The pages of kern_buddy's window: the RAM disk's block at its start, and one
\* more page behind it for copies.
LEMMA WindowBlocks ==
    /\ InitrdBlock \subseteq KernPages
    /\ kern_buddy = {} => KernBlock(Len(InitrdFrames)) = WindowStart
    /\ kern_buddy = InitrdBlock => KernBlock(1) \in KernPages \ InitrdBlock
<1> DEFINE B == BlockPages(Len(InitrdFrames))
<1>1. B \in Nat \ {0} /\ Len(InitrdFrames) <= B /\ B < PT_SIZE /\ Len(InitrdFrames) \in Nat
  BY BlockAssumption, Constants
<1>2. /\ WindowStart \in Nat /\ KernPages = WindowStart .. WindowStart + PT_SIZE - 1 /\ PT_SIZE \in Nat \ {0}
      /\ InitrdBlock = WindowStart .. WindowStart + B - 1
  BY PageSlots, Constants DEF InitrdBlock
<1>3. Min(KernPages) = WindowStart /\ Max(KernPages) + 1 = WindowStart + PT_SIZE
  <2>1. WindowStart \in KernPages /\ \A y \in KernPages : WindowStart <= y
    BY <1>2
  <2>2. WindowStart + PT_SIZE - 1 \in KernPages /\ \A y \in KernPages : WindowStart + PT_SIZE - 1 >= y
    BY <1>2
  <2>3. \A y \in KernPages : y \in Nat
    BY <1>2
  <2>4. Min(KernPages) = WindowStart
    BY <2>1, <2>3 DEF Min
  <2>5. Max(KernPages) = WindowStart + PT_SIZE - 1
    BY <2>2, <2>3 DEF Max
  <2> QED
    BY <1>2, <2>4, <2>5
<1> HIDE DEF B
<1>4. ASSUME kern_buddy = {} PROVE KernBlock(Len(InitrdFrames)) = WindowStart
  <2>1. (WindowStart - WindowStart) % B = 0
    BY <1>1, <1>2
  <2>2. LET b == buddy_alloc_frames(WindowStart, WindowStart + PT_SIZE, kern_buddy, Len(InitrdFrames))
        IN  b \in Nat /\ WindowStart <= b /\ b <= WindowStart
    BY <1>1, <1>2, <1>4, <2>1, BlockFound DEF B
  <2> QED
    BY <1>2, <1>3, <2>2 DEF KernBlock
<1>5. ASSUME kern_buddy = InitrdBlock PROVE KernBlock(1) \in KernPages \ InitrdBlock
  <2>1. PICK v \in Nat : v = WindowStart + B
    BY <1>1, <1>2
  <2>2. /\ BlockPages(1) \in Nat \ {0} /\ (v - WindowStart) % BlockPages(1) = 0 /\ WindowStart <= v
        /\ v + BlockPages(1) <= WindowStart + PT_SIZE /\ WindowStart + PT_SIZE \in Nat
        /\ (v .. v + BlockPages(1) - 1) \cap kern_buddy = {}
    BY <1>1, <1>2, <1>5, <2>1, OnePage
  <2>3. LET b == buddy_alloc_frames(WindowStart, WindowStart + PT_SIZE, kern_buddy, 1)
        IN  b \in Nat /\ WindowStart <= b /\ b <= v /\ (b .. b + 1 - 1) \cap kern_buddy = {}
    BY <1>1, <1>2, <2>1, <2>2, BlockFound, OnePage
  <2> QED
    BY <1>1, <1>2, <1>3, <1>5, <2>1, <2>3 DEF KernBlock
<1>6. InitrdBlock \subseteq KernPages
  BY <1>1, <1>2
<1> QED
  BY <1>4, <1>5, <1>6

----------------------------------------------------------------------------
\* The operations that the actions are made of.

LEMMA NewMemory == ASSUME NEW r \in Memory, SetVM(r) PROVE VM' = r
  BY DEF SetVM, VM, Memory

\* knmmap marks what it enters.
LEMMA MapEffect ==
    ASSUME NEW vm, Sound(vm), NEW dir \in DOMAIN vm.dirs, NEW v \in Nat, v \div PT_SIZE \in Slots,
           NEW flags \in Flags, NEW fs, \A i \in DOMAIN fs : fs[i] \in Frames
    PROVE  LET r == MapFrames(vm, dir, v, fs, flags)
           IN  /\ Effect(vm, r, dir, v, fs, flags) /\ r.frames = vm.frames \cup Range(fs)
               /\ \A i \in DOMAIN fs : fs[i] \in r.frames
<1> DEFINE w == [vm EXCEPT !.frames = @ \cup Range(fs)]
           r == SetEntries(map_alloc_pt(w, dir, v \div PT_SIZE, flags), dir, v, fs, flags)
<1>1. /\ w \in Memory /\ w.tables = vm.tables /\ w.dirs = vm.dirs
      /\ w.frames = vm.frames \cup Range(fs) /\ vm \in Memory
  BY DEF Sound, Memory, Range
<1>2. MapFrames(vm, dir, v, fs, flags) = r
  BY DEF MapFrames
<1> HIDE DEF w
<1>3. "PRESENT" \in SlotFlags(w, dir, v \div PT_SIZE) => Virt(w, dir, v \div PT_SIZE) \in 1 .. Len(w.tables)
  BY <1>1 DEF Sound, SlotFlags, Virt, NoTable
<1>4. Effect(w, r, dir, v, fs, flags) /\ r.frames = w.frames
  BY <1>1, <1>3, PlaceEffect
<1> HIDE DEF r
<1>5. Effect(vm, r, dir, v, fs, flags)
  <2>1. /\ \A d, s : SlotFlags(w, d, s) = SlotFlags(vm, d, s) /\ Virt(w, d, s) = Virt(vm, d, s)
        /\ \A i, j : Pte(w, i, j) = Pte(vm, i, j)
    BY <1>1 DEF SlotFlags, Virt, Pte
  <2> QED
    BY <1>1, <1>4, <2>1 DEF Effect
<1>6. \A i \in DOMAIN fs : fs[i] \in r.frames
  BY <1>1, <1>4 DEF Range
<1> QED
  BY <1>1, <1>2, <1>4, <1>5, <1>6

\* The clone is about to begin: a directory with no tables.
LEMMA AppendDir ==
    ASSUME NEW vm, Sound(vm), NEW cur \in DOMAIN vm.dirs, Separate(vm, cur)
    PROVE  LET r == [vm EXCEPT !.dirs = Append(@, NewDir)]
           IN  /\ Sound(r) /\ Separate(r, cur) /\ Len(r.dirs) = Len(vm.dirs) + 1
               /\ r.tables = vm.tables /\ r.frames = vm.frames
               /\ \A d \in DOMAIN vm.dirs : r.dirs[d] = vm.dirs[d]
<1> DEFINE r == [vm EXCEPT !.dirs = Append(@, NewDir)]
           k == Len(vm.dirs) + 1
<1>0. vm \in Memory
  BY DEF Sound
<1>1. NewDir \in Dir /\ vm.dirs \in Seq(Dir)
  <2>1. NewDir.tables \in SlotMap /\ NewDir.virt \in VirtMap
    BY DEF NewDir, SlotMap, VirtMap, Flags, NoTable
  <2> QED
    BY <1>0, <2>1 DEF Dir, NewDir, Memory
<1>2. /\ r \in Memory /\ r.tables = vm.tables /\ r.frames = vm.frames /\ r.dirs = Append(vm.dirs, NewDir)
  <2> DEFINE ds == Append(vm.dirs, NewDir)
  <2>1. ds \in Seq(Dir)
    BY <1>1
  <2>2. r = [vm EXCEPT !.dirs = ds]
    OBVIOUS
  <2> HIDE DEF ds
  <2>3. r \in Memory /\ r.tables = vm.tables /\ r.frames = vm.frames /\ r.dirs = ds
    BY <1>0, <2>1, <2>2 DEF Memory
  <2> QED
    BY <2>3 DEF ds
<1>3. /\ Len(r.dirs) = k /\ k \in Nat /\ DOMAIN vm.dirs = 1 .. k - 1 /\ DOMAIN r.dirs = 1 .. k
      /\ r.dirs[k] = NewDir /\ \A d \in DOMAIN vm.dirs : r.dirs[d] = vm.dirs[d]
  BY <1>1, <1>2
<1> HIDE DEF r, k
<1>4. /\ \A s \in Slots : Virt(r, k, s) = NoTable /\ SlotFlags(r, k, s) = {}
      /\ \A d \in DOMAIN vm.dirs, s \in Slots :
            Virt(r, d, s) = Virt(vm, d, s) /\ SlotFlags(r, d, s) = SlotFlags(vm, d, s)
      /\ \A i, j : Pte(r, i, j) = Pte(vm, i, j)
      /\ \A d \in DOMAIN r.dirs : d = k \/ d \in DOMAIN vm.dirs
      /\ cur \in DOMAIN vm.dirs /\ cur # k
  BY <1>2, <1>3 DEF Virt, SlotFlags, Pte, NewDir
<1>5. Sound(r)
  <2>1. \A d \in DOMAIN r.dirs, s \in Slots :
            /\ Virt(r, d, s) \in 0 .. Len(r.tables)
            /\ "PRESENT" \in SlotFlags(r, d, s) => Virt(r, d, s) # NoTable
    <3>1. Len(vm.tables) \in Nat
      BY <1>0, Lengths
    <3>2. NoTable \in 0 .. Len(vm.tables)
      BY <3>1 DEF NoTable
    <3> QED
      BY <1>2, <1>4, <3>2 DEF Sound
  <2>2. \A d, e \in DOMAIN r.dirs, s, t \in Slots :
            Virt(r, d, s) = Virt(r, e, t) /\ Virt(r, d, s) # NoTable => s = t
    BY <1>4 DEF Sound
  <2>3. /\ \A i \in DOMAIN r.tables, j \in Entries :
              "PRESENT" \in Pte(r, i, j).flags => Pte(r, i, j).frame \in r.frames
        /\ BootFrames \subseteq r.frames
    BY <1>2, <1>4 DEF Sound
  <2> QED
    BY <1>2, <2>1, <2>2, <2>3 DEF Sound
<1>6. Separate(r, cur)
  <2>1. \A i, j \in DOMAIN r.tables, a, b \in Entries :
          Private \subseteq Pte(r, i, a).flags /\ Private \subseteq Pte(r, j, b).flags /\ i # j
             => Pte(r, i, a).frame # Pte(r, j, b).frame
    BY <1>2, <1>4 DEF Separate
  <2>2. \A d, e \in DOMAIN r.dirs, s, t \in Slots, j \in Entries :
          Virt(r, d, s) = Virt(r, e, t) /\ Virt(r, d, s) # NoTable /\ d # e
             => ~(Private \subseteq Pte(r, Virt(r, d, s), j).flags)
    BY <1>4 DEF Separate
  <2>3. \A s \in Slots, j \in Entries :
          Virt(r, cur, s) # NoTable /\ Private \subseteq Pte(r, Virt(r, cur, s), j).flags
             => Private \subseteq SlotFlags(r, cur, s)
    BY <1>4 DEF Separate
  <2> QED
    BY <2>1, <2>2, <2>3 DEF Separate
<1> QED
  BY <1>2, <1>3, <1>5, <1>6 DEF r, k

\* What the directory in use maps does not depend on other directories, nor on
\* tables that it does not have.
LEMMA SameView ==
    ASSUME NEW vm, NEW r, NEW cur, vm.frames \subseteq r.frames,
           \A s \in Slots : Virt(r, cur, s) = Virt(vm, cur, s) /\ SlotFlags(r, cur, s) = SlotFlags(vm, cur, s),
           \A s \in Slots, j \in Entries :
              Virt(vm, cur, s) # NoTable => Pte(r, Virt(vm, cur, s), j) = Pte(vm, Virt(vm, cur, s), j)
    PROVE  /\ \A f : Elsewhere(vm, cur, f) => Elsewhere(r, cur, f)
           /\ Sound(vm) /\ cur \in DOMAIN vm.dirs =>
                \A m : m[1] \in Nat /\ m[1] \div PT_SIZE \in Slots /\ Reaches(vm, cur, m) => Reaches(r, cur, m)
<1>1. ASSUME NEW f, Elsewhere(vm, cur, f) PROVE Elsewhere(r, cur, f)
  BY <1>1 DEF Elsewhere
<1>2. ASSUME Sound(vm), cur \in DOMAIN vm.dirs, NEW m, m[1] \in Nat, m[1] \div PT_SIZE \in Slots, Reaches(vm, cur, m)
      PROVE  Reaches(r, cur, m)
  <2>1. Virt(vm, cur, m[1] \div PT_SIZE) # NoTable /\ m[1] % PT_SIZE \in Entries
    BY <1>2, Pages DEF Sound, Reaches
  <2> QED
    BY <1>2, <2>1 DEF Reaches
<1> QED
  BY <1>1, <1>2

\* An entry of a table that no directory has is written.
LEMMA OrphanEntry ==
    ASSUME NEW vm, Sound(vm), NEW cur \in DOMAIN vm.dirs, Separate(vm, cur),
           NEW x \in DOMAIN vm.tables, \A d \in DOMAIN vm.dirs, s \in Slots : Virt(vm, d, s) # x,
           NEW k \in Entries, NEW e, NEW r \in Memory, r.dirs = vm.dirs, Len(r.tables) = Len(vm.tables),
           vm.frames \subseteq r.frames,
           \A i \in DOMAIN vm.tables, j \in Entries :
              Pte(r, i, j) = IF i = x /\ j = k THEN e ELSE Pte(vm, i, j),
           "PRESENT" \in e.flags => e.frame \in r.frames,
           Private \subseteq e.flags =>
              \A i \in DOMAIN vm.tables, j \in Entries :
                 i # x /\ Private \subseteq Pte(vm, i, j).flags => Pte(vm, i, j).frame # e.frame
    PROVE  /\ Sound(r) /\ Separate(r, cur)
           /\ \A f : Elsewhere(vm, cur, f) => Elsewhere(r, cur, f)
           /\ \A m : m[1] \in Nat /\ m[1] \div PT_SIZE \in Slots /\ Reaches(vm, cur, m) => Reaches(r, cur, m)
<1>1. /\ vm \in Memory /\ DOMAIN r.tables = DOMAIN vm.tables
      /\ \A d, s : Virt(r, d, s) = Virt(vm, d, s) /\ SlotFlags(r, d, s) = SlotFlags(vm, d, s)
  BY Lengths DEF Sound, Virt, SlotFlags
<1>2. \A d \in DOMAIN vm.dirs, s \in Slots : Virt(vm, d, s) # NoTable => Virt(vm, d, s) \in DOMAIN vm.tables
  BY <1>1, Lengths DEF Sound, NoTable
<1>3. \A d \in DOMAIN vm.dirs, s \in Slots, j \in Entries :
          Virt(vm, d, s) # NoTable => Pte(r, Virt(vm, d, s), j) = Pte(vm, Virt(vm, d, s), j)
  BY <1>2
<1>4. Sound(r)
  <2>1. \A i \in DOMAIN r.tables, j \in Entries :
              "PRESENT" \in Pte(r, i, j).flags => Pte(r, i, j).frame \in r.frames
    BY <1>1 DEF Sound
  <2> QED
    BY <1>1, <2>1 DEF Sound
<1>5. Separate(r, cur)
  <2>1. \A i, j \in DOMAIN r.tables, a, b \in Entries :
          Private \subseteq Pte(r, i, a).flags /\ Private \subseteq Pte(r, j, b).flags /\ i # j
             => Pte(r, i, a).frame # Pte(r, j, b).frame
    BY <1>1 DEF Separate
  <2>2. \A d, f \in DOMAIN r.dirs, s, t \in Slots, j \in Entries :
          Virt(r, d, s) = Virt(r, f, t) /\ Virt(r, d, s) # NoTable /\ d # f
             => ~(Private \subseteq Pte(r, Virt(r, d, s), j).flags)
    BY <1>1, <1>3 DEF Separate
  <2>3. \A s \in Slots, j \in Entries :
          Virt(r, cur, s) # NoTable /\ Private \subseteq Pte(r, Virt(r, cur, s), j).flags
             => Private \subseteq SlotFlags(r, cur, s)
    BY <1>1, <1>3 DEF Separate
  <2> QED
    BY <2>1, <2>2, <2>3 DEF Separate
<1> QED
  BY <1>1, <1>3, <1>4, <1>5, SameView

\* An empty table is allocated.
LEMMA AppendTable ==
    ASSUME NEW vm, Sound(vm), NEW cur \in DOMAIN vm.dirs, Separate(vm, cur)
    PROVE  LET r == [vm EXCEPT !.tables = Append(@, [j \in Entries |-> Absent])]
           IN  /\ Sound(r) /\ Separate(r, cur)
               /\ r.dirs = vm.dirs /\ r.frames = vm.frames /\ Len(r.tables) = Len(vm.tables) + 1
               /\ \A f : Elsewhere(vm, cur, f) => Elsewhere(r, cur, f)
               /\ \A m : m[1] \in Nat /\ m[1] \div PT_SIZE \in Slots /\ Reaches(vm, cur, m) => Reaches(r, cur, m)
<1>0. vm \in Memory
  BY DEF Sound
<1> DEFINE n == Len(vm.tables)
           r == [vm EXCEPT !.tables = Append(@, [j \in Entries |-> Absent])]
<1>1. /\ r \in Memory /\ r.dirs = vm.dirs /\ r.frames = vm.frames /\ n \in Nat
      /\ Len(r.tables) = n + 1 /\ DOMAIN r.tables = 1 .. n + 1 /\ DOMAIN vm.tables = 1 .. n
      /\ r.tables[n + 1] = [j \in Entries |-> Absent] /\ \A i \in 1 .. n : r.tables[i] = vm.tables[i]
  <2> DEFINE ts == Append(vm.tables, [j \in Entries |-> Absent])
  <2>1. vm.tables \in Seq(Table)
    BY <1>0 DEF Memory, TableSeq
  <2>2. /\ ts \in Seq(Table) /\ n \in Nat
        /\ Len(ts) = n + 1 /\ DOMAIN ts = 1 .. n + 1 /\ DOMAIN vm.tables = 1 .. n
        /\ ts[n + 1] = [j \in Entries |-> Absent] /\ \A i \in 1 .. n : ts[i] = vm.tables[i]
    BY <2>1, AbsentEntry
  <2>3. r = [vm EXCEPT !.tables = ts]
    OBVIOUS
  <2> HIDE DEF ts
  <2>4. r \in Memory /\ r.dirs = vm.dirs /\ r.frames = vm.frames /\ r.tables = ts
    BY <1>0, <2>2, <2>3 DEF Memory, TableSeq
  <2> QED
    BY <2>2, <2>4
<1> HIDE DEF n, r
<1>2. /\ \A d, s : Virt(r, d, s) = Virt(vm, d, s) /\ SlotFlags(r, d, s) = SlotFlags(vm, d, s)
      /\ \A i \in 1 .. n, j \in Entries : Pte(r, i, j) = Pte(vm, i, j)
      /\ \A j \in Entries : Pte(r, n + 1, j) = Absent
      /\ \A i \in DOMAIN r.tables : i = n + 1 \/ i \in 1 .. n
  BY <1>1 DEF Virt, SlotFlags, Pte
<1>3. \A d \in DOMAIN vm.dirs, s \in Slots :
          Virt(vm, d, s) \in 0 .. n /\ (Virt(vm, d, s) # NoTable => Virt(vm, d, s) \in 1 .. n)
  BY <1>1 DEF Sound, NoTable, n
<1>4. \A d \in DOMAIN vm.dirs, s \in Slots, j \in Entries :
          Virt(vm, d, s) # NoTable => Pte(r, Virt(vm, d, s), j) = Pte(vm, Virt(vm, d, s), j)
  BY <1>2, <1>3
<1>5. Sound(r)
  <2>1. \A i \in DOMAIN r.tables, j \in Entries :
              "PRESENT" \in Pte(r, i, j).flags => Pte(r, i, j).frame \in r.frames
    BY <1>1, <1>2 DEF Sound, Absent
  <2>2. \A d \in DOMAIN r.dirs, s \in Slots : Virt(r, d, s) \in 0 .. Len(r.tables)
    BY <1>1, <1>2, <1>3
  <2> QED
    BY <1>1, <1>2, <2>1, <2>2 DEF Sound
<1>6. Separate(r, cur)
  <2>1. \A i, j \in DOMAIN r.tables, a, b \in Entries :
          Private \subseteq Pte(r, i, a).flags /\ Private \subseteq Pte(r, j, b).flags /\ i # j
             => Pte(r, i, a).frame # Pte(r, j, b).frame
    BY <1>1, <1>2 DEF Separate, Absent, Private
  <2>2. \A d, f \in DOMAIN r.dirs, s, t \in Slots, j \in Entries :
          Virt(r, d, s) = Virt(r, f, t) /\ Virt(r, d, s) # NoTable /\ d # f
             => ~(Private \subseteq Pte(r, Virt(r, d, s), j).flags)
    BY <1>1, <1>2, <1>4 DEF Separate
  <2>3. \A s \in Slots, j \in Entries :
          Virt(r, cur, s) # NoTable /\ Private \subseteq Pte(r, Virt(r, cur, s), j).flags
             => Private \subseteq SlotFlags(r, cur, s)
    BY <1>1, <1>2, <1>4 DEF Separate
  <2> QED
    BY <2>1, <2>2, <2>3 DEF Separate
<1>7. /\ \A f : Elsewhere(vm, cur, f) => Elsewhere(r, cur, f)
      /\ \A m : m[1] \in Nat /\ m[1] \div PT_SIZE \in Slots /\ Reaches(vm, cur, m) => Reaches(r, cur, m)
  BY <1>1, <1>2, <1>4, SameView
<1> QED
  BY <1>1, <1>5, <1>6, <1>7 DEF n, r

\* The memory vm with a slot of a directory filled.
Filled(vm, dir, slot, t0, x) ==
    [vm EXCEPT !.dirs = [@ EXCEPT ![dir].tables[slot] = t0, ![dir].virt[slot] = x]]

\* A slot of a directory that is not in use is filled: with a table that is in
\* the same slot elsewhere and has no user pages, or is nowhere else.
LEMMA FillSlot ==
    ASSUME NEW vm, Sound(vm), NEW cur \in DOMAIN vm.dirs, Separate(vm, cur),
           NEW dir \in DOMAIN vm.dirs, dir # cur, NEW slot \in Slots,
           NEW t0 \in [pt : Nat, flags : Flags], NEW x \in 0 .. Len(vm.tables),
           "PRESENT" \in t0.flags => x # NoTable,
           \A d \in DOMAIN vm.dirs, s \in Slots :
              Virt(vm, d, s) = x /\ x # NoTable =>
                  s = slot /\ \A j \in Entries : ~(Private \subseteq Pte(vm, x, j).flags)
    PROVE  LET r == Filled(vm, dir, slot, t0, x) IN
           /\ Sound(r) /\ Separate(r, cur)
           /\ r.tables = vm.tables /\ r.frames = vm.frames /\ DOMAIN r.dirs = DOMAIN vm.dirs
           /\ Virt(r, dir, slot) = x /\ SlotFlags(r, dir, slot) = t0.flags
           /\ \A d \in DOMAIN vm.dirs, s \in Slots : d # dir \/ s # slot =>
                 Virt(r, d, s) = Virt(vm, d, s) /\ SlotFlags(r, d, s) = SlotFlags(vm, d, s)
           /\ \A f : Elsewhere(vm, cur, f) => Elsewhere(r, cur, f)
           /\ \A m : m[1] \in Nat /\ m[1] \div PT_SIZE \in Slots /\ Reaches(vm, cur, m) => Reaches(r, cur, m)
<1> DEFINE dd == vm.dirs[dir]
           T == [dd.tables EXCEPT ![slot] = t0]
           V == [dd.virt EXCEPT ![slot] = x]
           r == Filled(vm, dir, slot, t0, x)
<1>0. vm \in Memory /\ Len(vm.tables) \in Nat
  BY Lengths DEF Sound
<1>1. vm.dirs \in Seq(Dir) /\ dd \in Dir /\ vm.tables \in TableSeq
  BY <1>0 DEF Memory
<1>2. dd.tables \in SlotMap /\ dd.virt \in VirtMap
  BY <1>1 DEF Dir
<1>3. /\ T \in SlotMap /\ T[slot] = t0 /\ V \in VirtMap /\ V[slot] = x
      /\ \A s \in Slots : s # slot => T[s] = dd.tables[s] /\ V[s] = dd.virt[s]
  BY <1>0, <1>2 DEF SlotMap, VirtMap
<1>4. r = Updated(vm, dir, vm.tables, T, V)
  BY <1>0, <1>1, <1>2 DEF Filled, Updated, Memory, Dir
<1> HIDE DEF T, V, dd, r
<1>5. /\ r \in Memory /\ r.frames = vm.frames /\ r.tables = vm.tables
      /\ DOMAIN r.dirs = DOMAIN vm.dirs
      /\ r.dirs[dir].tables = T /\ r.dirs[dir].virt = V
      /\ \A d \in DOMAIN vm.dirs : d # dir => r.dirs[d] = vm.dirs[d]
  BY <1>0, <1>1, <1>3, <1>4, UpdateDir
<1>6. /\ Virt(r, dir, slot) = x /\ SlotFlags(r, dir, slot) = t0.flags
      /\ \A d \in DOMAIN vm.dirs, s \in Slots : d # dir \/ s # slot =>
            Virt(r, d, s) = Virt(vm, d, s) /\ SlotFlags(r, d, s) = SlotFlags(vm, d, s)
      /\ \A i, j : Pte(r, i, j) = Pte(vm, i, j)
  BY <1>3, <1>5 DEF Virt, SlotFlags, Pte, dd
<1>7. Sound(r)
  <2>1. \A d \in DOMAIN r.dirs, s \in Slots :
            /\ Virt(r, d, s) \in 0 .. Len(r.tables)
            /\ "PRESENT" \in SlotFlags(r, d, s) => Virt(r, d, s) # NoTable
    BY <1>5, <1>6 DEF Sound
  <2>2. \A d, e \in DOMAIN r.dirs, s, t \in Slots :
            Virt(r, d, s) = Virt(r, e, t) /\ Virt(r, d, s) # NoTable => s = t
    BY <1>5, <1>6, SMTT(30) DEF Sound
  <2> QED
    BY <1>5, <1>6, <2>1, <2>2 DEF Sound
<1>8. Separate(r, cur)
  <2>1. \A i, j \in DOMAIN r.tables, a, b \in Entries :
          Private \subseteq Pte(r, i, a).flags /\ Private \subseteq Pte(r, j, b).flags /\ i # j
             => Pte(r, i, a).frame # Pte(r, j, b).frame
    BY <1>5, <1>6 DEF Separate
  <2>2. \A d, e \in DOMAIN r.dirs, s, t \in Slots, j \in Entries :
          Virt(r, d, s) = Virt(r, e, t) /\ Virt(r, d, s) # NoTable /\ d # e
             => ~(Private \subseteq Pte(r, Virt(r, d, s), j).flags)
    BY <1>5, <1>6 DEF Separate
  <2>3. \A s \in Slots, j \in Entries :
          Virt(r, cur, s) # NoTable /\ Private \subseteq Pte(r, Virt(r, cur, s), j).flags
             => Private \subseteq SlotFlags(r, cur, s)
    BY <1>5, <1>6 DEF Separate
  <2> QED
    BY <2>1, <2>2, <2>3 DEF Separate
<1>9. \A s \in Slots : Virt(r, cur, s) = Virt(vm, cur, s) /\ SlotFlags(r, cur, s) = SlotFlags(vm, cur, s)
  BY <1>6
<1>10. /\ \A f : Elsewhere(vm, cur, f) => Elsewhere(r, cur, f)
       /\ \A m : m[1] \in Nat /\ m[1] \div PT_SIZE \in Slots /\ Reaches(vm, cur, m) => Reaches(r, cur, m)
  BY <1>5, <1>6, <1>9, SameView
<1> QED
  BY <1>5, <1>6, <1>7, <1>8, <1>10 DEF r

\* knmunmap_contiguous takes PRESENT from one entry; what it gives back is no
\* frame.
LEMMA UnmapEffect ==
    ASSUME NEW vm, Sound(vm), NEW cur \in DOMAIN vm.dirs, NEW v \in KernPages,
           Virt(vm, cur, KernSlot) \in 1 .. Len(vm.tables)
    PROVE  LET r == knmunmap_contiguous(vm, cur, v)
               x == Virt(vm, cur, KernSlot)
           IN  /\ r \in Memory /\ r.dirs = vm.dirs /\ r.frames = vm.frames /\ Len(r.tables) = Len(vm.tables)
               /\ \A i \in DOMAIN vm.tables, j \in Entries : i # x \/ j # v % PT_SIZE => Pte(r, i, j) = Pte(vm, i, j)
               /\ Pte(r, x, v % PT_SIZE).flags = Pte(vm, x, v % PT_SIZE).flags \ {"PRESENT"}
<1> DEFINE k == v % PT_SIZE
           x == Virt(vm, cur, KernSlot)
           e == [vm.tables[x][k] EXCEPT !.flags = @ \ {"PRESENT"}]
           t == [vm.tables[x] EXCEPT ![k] = e]
           w == [vm EXCEPT !.tables[x] = t]
           r == knmunmap_contiguous(vm, cur, v)
<1>1. v \in Nat /\ v \div PT_SIZE = KernSlot /\ v \notin Frames /\ k \in Entries
  BY PageSlots, Pages
<1>2. vm \in Memory /\ vm.tables \in Seq(Table) /\ vm.frames \subseteq Frames /\ x \in DOMAIN vm.tables
  BY Lengths DEF Sound, Memory, TableSeq
<1>3. vm.tables[x] \in Table
  BY <1>2
<1>4. vm.tables[x][k] \in [frame : Frames, flags : Flags]
  BY <1>1, <1>3 DEF Table
<1>5. e \in [frame : Frames, flags : Flags] /\ e.flags = vm.tables[x][k].flags \ {"PRESENT"}
  BY <1>4 DEF Flags
<1>6. t \in Table /\ t[k] = e /\ \A j \in Entries : j # k => t[j] = vm.tables[x][j]
  BY <1>1, <1>3, <1>5 DEF Table
<1>7. r = [w EXCEPT !.frames = @ \ {v}]
  BY <1>1, <1>2, <1>3, <1>4 DEF knmunmap_contiguous, Virt, Memory, Table
<1> HIDE DEF t, e
<1>8. /\ w \in Memory /\ w.frames = vm.frames /\ w.dirs = vm.dirs
      /\ Len(w.tables) = Len(vm.tables) /\ w.tables[x] = t
      /\ \A i \in DOMAIN vm.tables : i # x => w.tables[i] = vm.tables[i]
  BY <1>2, <1>6, SetTable
<1> HIDE DEF w, r
<1>9. r \in Memory /\ r.dirs = w.dirs /\ r.tables = w.tables /\ r.frames = vm.frames
  BY <1>1, <1>2, <1>7, <1>8 DEF Memory
<1> HIDE DEF x, k
<1>10. \A i \in DOMAIN vm.tables, j \in Entries : i # x \/ j # k => Pte(r, i, j) = Pte(vm, i, j)
  BY <1>6, <1>8, <1>9 DEF Pte
<1>11. Pte(r, x, k).flags = Pte(vm, x, k).flags \ {"PRESENT"}
  BY <1>5, <1>6, <1>8, <1>9 DEF Pte
<1> QED
  BY <1>8, <1>9, <1>10, <1>11 DEF x, k, r

\* copy_page leaves the directory in use as it was but for its window.
LEMMA CopyEffect ==
    ASSUME NEW vm, Sound(vm), NEW cur \in DOMAIN vm.dirs, Separate(vm, cur),
           NEW v \in KernPages, NEW f \in vm.frames
    PROVE  LET r == knmunmap_contiguous(MapFrames(vm, cur, v, <<f>>, {"PRESENT"}), cur, v)
           IN  /\ Sound(r) /\ Separate(r, cur) /\ r.frames = vm.frames
               /\ DOMAIN r.dirs = DOMAIN vm.dirs /\ Len(r.tables) >= Len(vm.tables)
               /\ \A d \in DOMAIN vm.dirs, s \in Slots :
                     /\ Virt(r, d, s) \in {Virt(vm, d, s), Len(vm.tables) + 1}
                     /\ "PRESENT" \in SlotFlags(vm, d, s) => SlotFlags(vm, d, s) \subseteq SlotFlags(r, d, s)
               /\ \A g : Elsewhere(vm, cur, g) => Elsewhere(r, cur, g)
               /\ \A m : m[1] \in Nat /\ m[1] \div PT_SIZE \in Slots /\ m[1] # v /\ Reaches(vm, cur, m)
                     => Reaches(r, cur, m)
<1> DEFINE fs == <<f>>
           flags == {"PRESENT"}
           w == MapFrames(vm, cur, v, fs, flags)
           r == knmunmap_contiguous(w, cur, v)
           x == Virt(w, cur, KernSlot)
           k == v % PT_SIZE
           n == Len(vm.tables)
           old == "PRESENT" \in SlotFlags(vm, cur, KernSlot)
<1>1. v \in Nat /\ v \div PT_SIZE = KernSlot /\ k \in Entries /\ KernSlot \in Slots
  BY PageSlots, Pages, Constants
<1>2. DOMAIN fs = {1} /\ fs[1] = f /\ f \in Frames /\ flags \in Flags
  BY Lengths DEF Sound, Flags
<1> HIDE DEF fs, flags
<1>3. Effect(vm, w, cur, v, fs, flags) /\ w.frames = vm.frames \cup Range(fs) /\ \A i \in DOMAIN fs : fs[i] \in w.frames
  BY <1>1, <1>2, MapEffect
<1> HIDE DEF w
<1>4. w.frames = vm.frames
  BY <1>2, <1>3 DEF Range
<1>5. Sound(w)
  BY <1>1, <1>2, <1>3, <1>4, EffectSound
<1>6. Separate(w, cur)
  <2>1. ~(Private \subseteq flags)
    BY DEF Private, flags
  <2> QED
    BY <1>1, <1>3, <2>1, EffectSeparate
<1>7. /\ w \in Memory /\ vm \in Memory /\ DOMAIN w.dirs = DOMAIN vm.dirs /\ n \in Nat
      /\ Len(w.tables) \in Nat /\ DOMAIN w.tables = 1 .. Len(w.tables)
      /\ Len(w.tables) = (IF old THEN n ELSE n + 1)
      /\ x = (IF old THEN Virt(vm, cur, KernSlot) ELSE n + 1)
  BY <1>1, <1>3, <1>5, Lengths DEF Effect, Sound
<1>8. x \in 1 .. Len(w.tables)
  <2>1. old => Virt(vm, cur, KernSlot) \in 0 .. n /\ Virt(vm, cur, KernSlot) # NoTable
    BY <1>1 DEF Sound
  <2> QED
    BY <1>7, <2>1 DEF NoTable
<1>9. /\ r \in Memory /\ r.dirs = w.dirs /\ r.frames = w.frames /\ Len(r.tables) = Len(w.tables)
      /\ \A i \in DOMAIN w.tables, j \in Entries : i # x \/ j # k => Pte(r, i, j) = Pte(w, i, j)
      /\ Pte(r, x, k).flags = Pte(w, x, k).flags \ {"PRESENT"}
  BY <1>5, <1>7, <1>8, UnmapEffect, ZenonT(30)
<1> HIDE DEF r, x, k
<1>10. /\ \A d, s : Virt(r, d, s) = Virt(w, d, s) /\ SlotFlags(r, d, s) = SlotFlags(w, d, s)
       /\ DOMAIN r.tables = DOMAIN w.tables
       /\ \A i \in DOMAIN w.tables, j \in Entries :
             /\ Pte(r, i, j).flags \subseteq Pte(w, i, j).flags
             /\ "PRESENT" \in Pte(r, i, j).flags => Pte(r, i, j) = Pte(w, i, j)
  BY <1>1, <1>7, <1>9, Lengths DEF Virt, SlotFlags
<1>11. Sound(r)
  BY <1>5, <1>9, <1>10 DEF Sound
<1>12. \A d \in DOMAIN w.dirs, s \in Slots : Virt(w, d, s) # NoTable => Virt(w, d, s) \in DOMAIN w.tables
  BY <1>5, <1>7 DEF Sound, NoTable
<1>13. Separate(r, cur)
  <2>0. "PRESENT" \in Private
    BY DEF Private
  <2>1. \A i, j \in DOMAIN r.tables, a, b \in Entries :
          Private \subseteq Pte(r, i, a).flags /\ Private \subseteq Pte(r, j, b).flags /\ i # j
             => Pte(r, i, a).frame # Pte(r, j, b).frame
    BY <1>6, <1>10, <2>0 DEF Separate
  <2>2. \A d, e \in DOMAIN r.dirs, s, t \in Slots, j \in Entries :
          Virt(r, d, s) = Virt(r, e, t) /\ Virt(r, d, s) # NoTable /\ d # e
             => ~(Private \subseteq Pte(r, Virt(r, d, s), j).flags)
    BY <1>6, <1>9, <1>10, <1>12, <2>0 DEF Separate
  <2>3. \A s \in Slots, j \in Entries :
          Virt(r, cur, s) # NoTable /\ Private \subseteq Pte(r, Virt(r, cur, s), j).flags
             => Private \subseteq SlotFlags(r, cur, s)
    BY <1>6, <1>7, <1>9, <1>10, <1>12, <2>0 DEF Separate
  <2> QED
    BY <2>1, <2>2, <2>3 DEF Separate
<1>14. \A d \in DOMAIN vm.dirs, s \in Slots : d # cur \/ s # KernSlot =>
          Virt(w, d, s) = Virt(vm, d, s) /\ SlotFlags(w, d, s) = SlotFlags(vm, d, s)
  BY <1>1, <1>3 DEF Effect
<1>15. \A d \in DOMAIN vm.dirs, s \in Slots :
          /\ Virt(r, d, s) \in {Virt(vm, d, s), n + 1}
          /\ "PRESENT" \in SlotFlags(vm, d, s) => SlotFlags(vm, d, s) \subseteq SlotFlags(r, d, s)
  <2>1. SlotFlags(w, cur, KernSlot) = IF old THEN SlotFlags(vm, cur, KernSlot) \cup flags ELSE flags
    BY <1>1, <1>3 DEF Effect
  <2> QED
    BY <1>7, <1>10, <1>14, <2>1 DEF x
<1>16. ASSUME NEW g, Elsewhere(vm, cur, g) PROVE Elsewhere(r, cur, g)
  <2>1. ASSUME NEW s \in Slots, NEW j \in Entries, Virt(r, cur, s) # NoTable,
               "PRESENT" \in Pte(r, Virt(r, cur, s), j).flags
        PROVE  Pte(r, Virt(r, cur, s), j).frame # g
    <3>1. CASE s = KernSlot
      <4>1. Virt(r, cur, s) = x
        BY <1>10, <3>1 DEF x
      <4>2. j # k
        BY <1>9, <2>1, <4>1
      <4>3. Pte(r, x, j) = Pte(w, x, j)
        BY <1>7, <1>8, <1>9, <4>2
      <4>4. Pte(w, x, j) = Written(fs, flags, v, j, IF old THEN Pte(vm, x, j) ELSE Absent)
        BY <1>1, <1>3 DEF Effect, x
      <4>5. j - (v % PT_SIZE) + 1 \notin DOMAIN fs
        <5>1. j \in Int /\ k \in Int
          BY <1>1, Constants DEF Entries
        <5> QED
          BY <1>2, <4>2, <5>1 DEF k
      <4>6. Pte(w, x, j) = IF old THEN Pte(vm, x, j) ELSE Absent
        BY <4>4, <4>5 DEF Written
      <4>7. old
        BY <2>1, <4>1, <4>3, <4>6 DEF Absent
      <4>8. x = Virt(vm, cur, KernSlot) /\ Virt(vm, cur, KernSlot) # NoTable
        BY <1>1, <1>7, <4>7 DEF Sound
      <4> QED
        BY <1>16, <2>1, <3>1, <4>1, <4>3, <4>6, <4>7, <4>8 DEF Elsewhere
    <3>2. CASE s # KernSlot
      <4>1. Virt(r, cur, s) = Virt(vm, cur, s) /\ Virt(w, cur, s) = Virt(vm, cur, s)
        BY <1>10, <1>14, <3>2
      <4>2. Virt(vm, cur, s) \in 1 .. n
        BY <2>1, <4>1 DEF Sound, NoTable
      <4>3. Virt(vm, cur, s) # x
        <5>1. Virt(w, cur, s) = Virt(w, cur, KernSlot) => s = KernSlot
          BY <1>1, <1>5, <1>7, <2>1, <4>1 DEF Sound
        <5> QED
          BY <3>2, <4>1, <5>1 DEF x
      <4>4. Pte(w, Virt(vm, cur, s), j) = Pte(vm, Virt(vm, cur, s), j)
        BY <1>1, <1>3, <4>2, <4>3 DEF Effect, x
      <4>5. Pte(r, Virt(vm, cur, s), j) = Pte(w, Virt(vm, cur, s), j)
        BY <1>7, <1>9, <1>12, <2>1, <4>1, <4>3
      <4> QED
        BY <1>16, <2>1, <4>1, <4>4, <4>5 DEF Elsewhere
    <3> QED
      BY <3>1, <3>2
  <2> QED
    BY <1>4, <1>9, <1>16, <2>1 DEF Elsewhere
<1>17. ASSUME NEW m, m[1] \in Nat, m[1] \div PT_SIZE \in Slots, m[1] # v, Reaches(vm, cur, m)
       PROVE  Reaches(r, cur, m)
  <2>1. \A i \in DOMAIN fs : m[1] # v + i - 1
    BY <1>1, <1>2, <1>17
  <2>2. Reaches(w, cur, m)
    BY <1>1, <1>3, <1>17, <2>1, EffectReaches
  <2>3. m[1] % PT_SIZE \in Entries /\ Virt(w, cur, m[1] \div PT_SIZE) # NoTable
    BY <1>5, <1>7, <1>17, <2>2, Pages DEF Reaches, Sound
  <2>4. Virt(w, cur, m[1] \div PT_SIZE) # x \/ m[1] % PT_SIZE # k
    <3>1. ASSUME Virt(w, cur, m[1] \div PT_SIZE) = x, m[1] % PT_SIZE = k PROVE FALSE
      <4>1. m[1] \div PT_SIZE = KernSlot
        BY <1>1, <1>5, <1>7, <1>17, <2>3, <3>1 DEF Sound, x
      <4>2. PICK z \in Int : z = KernSlot * PT_SIZE
        <5>1. KernSlot \in Nat /\ PT_SIZE \in Nat
          BY Constants
        <5> QED
          BY <5>1
      <4>3. m[1] % PT_SIZE = m[1] - z /\ v % PT_SIZE = v - z
        BY <1>1, <1>17, <4>1, <4>2, Pages
      <4> QED
        BY <1>1, <1>17, <3>1, <4>2, <4>3 DEF k
    <3> QED
      BY <3>1
  <2>5. Pte(r, Virt(w, cur, m[1] \div PT_SIZE), m[1] % PT_SIZE)
          = Pte(w, Virt(w, cur, m[1] \div PT_SIZE), m[1] % PT_SIZE)
    BY <1>7, <1>9, <1>12, <1>17, <2>3, <2>4
  <2> QED
    BY <1>10, <2>2, <2>5 DEF Reaches
<1>18. Len(r.tables) >= n
  BY <1>7, <1>9
<1> QED
  BY <1>4, <1>7, <1>9, <1>11, <1>13, <1>15, <1>16, <1>17, <1>18 DEF r, w, fs, flags

\* An entry is written into a table that the directory has.
LEMMA PresentEffect ==
    ASSUME NEW vm, Sound(vm), NEW dir \in DOMAIN vm.dirs, NEW v \in Nat, v \div PT_SIZE \in Slots,
           "PRESENT" \in SlotFlags(vm, dir, v \div PT_SIZE),
           NEW fs, \A i \in DOMAIN fs : fs[i] \in Frames
    PROVE  LET r == SetEntries([vm EXCEPT !.frames = @ \cup Range(fs)], dir, v, fs, {"PRESENT"})
           IN  /\ Effect(vm, r, dir, v, fs, {"PRESENT"}) /\ r.frames = vm.frames \cup Range(fs)
               /\ \A i \in DOMAIN fs : fs[i] \in r.frames
<1> DEFINE w == [vm EXCEPT !.frames = @ \cup Range(fs)]
           flags == {"PRESENT"}
           r == SetEntries(w, dir, v, fs, flags)
           x == Virt(vm, dir, v \div PT_SIZE)
<1>1. /\ w \in Memory /\ w.tables = vm.tables /\ w.dirs = vm.dirs
      /\ w.frames = vm.frames \cup Range(fs) /\ vm \in Memory
  BY DEF Sound, Memory, Range
<1>2. flags \in Flags
  BY DEF Flags
<1> HIDE DEF w, flags
<1>3. /\ \A d, s : SlotFlags(w, d, s) = SlotFlags(vm, d, s) /\ Virt(w, d, s) = Virt(vm, d, s)
      /\ \A i, j : Pte(w, i, j) = Pte(vm, i, j)
  BY <1>1 DEF SlotFlags, Virt, Pte
<1>4. x \in DOMAIN vm.tables /\ DOMAIN vm.tables = 1 .. Len(vm.tables)
  BY <1>1, Lengths DEF Sound, NoTable
<1>5. /\ r \in Memory /\ r.frames = w.frames /\ r.dirs = w.dirs
      /\ Len(r.tables) = Len(w.tables)
      /\ \A i \in DOMAIN w.tables, j \in Entries :
            Pte(r, i, j) = IF i = x THEN Written(fs, flags, v, j, Pte(w, x, j)) ELSE Pte(w, i, j)
  <2>1. Virt(w, dir, v \div PT_SIZE) = x /\ dir \in DOMAIN w.dirs /\ x \in DOMAIN w.tables
    BY <1>1, <1>3, <1>4
  <2> HIDE DEF x
  <2> QED
    BY <1>1, <1>2, <2>1, SetEntriesEffect
<1> HIDE DEF r
<1>6. \A d, s : SlotFlags(r, d, s) = SlotFlags(vm, d, s) /\ Virt(r, d, s) = Virt(vm, d, s)
  BY <1>1, <1>5 DEF SlotFlags, Virt
<1>7. SlotFlags(vm, dir, v \div PT_SIZE) \cup flags = SlotFlags(vm, dir, v \div PT_SIZE)
  BY DEF flags
<1>8. Effect(vm, r, dir, v, fs, flags)
  BY <1>1, <1>3, <1>4, <1>5, <1>6, <1>7 DEF Effect
<1>9. \A i \in DOMAIN fs : fs[i] \in r.frames
  BY <1>1, <1>5 DEF Range
<1> QED
  BY <1>1, <1>5, <1>8, <1>9 DEF r, w, flags

\* The blocks of init's file and stack are in the first table.
LEMMA UserBlocks ==
    LET file == UserBlock({}, FilePages)
        stack == UserBlock(file .. file + BlockPages(FilePages) - 1, USER_STACK_SIZE)
    IN  /\ file \in Nat /\ file \div PT_SIZE = 0 /\ 0 \in UserSlots
        /\ stack \in Nat /\ stack \div PT_SIZE = 0
<1> DEFINE F == BlockPages(FilePages)
           S == BlockPages(USER_STACK_SIZE)
           L == UserTables * PT_SIZE
           file == UserBlock({}, FilePages)
           stack == UserBlock(file .. file + F - 1, USER_STACK_SIZE)
<1>1. F \in Nat \ {0} /\ S \in Nat \ {0} /\ F <= MemStart /\ S <= MemStart /\ MemStart \in Nat \ {0}
  BY BlockAssumption, Constants
<1>2. L \in Nat /\ L >= PT_SIZE /\ PT_SIZE = 4 * MemStart
  BY Constants
<1> HIDE DEF L
<1>3. file = MemStart
  <2>1. (MemStart - MemStart) % F = 0 /\ MemStart + F <= L /\ (MemStart .. MemStart + F - 1) \cap {} = {}
    BY <1>1, <1>2
  <2>2. LET b == buddy_alloc_frames(MemStart, L, {}, FilePages)
        IN  b \in Nat /\ MemStart <= b /\ b <= MemStart
    BY <1>1, <1>2, <2>1, BlockFound
  <2> QED
    BY <1>1, <2>2 DEF UserBlock, L
<1>4. PICK z \in Nat : z % S = 0 /\ z >= F /\ z < F + S
  <2> HIDE DEF F, S
  <2>1. PICK y \in Nat : y = F + S - 1
    BY <1>1
  <2>2. PICK q \in Nat : q = y \div S /\ q * S <= y /\ y < (q + 1) * S
    BY <1>1
  <2>3. PICK z \in Nat : z = q * S
    BY <1>1, <2>2
  <2>4. (q + 1) * S = z + S
    BY <1>1, <2>2, <2>3
  <2>5. z % S = 0
    <3>1. z = q * S + 0 /\ 0 < S
      BY <1>1, <2>3
    <3> QED
      BY <1>1, <3>1, Division
  <2>6. z >= F /\ z < F + S
    BY <1>1, <2>1, <2>2, <2>3, <2>4
  <2> QED
    BY <2>5, <2>6
<1>5. stack \in Nat /\ stack < PT_SIZE
  <2>1. PICK v \in Nat : v = MemStart + z
    BY <1>1, <1>4
  <2>2. /\ (v - MemStart) % S = 0 /\ v + S <= L /\ MemStart <= v /\ v < PT_SIZE
        /\ (v .. v + S - 1) \cap (file .. file + F - 1) = {}
    <3> HIDE DEF F, S, file
    <3>1. v - MemStart = z
      BY <1>1, <1>4, <2>1
    <3> QED
      BY <1>1, <1>2, <1>3, <1>4, <2>1, <3>1
  <2>3. PICK taken : taken = file .. file + F - 1
    OBVIOUS
  <2>4. LET b == buddy_alloc_frames(MemStart, L, taken, USER_STACK_SIZE)
        IN  b \in Nat /\ MemStart <= b /\ b <= v
    <3>1. /\ MemStart \in Nat /\ L \in Nat /\ BlockPages(USER_STACK_SIZE) \in Nat \ {0}
          /\ MemStart <= v /\ v + BlockPages(USER_STACK_SIZE) <= L
          /\ (v - MemStart) % BlockPages(USER_STACK_SIZE) = 0
          /\ (v .. v + BlockPages(USER_STACK_SIZE) - 1) \cap taken = {}
      BY <1>1, <1>2, <2>2, <2>3
    <3> HIDE DEF file, F, S
    <3> QED
      BY <3>1, BlockFound
  <2>5. stack = buddy_alloc_frames(MemStart, L, taken, USER_STACK_SIZE)
    BY <2>3 DEF UserBlock, L
  <2> QED
    BY <1>2, <2>1, <2>2, <2>4, <2>5
<1> HIDE DEF file, stack
<1>6. ASSUME NEW b \in Nat, b < PT_SIZE PROVE b \div PT_SIZE = 0
  <2>1. b < 1 * PT_SIZE
    BY <1>6, Constants
  <2>2. b \div PT_SIZE < 1 /\ b \div PT_SIZE \in Nat
    BY <2>1, SlotBounds, Pages
  <2> QED
    BY <2>2
<1>7. 0 \in UserSlots /\ file \in Nat /\ file < PT_SIZE
  BY <1>1, <1>2, <1>3, Constants DEF UserSlots
<1> QED
  BY <1>5, <1>6, <1>7 DEF file, stack

\* load_elf into a directory without user tables, when there are no user pages.
LEMMA LoadEffect ==
    ASSUME NEW vm, Sound(vm), NEW dir \in DOMAIN vm.dirs,
           \A i \in DOMAIN vm.tables, j \in Entries : "USER" \notin Pte(vm, i, j).flags,
           \A s \in UserSlots : "PRESENT" \notin SlotFlags(vm, dir, s)
    PROVE  LET r == load_elf(vm, dir).vm
           IN  /\ Sound(r) /\ Separate(r, dir) /\ DOMAIN r.dirs = DOMAIN vm.dirs
               /\ \A m : m[1] \in Nat /\ m[1] \div PT_SIZE \in Slots \ UserSlots /\ Reaches(vm, dir, m)
                     => Reaches(r, dir, m)
<1> DEFINE file == UserBlock({}, FilePages)
           taken == file .. file + BlockPages(FilePages) - 1
           stack == UserBlock(taken, USER_STACK_SIZE)
           fs == SubSeq(InitrdFrames, 1, FilePages)
           w == SetEntries(map_alloc_pt(vm, dir, file \div PT_SIZE, Private), dir, file, fs, Private)
           gs == find_alloc_nframes(w.frames, USER_STACK_SIZE)
           r == MapFrames(w, dir, stack, gs, Private)
<1>1. load_elf(vm, dir).vm = r
  BY DEF load_elf, Private
<1>2. /\ file \in Nat /\ file \div PT_SIZE = 0 /\ 0 \in UserSlots /\ 0 \in Slots
      /\ stack \in Nat /\ stack \div PT_SIZE = 0
  BY UserBlocks, Constants
<1>3. Private \in Flags /\ vm \in Memory
  BY DEF Private, Flags, Sound
<1>4. \A i \in DOMAIN fs : fs[i] \in BootFrames /\ fs[i] \in Frames
  <2>1. PICK f : f = fs
    OBVIOUS
  <2>2. f \in Seq(BootFrames)
    BY <2>1, Constants
  <2>3. \A i \in DOMAIN f : f[i] \in BootFrames
    BY <2>2, SeqRange
  <2>4. BootFrames \subseteq Frames
    BY Constants
  <2> QED
    BY <2>1, <2>3, <2>4
<1> HIDE DEF file, stack, fs
<1>5. /\ Effect(vm, w, dir, file, fs, Private) /\ w.frames = vm.frames
  BY <1>2, <1>3, <1>4, PlaceEffect
<1> HIDE DEF w
<1>6. Sound(w)
  <2>1. vm.frames \subseteq w.frames /\ \A i \in DOMAIN fs : fs[i] \in w.frames
    BY <1>4, <1>5 DEF Sound
  <2> QED
    BY <1>2, <1>3, <1>5, <2>1, EffectSound
<1>7. Separate(vm, dir) /\ \A i \in DOMAIN vm.tables, j \in Entries : ~(Private \subseteq Pte(vm, i, j).flags)
  <2>1. \A i \in DOMAIN vm.tables, j \in Entries : ~(Private \subseteq Pte(vm, i, j).flags)
    BY DEF Private
  <2>2. \A d \in DOMAIN vm.dirs, s \in Slots : Virt(vm, d, s) # NoTable => Virt(vm, d, s) \in DOMAIN vm.tables
    BY <1>3, Lengths DEF Sound, NoTable
  <2> QED
    BY <2>1, <2>2 DEF Separate
<1>8. Separate(w, dir)
  BY <1>2, <1>5, <1>7, EffectSeparate
<1>9. /\ dir \in DOMAIN w.dirs /\ DOMAIN w.dirs = DOMAIN vm.dirs /\ w \in Memory /\ w.frames \in SUBSET Frames
  BY <1>5, <1>6, Lengths DEF Effect, Sound
<1>10. \A i \in DOMAIN gs : gs[i] \in Frames \ w.frames
  BY <1>9, Found, Constants
<1> HIDE DEF gs
<1>11. /\ Effect(w, r, dir, stack, gs, Private) /\ r.frames = w.frames \cup Range(gs)
       /\ \A i \in DOMAIN gs : gs[i] \in r.frames
  BY <1>2, <1>3, <1>6, <1>9, <1>10, MapEffect
<1> HIDE DEF r
<1>12. Sound(r)
  BY <1>2, <1>3, <1>6, <1>9, <1>11, EffectSound
<1>13. Separate(r, dir)
  <2>1. \A i \in DOMAIN w.tables, j \in Entries, k \in DOMAIN gs :
            Private \subseteq Pte(w, i, j).flags => Pte(w, i, j).frame # gs[k]
    BY <1>6, <1>10 DEF Sound, Private
  <2>2. \A d \in DOMAIN w.dirs, s \in Slots : d # dir => Virt(w, d, s) # Virt(w, dir, stack \div PT_SIZE)
    <3>1. Virt(w, dir, 0) = Len(vm.tables) + 1
      BY <1>2, <1>5 DEF Effect
    <3>2. \A d \in DOMAIN vm.dirs, s \in Slots : d # dir => Virt(w, d, s) = Virt(vm, d, s)
      BY <1>5 DEF Effect
    <3>3. \A d \in DOMAIN vm.dirs, s \in Slots : Virt(vm, d, s) # Len(vm.tables) + 1
      <4>1. Len(vm.tables) \in Nat
        BY <1>3, Lengths
      <4> QED
        BY <4>1 DEF Sound
    <3> QED
      BY <1>2, <1>9, <3>1, <3>2, <3>3
  <2> QED
    BY <1>2, <1>6, <1>8, <1>9, <1>11, <2>1, <2>2, EffectSeparate
<1>14. ASSUME NEW m, m[1] \in Nat, m[1] \div PT_SIZE \in Slots \ UserSlots, Reaches(vm, dir, m)
       PROVE  Reaches(r, dir, m)
  <2>1. m[1] \div PT_SIZE \in Slots /\ m[1] \div PT_SIZE # 0
    BY <1>2, <1>14
  <2>2. Reaches(w, dir, m)
    BY <1>2, <1>5, <1>14, <2>1, EffectReaches
  <2> QED
    BY <1>2, <1>6, <1>9, <1>11, <1>14, <2>1, <2>2, EffectReaches
<1>15. DOMAIN r.dirs = DOMAIN vm.dirs
  BY <1>9, <1>11 DEF Effect
<1> QED
  BY <1>1, <1>12, <1>13, <1>14, <1>15

----------------------------------------------------------------------------
\* The steps.

LEMMA Facts ==
    ASSUME SInv
    PROVE  /\ VM \in Memory /\ VM.tables = tables /\ VM.dirs = dirs /\ VM.frames = frames
           /\ Sound(VM) /\ Separate(VM, cur_pd) /\ cur_pd \in {1, 2}
           /\ DOMAIN tables = 1 .. Len(tables) /\ Len(tables) \in Nat
           /\ DOMAIN dirs = 1 .. Len(dirs) /\ Len(dirs) \in Nat /\ cur_pd \in DOMAIN dirs
           /\ frames \in SUBSET Frames
           /\ \A m \in kmaps : /\ Reaches(VM, cur_pd, m) /\ m[1] \in Nat
                               /\ m[1] \div PT_SIZE \in Slots \ UserSlots
<1>1. /\ VM.tables = tables /\ VM.dirs = dirs /\ VM.frames = frames
      /\ Sound(VM) /\ Separate(VM, cur_pd)
  BY DEF SInv, VM
<1>2. VM \in Memory
  BY <1>1 DEF Sound
<1>3. /\ DOMAIN tables = 1 .. Len(tables) /\ Len(tables) \in Nat
      /\ DOMAIN dirs = 1 .. Len(dirs) /\ Len(dirs) \in Nat /\ frames \in SUBSET Frames
  BY <1>1, <1>2, Lengths
<1>4. cur_pd \in {1, 2} /\ cur_pd \in DOMAIN dirs
  BY <1>3 DEF SInv, BootState, ForkState
<1>5. \A m \in kmaps : /\ Reaches(VM, cur_pd, m) /\ m[1] \in Nat
                       /\ m[1] \div PT_SIZE \in Slots \ UserSlots
  <2> SUFFICES ASSUME NEW m \in kmaps
               PROVE  /\ Reaches(VM, cur_pd, m) /\ m[1] \in Nat
                      /\ m[1] \div PT_SIZE \in Slots \ UserSlots
    OBVIOUS
  <2>1. /\ Reaches(VM, cur_pd, m) /\ m[1] \in Nat
        /\ m[1] \in InitrdBlock \/ m[1] \div PT_SIZE = HeapSlot
    BY DEF SInv, KernState
  <2>2. m[1] \div PT_SIZE = KernSlot \/ m[1] \div PT_SIZE = HeapSlot
    BY <2>1, WindowBlocks, PageSlots
  <2> QED
    BY <2>1, <2>2, Constants DEF UserSlots
<1> QED
  BY <1>1, <1>2, <1>3, <1>4, <1>5

\* The kernel's state is kept when the view of the directory in use is.
LEMMA KernKept ==
    ASSUME KernState, pc # "boot", UNCHANGED <<kern_buddy, cur_pd, tlb, copied, kmaps>>,
           \A f : Elsewhere(VM, cur_pd, f) => Elsewhere(VM', cur_pd, f),
           \A m \in kmaps : Reaches(VM', cur_pd, m)
    PROVE  KernState'
  BY DEF KernState

\* Steps of the tasks and of accesses leave the memory alone.
LEMMA QuietStep ==
    ASSUME SInv, UNCHANGED <<memory, cur_pd, copied, kmaps>>, pc # "boot", pc' # "boot",
           BootState', ForkState'
    PROVE  SInv'
<1>1. VM' = VM
  BY DEF VM, memory
<1>2. UNCHANGED <<kern_buddy, tlb>>
  BY DEF memory
<1>3. KernState'
  BY <1>1, <1>2 DEF SInv, KernState
<1>4. Sound(VM)' /\ Separate(VM, cur_pd)'
  BY <1>1 DEF SInv
<1> QED
  BY <1>3, <1>4 DEF SInv

LEMMA InitStep == ASSUME Init PROVE SInv
<1> DEFINE t == [j \in Entries |-> [frame |-> j, flags |-> {"PRESENT"}]]
           T == [s \in Slots |-> IF s = ImageSlot THEN [pt |-> 1, flags |-> {"PRESENT"}]
                                 ELSE [pt |-> NoTable, flags |-> {}]]
           V == [s \in Slots |-> IF s = ImageSlot THEN 1 ELSE NoTable]
           d == [tables |-> T, virt |-> V]
<1>1. /\ VM.tables = <<t>> /\ VM.dirs = <<d>> /\ VM.frames = BootFrames
      /\ VM = [tables |-> <<t>>, dirs |-> <<d>>, frames |-> BootFrames]
  BY DEF Init, VM
<1>2. t \in Table
  BY Constants DEF Table, Flags, Entries, BootFrames
<1>3. T \in SlotMap /\ V \in VirtMap
  BY DEF SlotMap, VirtMap, Flags, NoTable
<1>4. d \in Dir
  BY <1>3 DEF Dir
<1>5. /\ \A j \in Entries : t[j].frame = j /\ t[j].flags = {"PRESENT"}
      /\ \A s \in Slots : /\ V[s] = IF s = ImageSlot THEN 1 ELSE NoTable
                          /\ T[s].flags = IF s = ImageSlot THEN {"PRESENT"} ELSE {}
  OBVIOUS
<1>6. d.tables = T /\ d.virt = V
  OBVIOUS
<1> HIDE DEF t, T, V, d
<1>7. VM \in Memory
  BY <1>1, <1>2, <1>4, Constants DEF Memory, TableSeq
<1>8. /\ DOMAIN VM.tables = {1} /\ DOMAIN VM.dirs = {1} /\ Len(VM.tables) = 1 /\ Len(VM.dirs) = 1
      /\ \A s \in Slots : /\ Virt(VM, 1, s) = IF s = ImageSlot THEN 1 ELSE NoTable
                          /\ SlotFlags(VM, 1, s) = IF s = ImageSlot THEN {"PRESENT"} ELSE {}
      /\ \A j \in Entries : Pte(VM, 1, j).frame = j /\ Pte(VM, 1, j).flags = {"PRESENT"}
  <2>1. VM.tables[1] = t /\ VM.dirs[1] = d
    BY <1>1
  <2>2. /\ \A s \in Slots : /\ Virt(VM, 1, s) = IF s = ImageSlot THEN 1 ELSE NoTable
                            /\ SlotFlags(VM, 1, s) = IF s = ImageSlot THEN {"PRESENT"} ELSE {}
        /\ \A j \in Entries : Pte(VM, 1, j).frame = j /\ Pte(VM, 1, j).flags = {"PRESENT"}
    BY <1>5, <1>6, <2>1 DEF Virt, SlotFlags, Pte
  <2> QED
    BY <1>1, <2>2
<1>9. Sound(VM)
  BY <1>1, <1>7, <1>8 DEF Sound, NoTable, Entries, BootFrames
<1>10. cur_pd = 1
  BY DEF Init
<1>11. Separate(VM, cur_pd)
  BY <1>8, <1>10 DEF Separate, Private, NoTable
<1>12. BootState
  <2>1. \A s \in UserSlots : s \in Slots /\ s # ImageSlot
    BY Constants DEF UserSlots, ImageSlot
  <2>2. /\ \A i \in DOMAIN tables, j \in Entries : "USER" \notin Pte(VM, i, j).flags
        /\ \A s \in Slots : "USER" \notin SlotFlags(VM, 1, s)
        /\ \A s \in UserSlots : SlotFlags(VM, 1, s) = {}
    <3>1. DOMAIN tables = {1}
      BY <1>8 DEF VM
    <3> QED
      BY <1>8, <2>1, <3>1
  <2>3. Len(dirs) = 1
    BY <1>8 DEF VM
  <2> QED
    BY <2>2, <2>3 DEF BootState, Init
<1>13. ForkState
  BY DEF ForkState, Init
<1>14. KernState
  BY DEF KernState, Init
<1> QED
  BY <1>9, <1>11, <1>12, <1>13, <1>14 DEF SInv

LEMMA QuietSteps ==
    ASSUME SInv,
           \/ ForkReturns \/ execve \/ exit \/ kern \/ Accessed
           \/ \E mode \in {"user", "kernel"}, v \in Touched : Touch(mode, v)
    PROVE  SInv'
<1>1. CASE ForkReturns
  <2>1. BootState' /\ ForkState'
    BY <1>1 DEF ForkReturns, BootState, ForkState, SInv, memory
  <2> QED
    BY <1>1, <2>1, QuietStep DEF ForkReturns
<1>2. CASE execve
  <2>1. BootState' /\ ForkState'
    BY <1>2 DEF execve, Running, BootState, ForkState, SInv, memory
  <2> QED
    BY <1>2, <2>1, QuietStep DEF execve, Running
<1>4. CASE exit
  <2>1. BootState' /\ ForkState'
    BY <1>4 DEF exit, Running, BootState, ForkState, SInv, memory
  <2> QED
    BY <1>4, <2>1, QuietStep DEF exit, Running
<1>5. CASE kern
  <2>1. BootState' /\ ForkState'
    BY <1>5 DEF kern, vars, BootState, ForkState, SInv, memory, VM
  <2> QED
    BY <1>5, <2>1, QuietStep DEF kern, vars
<1>6. CASE Accessed
  <2>1. pc = "user"
    BY <1>6 DEF Accessed, SInv, ForkState
  <2>2. BootState' /\ ForkState'
    BY <1>6, <2>1 DEF Accessed, BootState, ForkState, SInv, memory
  <2> QED
    BY <1>6, <2>1, <2>2, QuietStep DEF Accessed
<1>7. ASSUME NEW mode \in {"user", "kernel"}, NEW v \in Touched, Touch(mode, v) PROVE SInv'
  <2>1. BootState' /\ ForkState'
    BY <1>7 DEF Touch, Running, BootState, ForkState, SInv, memory
  <2> QED
    BY <1>7, <2>1, QuietStep DEF Touch, Running
<1> QED
  BY <1>1, <1>2, <1>4, <1>5, <1>6, <1>7

LEMMA StutterStep == ASSUME SInv, UNCHANGED vars PROVE SInv'
<1>1. VM' = VM
  BY DEF vars, memory, VM
<1>2. UNCHANGED <<cur_pd, pc, job, access, copied, kmaps, tlb, kern_buddy, tasks, cur_task, dirs, tables>>
  BY DEF vars, memory, procs
<1>3. BootState' /\ ForkState'
  BY <1>1, <1>2 DEF SInv, BootState, ForkState
<1>4. KernState'
  BY <1>1, <1>2 DEF SInv, KernState
<1> QED
  BY <1>1, <1>2, <1>3, <1>4 DEF SInv

\* Frames that were free are mapped in the directory in use, for the kernel, where
\* it has mapped nothing yet.
LEMMA FreshEffect ==
    ASSUME SInv, NEW v \in Nat, v \div PT_SIZE \in Slots,
           \A m \in kmaps : m[1] \div PT_SIZE # v \div PT_SIZE,
           NEW fs, \A i \in DOMAIN fs : fs[i] \in Frames \ frames,
           NEW r, Effect(VM, r, cur_pd, v, fs, {"PRESENT"}), r.frames = VM.frames \cup Range(fs),
           \A i \in DOMAIN fs : fs[i] \in r.frames
    PROVE  /\ r \in Memory /\ Sound(r) /\ Separate(r, cur_pd)
           /\ \A f : Elsewhere(VM, cur_pd, f) => Elsewhere(r, cur_pd, f)
           /\ \A m \in kmaps : Reaches(r, cur_pd, m)
           /\ Len(r.dirs) = Len(dirs) /\ Len(r.tables) >= Len(tables)
           /\ \A d \in DOMAIN dirs, s \in Slots :
                 /\ Virt(r, d, s) \in {Virt(VM, d, s), Len(tables) + 1}
                 /\ "PRESENT" \in SlotFlags(VM, d, s) => SlotFlags(VM, d, s) \subseteq SlotFlags(r, d, s)
<1> DEFINE slot == v \div PT_SIZE
<1>1. /\ VM \in Memory /\ VM.tables = tables /\ VM.dirs = dirs /\ VM.frames = frames
      /\ Sound(VM) /\ Separate(VM, cur_pd) /\ Len(tables) \in Nat
      /\ cur_pd \in DOMAIN VM.dirs
      /\ \A m \in kmaps : Reaches(VM, cur_pd, m) /\ m[1] \in Nat /\ m[1] \div PT_SIZE \in Slots
  BY Facts
<1>2. PICK flags \in Flags : flags = {"PRESENT"}
  BY DEF Flags
<1>3. Effect(VM, r, cur_pd, v, fs, flags) /\ VM.frames \subseteq r.frames /\ ~(Private \subseteq flags)
  BY <1>2 DEF Private
<1>4. Sound(r)
  BY <1>1, <1>3, EffectSound
<1>5. Separate(r, cur_pd)
  BY <1>1, <1>3, EffectSeparate
<1>6. ASSUME NEW f, Elsewhere(VM, cur_pd, f) PROVE Elsewhere(r, cur_pd, f)
  <2>1. \A i \in DOMAIN fs : fs[i] # f
    BY <1>1, <1>6 DEF Elsewhere
  <2> QED
    BY <1>1, <1>3, <1>6, <2>1, EffectElsewhere
<1>7. ASSUME NEW m \in kmaps PROVE Reaches(r, cur_pd, m)
  <2>1. /\ Reaches(VM, cur_pd, m) /\ m[1] \in Nat /\ m[1] \div PT_SIZE \in Slots
        /\ m[1] \div PT_SIZE # v \div PT_SIZE
    BY <1>1
  <2> QED
    BY <1>1, <1>3, <2>1, EffectReaches
<1>8. r \in Memory /\ DOMAIN r.dirs = DOMAIN dirs
  BY <1>1 DEF Effect
<1>9. Len(r.dirs) = Len(dirs)
  <2>1. r.dirs \in Seq(Dir) /\ dirs \in Seq(Dir)
    BY <1>1, <1>8 DEF Memory
  <2> QED
    BY <1>8, <2>1
<1>10. Len(r.tables) >= Len(tables)
  BY <1>1 DEF Effect
<1>11. ASSUME NEW d \in DOMAIN dirs, NEW s \in Slots
       PROVE  /\ Virt(r, d, s) \in {Virt(VM, d, s), Len(tables) + 1}
              /\ "PRESENT" \in SlotFlags(VM, d, s) => SlotFlags(VM, d, s) \subseteq SlotFlags(r, d, s)
  <2>1. CASE d = cur_pd /\ s = slot
    BY <1>1, <2>1 DEF Effect
  <2>2. CASE ~(d = cur_pd /\ s = slot)
    BY <1>1, <2>2 DEF Effect
  <2> QED
    BY <2>1, <2>2
<1> QED
  BY <1>4, <1>5, <1>6, <1>7, <1>8, <1>9, <1>10, <1>11

\* The clone under way keeps its state when the tables it reads and writes are.
LEMMA CloneKept ==
    ASSUME SInv, pc = "fork", UNCHANGED <<pc, cur_pd, access>>,
           job'.dir = job.dir /\ job'.slot = job.slot /\ job'.table = job.table, job'.pte \in 0 .. PT_SIZE,
           job' \in Job,
           Len(dirs') = Len(dirs), Len(tables') >= Len(tables), Len(tables') \in Nat,
           \A d \in DOMAIN dirs, s \in Slots :
              /\ Virt(VM', d, s) \in {Virt(VM, d, s), Len(tables) + 1}
              /\ "PRESENT" \in SlotFlags(VM, d, s) => SlotFlags(VM, d, s) \subseteq SlotFlags(VM', d, s),
           DOMAIN dirs' = DOMAIN dirs
    PROVE  BootState' /\ ForkState'
<1>1. BootState'
  BY DEF BootState
<1>2. /\ cur_pd = 2 /\ Len(dirs) >= 2 /\ access = NoAccess
      /\ job.dir = Len(dirs) /\ job.dir # 2 /\ job.slot \in 0 .. KernSlot + 1 /\ job.table \in 0 .. Len(tables)
      /\ Len(tables) \in Nat /\ 2 \in DOMAIN dirs
  BY Facts DEF SInv, ForkState
<1>3. job'.table \in 0 .. Len(tables')
  BY <1>2
<1>4. ASSUME job.table # NoTable, job.slot \in Slots
      PROVE  /\ Private \subseteq SlotFlags(VM', 2, job.slot)
             /\ \A d \in DOMAIN dirs, s \in Slots : Virt(VM', d, s) # job.table
  <2>1. /\ Private \subseteq SlotFlags(VM, 2, job.slot)
        /\ \A d \in DOMAIN dirs, s \in Slots : Virt(VM, d, s) # job.table
    BY <1>4 DEF SInv, ForkState
  <2>2. Private \subseteq SlotFlags(VM', 2, job.slot)
    BY <1>2, <1>4, <2>1 DEF Private
  <2>3. job.table # Len(tables) + 1
    BY <1>2
  <2> QED
    BY <2>1, <2>2, <2>3
<1> QED
  BY <1>1, <1>2, <1>3, <1>4 DEF ForkState

LEMMA GrowHeapStep == ASSUME SInv, GrowHeap PROVE SInv'
<1> DEFINE v == HeapSlot * PT_SIZE
           found == find_alloc_nframes(frames, PT_SIZE)
           r == MapFrames(VM, cur_pd, v, found, {"PRESENT"})
           new == {<<v + i - 1, found[i]>> : i \in DOMAIN found}
<1>1. /\ pc = "fork" /\ "PRESENT" \notin SlotFlags(VM, cur_pd, HeapSlot) /\ SetVM(r)
      /\ kmaps' = kmaps \cup new /\ UNCHANGED <<tlb, kern_buddy, cur_pd, pc, job, access, copied>>
  BY DEF GrowHeap, Present, SlotFlags, VM
<1>2. /\ VM \in Memory /\ VM.tables = tables /\ VM.dirs = dirs /\ VM.frames = frames
      /\ Sound(VM) /\ cur_pd \in DOMAIN VM.dirs /\ cur_pd \in DOMAIN dirs /\ frames \in SUBSET Frames
      /\ \A m \in kmaps : Reaches(VM, cur_pd, m)
  BY Facts
<1>3. v \in Nat /\ v \div PT_SIZE = HeapSlot /\ v % PT_SIZE = 0 /\ HeapSlot \in Slots /\ PT_SIZE \in Nat \ {0}
  <2>1. HeapSlot \in Nat /\ PT_SIZE \in Nat \ {0} /\ HeapSlot \in Slots
    BY Constants
  <2>2. v \in Nat /\ v = HeapSlot * PT_SIZE + 0 /\ 0 < PT_SIZE
    BY <2>1
  <2> HIDE DEF v
  <2> QED
    BY <2>1, <2>2, Division
<1>4. \A i \in DOMAIN found : i \in Nat \ {0} /\ i <= PT_SIZE /\ found[i] \in Frames \ frames
  BY <1>2, <1>3, Found
<1>5. PICK flags \in Flags : flags = {"PRESENT"}
  BY DEF Flags
<1> HIDE DEF v, found
<1>6. /\ Effect(VM, r, cur_pd, v, found, {"PRESENT"}) /\ r.frames = VM.frames \cup Range(found)
      /\ \A i \in DOMAIN found : found[i] \in r.frames
  <2>1. LET q == MapFrames(VM, cur_pd, v, found, flags)
        IN  /\ Effect(VM, q, cur_pd, v, found, flags) /\ q.frames = VM.frames \cup Range(found)
            /\ \A i \in DOMAIN found : found[i] \in q.frames
    BY <1>2, <1>3, <1>4, MapEffect
  <2> QED
    BY <1>5, <2>1
<1>7. \A m \in kmaps : m[1] \div PT_SIZE # v \div PT_SIZE
  BY <1>1, <1>2, <1>3 DEF Reaches
<1> HIDE DEF r
<1>8. /\ r \in Memory /\ Sound(r) /\ Separate(r, cur_pd)
      /\ \A f : Elsewhere(VM, cur_pd, f) => Elsewhere(r, cur_pd, f)
      /\ \A m \in kmaps : Reaches(r, cur_pd, m)
      /\ Len(r.dirs) = Len(dirs) /\ Len(r.tables) >= Len(tables)
      /\ \A d \in DOMAIN dirs, s \in Slots :
            /\ Virt(r, d, s) \in {Virt(VM, d, s), Len(tables) + 1}
            /\ "PRESENT" \in SlotFlags(VM, d, s) => SlotFlags(VM, d, s) \subseteq SlotFlags(r, d, s)
  BY <1>3, <1>4, <1>6, <1>7, FreshEffect
<1>9. VM' = r /\ tables' = r.tables /\ dirs' = r.dirs
  BY <1>1, <1>8, NewMemory DEF SetVM
<1>10. BootState' /\ ForkState'
  <2>1. Len(tables') \in Nat /\ DOMAIN dirs' = DOMAIN dirs
    BY <1>2, <1>6, <1>8, <1>9, Lengths DEF Effect
  <2>2. job.pte \in 0 .. PT_SIZE /\ job \in Job
    BY <1>1 DEF SInv, ForkState
  <2> QED
    BY <1>1, <1>8, <1>9, <2>1, <2>2, CloneKept
<1>11. KernState'
  <2>1. ASSUME NEW m \in new
        PROVE  Reaches(r, cur_pd, m) /\ m[1] \in Nat /\ m[1] \div PT_SIZE = HeapSlot
    <3>1. PICK i \in DOMAIN found : m = <<v + i - 1, found[i]>>
      BY <2>1
    <3>2. i \in Nat \ {0} /\ (v % PT_SIZE) + i <= PT_SIZE
      BY <1>3, <1>4
    <3>3. "PRESENT" \in flags /\ Effect(VM, r, cur_pd, v, found, flags)
      BY <1>5, <1>6
    <3>4. /\ Reaches(r, cur_pd, <<v + i - 1, found[i]>>)
          /\ v + i - 1 \in Nat /\ (v + i - 1) \div PT_SIZE = v \div PT_SIZE
      BY <1>3, <3>2, <3>3, EffectMaps
    <3> QED
      BY <1>3, <3>1, <3>4
  <2> HIDE DEF new
  <2> QED
    BY <1>1, <1>8, <1>9, <2>1 DEF SInv, KernState
<1> QED
  BY <1>1, <1>8, <1>9, <1>10, <1>11 DEF SInv

LEMMA PageFaultStep == ASSUME SInv, page_fault PROVE SInv'
<1> DEFINE v == access.page
           new == find_alloc_nframes(frames, 1)
           a == MapFrames(VM, cur_pd, v, new, {"PRESENT"})
           b == SetEntries([VM EXCEPT !.frames = @ \cup Range(new)], cur_pd, v, new, {"PRESENT"})
<1>1. /\ access # NoAccess /\ UNCHANGED <<tlb, kern_buddy, cur_pd, pc, job, access, copied, kmaps>>
      /\ \/ SetVM(a)
         \/ "PRESENT" \in SlotFlags(VM, cur_pd, v \div PT_SIZE) /\ SetVM(b)
         \/ SetVM(VM)
  BY DEF page_fault, Present, SlotFlags, VM
<1>2. /\ VM \in Memory /\ VM.tables = tables /\ VM.dirs = dirs /\ VM.frames = frames
      /\ Sound(VM) /\ cur_pd \in DOMAIN VM.dirs /\ frames \in SUBSET Frames /\ Separate(VM, cur_pd)
      /\ \A m \in kmaps : Reaches(VM, cur_pd, m) /\ m[1] \div PT_SIZE \in Slots \ UserSlots
  BY Facts
<1>3. pc = "user" /\ v \in Touched /\ cur_pd = 2 /\ Len(dirs) >= 2
  BY <1>1 DEF SInv, ForkState
<1>4. v \in Nat /\ v \div PT_SIZE \in Slots /\ \A m \in kmaps : m[1] \div PT_SIZE # v \div PT_SIZE
  <2>1. v \in 0 .. UserTables * PT_SIZE - 1
    BY <1>3, SpaceAssumption
  <2>2. v \in Nat /\ v \div PT_SIZE \in UserSlots
    BY <2>1, PageSlots
  <2> QED
    BY <1>2, <2>2, Constants
<1>5. \A i \in DOMAIN new : new[i] \in Frames /\ new[i] \in Frames \ frames
  BY <1>2, Found
<1>6. PICK flags \in Flags : flags = {"PRESENT"}
  BY DEF Flags
<1> HIDE DEF v, new
<1>7. /\ Effect(VM, a, cur_pd, v, new, {"PRESENT"}) /\ a.frames = VM.frames \cup Range(new)
      /\ \A i \in DOMAIN new : new[i] \in a.frames
  <2>1. LET q == MapFrames(VM, cur_pd, v, new, flags)
        IN  /\ Effect(VM, q, cur_pd, v, new, flags) /\ q.frames = VM.frames \cup Range(new)
            /\ \A i \in DOMAIN new : new[i] \in q.frames
    BY <1>2, <1>4, <1>5, MapEffect
  <2> QED
    BY <1>6, <2>1
<1>8. "PRESENT" \in SlotFlags(VM, cur_pd, v \div PT_SIZE) =>
        /\ Effect(VM, b, cur_pd, v, new, {"PRESENT"}) /\ b.frames = VM.frames \cup Range(new)
        /\ \A i \in DOMAIN new : new[i] \in b.frames
  BY <1>2, <1>4, <1>5, PresentEffect
<1> HIDE DEF a, b
<1>9. PICK r : /\ SetVM(r) /\ r \in Memory /\ Sound(r) /\ Separate(r, cur_pd) /\ Len(r.dirs) = Len(dirs)
               /\ \A f : Elsewhere(VM, cur_pd, f) => Elsewhere(r, cur_pd, f)
               /\ \A m \in kmaps : Reaches(r, cur_pd, m)
  <2>1. CASE SetVM(a)
    BY <1>4, <1>5, <1>7, <2>1, FreshEffect
  <2>2. CASE "PRESENT" \in SlotFlags(VM, cur_pd, v \div PT_SIZE) /\ SetVM(b)
    BY <1>4, <1>5, <1>8, <2>2, FreshEffect
  <2>3. CASE SetVM(VM)
    BY <1>2, <2>3
  <2> QED
    BY <1>1, <2>1, <2>2, <2>3
<1>10. VM' = r /\ dirs' = r.dirs
  BY <1>9, NewMemory DEF SetVM
<1>11. BootState' /\ ForkState'
  BY <1>1, <1>3, <1>9, <1>10 DEF SInv, BootState, ForkState, v
<1>12. KernState'
  BY <1>1, <1>3, <1>9, <1>10, KernKept DEF SInv
<1> QED
  BY <1>1, <1>9, <1>10, <1>11, <1>12 DEF SInv

LEMMA ForkStep == ASSUME SInv, fork PROVE SInv'
<1> DEFINE r == [VM EXCEPT !.dirs = Append(@, NewDir)]
<1>1. /\ pc = "user" /\ access = NoAccess /\ pc' = "fork" /\ dirs' = Append(dirs, NewDir)
      /\ job' = [dir |-> Len(dirs) + 1, slot |-> 0, table |-> NoTable, pte |-> 0]
      /\ UNCHANGED <<tables, frames, tlb, kern_buddy, cur_pd, access, copied, kmaps>>
  BY DEF fork, Running, fork_task
<1>2. /\ VM.tables = tables /\ VM.dirs = dirs /\ VM.frames = frames
      /\ Sound(VM) /\ Separate(VM, cur_pd) /\ cur_pd \in DOMAIN VM.dirs /\ cur_pd \in DOMAIN dirs
      /\ Len(dirs) \in Nat /\ Len(tables) \in Nat
      /\ \A m \in kmaps : Reaches(VM, cur_pd, m) /\ m[1] \in Nat /\ m[1] \div PT_SIZE \in Slots
  BY Facts
<1>3. VM' = r
  <2>1. PICK ds : ds = Append(dirs, NewDir)
    OBVIOUS
  <2>2. VM' = [tables |-> tables, dirs |-> ds, frames |-> frames]
    BY <1>1, <2>1 DEF VM
  <2>3. r = [VM EXCEPT !.dirs = ds]
    BY <1>2, <2>1
  <2> HIDE DEF r
  <2> QED
    BY <2>2, <2>3 DEF VM
<1>4. /\ Sound(r) /\ Separate(r, cur_pd) /\ Len(r.dirs) = Len(VM.dirs) + 1
      /\ r.tables = VM.tables /\ r.frames = VM.frames
      /\ \A d \in DOMAIN VM.dirs : r.dirs[d] = VM.dirs[d]
  BY <1>2, AppendDir
<1> HIDE DEF r
<1>5. /\ \A s \in Slots : Virt(r, cur_pd, s) = Virt(VM, cur_pd, s) /\ SlotFlags(r, cur_pd, s) = SlotFlags(VM, cur_pd, s)
      /\ \A i, j : Pte(r, i, j) = Pte(VM, i, j)
  BY <1>2, <1>4 DEF Virt, SlotFlags, Pte
<1>6. /\ \A f : Elsewhere(VM, cur_pd, f) => Elsewhere(r, cur_pd, f)
      /\ \A m : m[1] \in Nat /\ m[1] \div PT_SIZE \in Slots /\ Reaches(VM, cur_pd, m) => Reaches(r, cur_pd, m)
  BY <1>2, <1>4, <1>5, SameView
<1>7. cur_pd = 2 /\ Len(dirs) >= 2
  BY <1>1 DEF SInv, ForkState
<1>8. Len(dirs') = Len(dirs) + 1
  <2>1. dirs' = r.dirs
    BY <1>3 DEF VM
  <2> QED
    BY <1>2, <1>4, <2>1
<1>9. BootState' /\ ForkState'
  <2>1. /\ job'.dir = Len(dirs) + 1 /\ job'.slot = 0 /\ job'.table = NoTable /\ job'.pte = 0 /\ job' \in Job
    BY <1>1, <1>2 DEF Job, NoTable
  <2> QED
    BY <1>1, <1>2, <1>7, <1>8, <2>1, Constants DEF BootState, ForkState, NoTable
<1>10. KernState'
  BY <1>1, <1>2, <1>3, <1>6, KernKept DEF SInv
<1> QED
  BY <1>1, <1>3, <1>4, <1>9, <1>10 DEF SInv

\* The job of a clone under way, and its directory, which is not the one in use.
LEMMA CloneFacts ==
    ASSUME SInv, Cloning
    PROVE  /\ job \in Job /\ job.slot \in Slots /\ job.dir \in DOMAIN dirs /\ job.dir # cur_pd
           /\ pc # "boot" /\ access = NoAccess /\ job.table \in 0 .. Len(tables)
           /\ pc = "spawn" => job.dir = 2 /\ cur_pd = 1 /\ job.table = NoTable
           /\ pc = "fork" => cur_pd = 2 /\ job.pte \in 0 .. PT_SIZE
           /\ pc \in {"spawn", "fork"}
<1>1. DOMAIN dirs = 1 .. Len(dirs) /\ Len(dirs) \in Nat /\ Len(tables) \in Nat
  BY Facts
<1> QED
  BY <1>1 DEF SInv, Cloning, BootState, ForkState, NoTable

LEMMA CloneFailsStep == ASSUME SInv, CloneFails PROVE SInv'
<1>1. /\ Cloning /\ job.table # NoTable /\ job' = [job EXCEPT !.slot = KernSlot + 1]
      /\ UNCHANGED <<kern_buddy, cur_pd, pc, access, kmaps, tables, dirs, frames, tlb, copied>>
  BY DEF CloneFails, CloneUnchanged
<1>2. job \in Job /\ pc = "fork" /\ access = NoAccess /\ Len(tables) \in Nat /\ job.pte \in 0 .. PT_SIZE
  BY <1>1, CloneFacts, Facts
<1>3. /\ job' \in Job /\ job'.slot = KernSlot + 1 /\ job'.dir = job.dir /\ job'.table = job.table
      /\ job'.pte = job.pte /\ KernSlot + 1 \notin Slots /\ KernSlot + 1 \in 0 .. KernSlot + 1
  <2>1. PICK a \in Nat : a = KernSlot + 1 /\ a \notin Slots /\ a \in 0 .. KernSlot + 1
    BY Constants
  <2>2. job' = [job EXCEPT !.slot = a]
    BY <1>1, <2>1
  <2> QED
    BY <1>2, <2>1, <2>2 DEF Job
<1>4. BootState' /\ ForkState'
  BY <1>1, <1>2, <1>3 DEF SInv, BootState, ForkState
<1> QED
  BY <1>1, <1>2, <1>4, QuietStep DEF memory

LEMMA CloneTableDoneStep == ASSUME SInv, CloneTableDone PROVE SInv'
<1> DEFINE t0 == [pt |-> job.table, flags |-> {}]
           r == Filled(VM, job.dir, job.slot, t0, job.table)
<1>1. /\ Cloning /\ job.table # NoTable /\ job' = [job EXCEPT !.slot = @ + 1, !.table = NoTable]
      /\ dirs' = [dirs EXCEPT ![job.dir].tables[job.slot] = t0, ![job.dir].virt[job.slot] = job.table]
      /\ UNCHANGED <<kern_buddy, cur_pd, pc, access, kmaps, tables, frames, tlb, copied>>
  BY DEF CloneTableDone, CloneUnchanged
<1>2. /\ job \in Job /\ pc = "fork" /\ access = NoAccess /\ job.pte \in 0 .. PT_SIZE /\ job.slot \in Slots
      /\ job.dir \in DOMAIN dirs /\ job.dir # cur_pd /\ job.table \in 0 .. Len(tables) /\ cur_pd = 2
  BY <1>1, CloneFacts
<1>3. /\ VM.tables = tables /\ VM.dirs = dirs /\ VM.frames = frames
      /\ Sound(VM) /\ Separate(VM, cur_pd) /\ cur_pd \in DOMAIN VM.dirs
      /\ Len(dirs) \in Nat /\ Len(tables) \in Nat /\ DOMAIN dirs = 1 .. Len(dirs)
      /\ \A m \in kmaps : Reaches(VM, cur_pd, m) /\ m[1] \in Nat /\ m[1] \div PT_SIZE \in Slots
  BY Facts
<1>4. VM' = r
  BY <1>1 DEF VM, Filled
<1>5. t0 \in [pt : Nat, flags : Flags] /\ t0.flags = {}
  BY <1>2 DEF Flags, Job
<1>6. \A d \in DOMAIN VM.dirs, s \in Slots : Virt(VM, d, s) # job.table
  BY <1>1, <1>2, <1>3 DEF SInv, ForkState
<1> HIDE DEF t0
<1>7. /\ Sound(r) /\ Separate(r, cur_pd)
      /\ r.tables = VM.tables /\ r.frames = VM.frames /\ DOMAIN r.dirs = DOMAIN VM.dirs
      /\ \A f : Elsewhere(VM, cur_pd, f) => Elsewhere(r, cur_pd, f)
      /\ \A m : m[1] \in Nat /\ m[1] \div PT_SIZE \in Slots /\ Reaches(VM, cur_pd, m) => Reaches(r, cur_pd, m)
  <2>1. PICK x \in 0 .. Len(VM.tables), dir \in DOMAIN VM.dirs, slot \in Slots :
           x = job.table /\ dir = job.dir /\ slot = job.slot
    BY <1>2, <1>3
  <2>2. LET q == Filled(VM, dir, slot, t0, x) IN
        /\ Sound(q) /\ Separate(q, cur_pd)
        /\ q.tables = VM.tables /\ q.frames = VM.frames /\ DOMAIN q.dirs = DOMAIN VM.dirs
        /\ \A f : Elsewhere(VM, cur_pd, f) => Elsewhere(q, cur_pd, f)
        /\ \A m : m[1] \in Nat /\ m[1] \div PT_SIZE \in Slots /\ Reaches(VM, cur_pd, m) => Reaches(q, cur_pd, m)
    <3>1. dir # cur_pd /\ ("PRESENT" \in t0.flags => x # NoTable) 
      BY <1>2, <1>5, <2>1
    <3>2. \A d \in DOMAIN VM.dirs, s \in Slots :
             Virt(VM, d, s) = x /\ x # NoTable =>
                 s = slot /\ \A j \in Entries : ~(Private \subseteq Pte(VM, x, j).flags)
      BY <1>6, <2>1
    <3>3. Sound(VM) /\ cur_pd \in DOMAIN VM.dirs /\ Separate(VM, cur_pd) /\ t0 \in [pt : Nat, flags : Flags]
      BY <1>3, <1>5
    <3> QED
      BY <3>1, <3>2, <3>3, FillSlot
  <2> QED
    BY <2>1, <2>2
<1> HIDE DEF r
<1>8. BootState' /\ ForkState'
  <2>1. job' \in Job /\ job'.slot = job.slot + 1 /\ job'.dir = job.dir /\ job'.table = NoTable /\ job'.pte = job.pte
    <3>1. PICK a \in Nat : a = job.slot + 1
      BY <1>2, Constants
    <3>2. job' = [job EXCEPT !.slot = a, !.table = 0]
      BY <1>1, <3>1 DEF NoTable
    <3> QED
      BY <1>2, <3>1, <3>2 DEF Job, NoTable
  <2>2. Len(dirs') = Len(dirs)
    <3>1. dirs' = r.dirs /\ r \in Memory
      BY <1>4, <1>7 DEF VM, Sound
    <3> QED
      BY <1>3, <1>7, <3>1, Lengths
  <2>3. job.slot + 1 \in 0 .. KernSlot + 1
    BY <1>2, Constants
  <2> QED
    BY <1>1, <1>2, <1>3, <2>1, <2>2, <2>3 DEF SInv, BootState, ForkState, NoTable
<1>9. KernState'
  BY <1>1, <1>2, <1>3, <1>4, <1>7, KernKept DEF SInv
<1> QED
  BY <1>1, <1>4, <1>7, <1>8, <1>9 DEF SInv

\* A user's table is cloned into one that no directory has yet.
LEMMA CloneNewTable ==
    ASSUME SInv, CloneSlot, Private \subseteq SlotFlags(VM, cur_pd, job.slot)
    PROVE  SInv'
<1> DEFINE r == [VM EXCEPT !.tables = Append(@, [j \in Entries |-> Absent])]
<1>1. /\ Cloning /\ job.table = NoTable /\ tables' = Append(tables, [j \in Entries |-> Absent])
      /\ job' = [job EXCEPT !.table = Len(tables) + 1, !.pte = 0]
      /\ UNCHANGED <<dirs, frames, tlb, copied, kern_buddy, cur_pd, pc, access, kmaps>>
  BY DEF CloneSlot, CloneUnchanged, SlotFlags, VM, Private
<1>2. /\ job \in Job /\ access = NoAccess /\ job.slot \in Slots /\ pc \in {"spawn", "fork"}
      /\ (pc = "fork" => cur_pd = 2) /\ (pc = "spawn" => cur_pd = 1)
  BY <1>1, CloneFacts
<1>3. pc = "fork" /\ cur_pd = 2
  BY <1>2 DEF SInv, BootState, Private
<1>4. /\ VM.tables = tables /\ VM.dirs = dirs /\ VM.frames = frames
      /\ Sound(VM) /\ Separate(VM, cur_pd) /\ cur_pd \in DOMAIN VM.dirs
      /\ Len(dirs) \in Nat /\ Len(tables) \in Nat /\ DOMAIN dirs = 1 .. Len(dirs)
      /\ \A m \in kmaps : Reaches(VM, cur_pd, m) /\ m[1] \in Nat /\ m[1] \div PT_SIZE \in Slots
  BY Facts
<1>5. VM' = r
  <2>1. PICK ts : ts = Append(tables, [j \in Entries |-> Absent])
    OBVIOUS
  <2>2. VM' = [tables |-> ts, dirs |-> dirs, frames |-> frames]
    BY <1>1, <2>1 DEF VM
  <2>3. r = [VM EXCEPT !.tables = ts]
    BY <1>4, <2>1
  <2> HIDE DEF r
  <2> QED
    BY <2>2, <2>3 DEF VM
<1>6. /\ Sound(r) /\ Separate(r, cur_pd)
      /\ r.dirs = VM.dirs /\ r.frames = VM.frames /\ Len(r.tables) = Len(VM.tables) + 1
      /\ \A f : Elsewhere(VM, cur_pd, f) => Elsewhere(r, cur_pd, f)
      /\ \A m : m[1] \in Nat /\ m[1] \div PT_SIZE \in Slots /\ Reaches(VM, cur_pd, m) => Reaches(r, cur_pd, m)
  BY <1>4, AppendTable
<1> HIDE DEF r
<1>7. BootState' /\ ForkState'
  <2>1. job' \in Job /\ job'.slot = job.slot /\ job'.dir = job.dir /\ job'.table = Len(tables) + 1 /\ job'.pte = 0
    <3>1. PICK a \in Nat : a = Len(tables) + 1
      BY <1>4
    <3>2. job' = [job EXCEPT !.table = a, !.pte = 0]
      BY <1>1, <3>1
    <3> QED
      BY <1>2, <3>1, <3>2 DEF Job
  <2>2. Len(tables') = Len(tables) + 1
    BY <1>4, <1>5, <1>6 DEF VM
  <2>3. \A d \in DOMAIN dirs, s \in Slots : Virt(VM', d, s) # Len(tables) + 1
    <3>1. \A d, s : Virt(VM', d, s) = Virt(VM, d, s)
      BY <1>5, <1>6 DEF Virt
    <3>2. \A d \in DOMAIN dirs, s \in Slots : Virt(VM, d, s) \in 0 .. Len(tables)
      BY <1>4 DEF Sound
    <3> QED
      BY <1>4, <3>1, <3>2
  <2>4. Private \subseteq SlotFlags(VM', 2, job.slot)
    BY <1>3, <1>5, <1>6 DEF SlotFlags
  <2>5. /\ job.dir = Len(dirs) /\ job.dir # 2 /\ Len(dirs) >= 2 /\ job.slot \in 0 .. KernSlot + 1
    BY <1>3 DEF SInv, ForkState
  <2>6. 0 \in 0 .. PT_SIZE /\ Len(tables) + 1 \in 0 .. Len(tables')
    BY <1>4, <2>2, Constants
  <2> QED
    BY <1>1, <1>2, <1>3, <2>1, <2>3, <2>4, <2>5, <2>6 DEF BootState, ForkState
<1>8. KernState'
  BY <1>1, <1>3, <1>4, <1>5, <1>6, KernKept DEF SInv
<1> QED
  BY <1>1, <1>5, <1>6, <1>7, <1>8 DEF SInv

\* Any other table is shared.
LEMMA CloneShared ==
    ASSUME SInv, CloneSlot, ~(Private \subseteq SlotFlags(VM, cur_pd, job.slot))
    PROVE  SInv'
<1> DEFINE t0 == dirs[cur_pd].tables[job.slot]
           x == Virt(VM, cur_pd, job.slot)
           r == Filled(VM, job.dir, job.slot, t0, x)
<1>1. /\ Cloning /\ job.table = NoTable /\ job' = [job EXCEPT !.slot = @ + 1]
      /\ dirs' = [dirs EXCEPT ![job.dir].tables[job.slot] = t0,
                              ![job.dir].virt[job.slot] = dirs[cur_pd].virt[job.slot]]
      /\ UNCHANGED <<tables, frames, tlb, copied, kern_buddy, cur_pd, pc, access, kmaps, tasks>>
  BY DEF CloneSlot, CloneUnchanged, SlotFlags, VM, Private, procs
<1>2. /\ job \in Job /\ access = NoAccess /\ job.slot \in Slots /\ pc \in {"spawn", "fork"} /\ pc # "boot"
      /\ job.dir \in DOMAIN dirs /\ job.dir # cur_pd
      /\ pc = "spawn" => job.dir = 2 /\ cur_pd = 1
      /\ pc = "fork" => job.pte \in 0 .. PT_SIZE
  BY <1>1, CloneFacts
<1>3. /\ VM \in Memory /\ VM.tables = tables /\ VM.dirs = dirs /\ VM.frames = frames
      /\ Sound(VM) /\ Separate(VM, cur_pd) /\ cur_pd \in DOMAIN VM.dirs
      /\ Len(dirs) \in Nat /\ Len(tables) \in Nat /\ DOMAIN dirs = 1 .. Len(dirs)
      /\ \A m \in kmaps : Reaches(VM, cur_pd, m) /\ m[1] \in Nat /\ m[1] \div PT_SIZE \in Slots
  BY Facts
<1>4. VM' = r
  <2>1. dirs[cur_pd].virt[job.slot] = x
    BY <1>3 DEF Virt
  <2> HIDE DEF x, t0
  <2> QED
    BY <1>1, <2>1 DEF VM, Filled
<1>5. t0 \in [pt : Nat, flags : Flags] /\ t0.flags = SlotFlags(VM, cur_pd, job.slot)
  <2>1. VM.dirs \in Seq(Dir)
    BY <1>3 DEF Memory
  <2>2. dirs[cur_pd] \in Dir
    BY <1>3, <2>1
  <2>3. dirs[cur_pd].tables \in SlotMap
    BY <2>2 DEF Dir
  <2> QED
    BY <1>2, <1>3, <2>3 DEF SlotMap, SlotFlags
<1>6. x \in 0 .. Len(tables) /\ ("PRESENT" \in t0.flags => x # NoTable)
  BY <1>2, <1>3, <1>5 DEF Sound
<1>7. \A d \in DOMAIN VM.dirs, s \in Slots :
         Virt(VM, d, s) = x /\ x # NoTable =>
             s = job.slot /\ \A j \in Entries : ~(Private \subseteq Pte(VM, x, j).flags)
  <2>1. \A d \in DOMAIN VM.dirs, s \in Slots : Virt(VM, d, s) = x /\ x # NoTable => s = job.slot
    BY <1>2, <1>3 DEF Sound
  <2>2. \A j \in Entries : x # NoTable => ~(Private \subseteq Pte(VM, x, j).flags)
    BY <1>2, <1>3 DEF Separate
  <2> QED
    BY <2>1, <2>2
<1> HIDE DEF t0, x
<1>8. /\ Sound(r) /\ Separate(r, cur_pd)
      /\ r.tables = VM.tables /\ r.frames = VM.frames /\ DOMAIN r.dirs = DOMAIN VM.dirs
      /\ Virt(r, job.dir, job.slot) = x /\ SlotFlags(r, job.dir, job.slot) = t0.flags
      /\ \A d \in DOMAIN VM.dirs, s \in Slots : d # job.dir \/ s # job.slot =>
            Virt(r, d, s) = Virt(VM, d, s) /\ SlotFlags(r, d, s) = SlotFlags(VM, d, s)
      /\ \A f : Elsewhere(VM, cur_pd, f) => Elsewhere(r, cur_pd, f)
      /\ \A m : m[1] \in Nat /\ m[1] \div PT_SIZE \in Slots /\ Reaches(VM, cur_pd, m) => Reaches(r, cur_pd, m)
  <2>1. PICK dir \in DOMAIN VM.dirs, slot \in Slots : dir = job.dir /\ slot = job.slot
    BY <1>2, <1>3
  <2>2. LET q == Filled(VM, dir, slot, t0, x) IN
        /\ Sound(q) /\ Separate(q, cur_pd)
        /\ q.tables = VM.tables /\ q.frames = VM.frames /\ DOMAIN q.dirs = DOMAIN VM.dirs
        /\ Virt(q, dir, slot) = x /\ SlotFlags(q, dir, slot) = t0.flags
        /\ \A d \in DOMAIN VM.dirs, s \in Slots : d # dir \/ s # slot =>
              Virt(q, d, s) = Virt(VM, d, s) /\ SlotFlags(q, d, s) = SlotFlags(VM, d, s)
        /\ \A f : Elsewhere(VM, cur_pd, f) => Elsewhere(q, cur_pd, f)
        /\ \A m : m[1] \in Nat /\ m[1] \div PT_SIZE \in Slots /\ Reaches(VM, cur_pd, m) => Reaches(q, cur_pd, m)
    <3>1. dir # cur_pd /\ ("PRESENT" \in t0.flags => x # NoTable) /\ x \in 0 .. Len(VM.tables)
      BY <1>2, <1>3, <1>6, <2>1
    <3>2. \A d \in DOMAIN VM.dirs, s \in Slots :
             Virt(VM, d, s) = x /\ x # NoTable =>
                 s = slot /\ \A j \in Entries : ~(Private \subseteq Pte(VM, x, j).flags)
      BY <1>7, <2>1
    <3>3. Sound(VM) /\ cur_pd \in DOMAIN VM.dirs /\ Separate(VM, cur_pd) /\ t0 \in [pt : Nat, flags : Flags]
      BY <1>3, <1>5
    <3> QED
      BY <3>1, <3>2, <3>3, FillSlot
  <2> QED
    BY <2>1, <2>2
<1> HIDE DEF r
<1>9. /\ job' \in Job /\ job'.slot = job.slot + 1 /\ job'.dir = job.dir /\ job'.table = NoTable /\ job'.pte = job.pte
      /\ job.slot + 1 \in 0 .. KernSlot + 1
  <2>1. PICK a \in Nat : a = job.slot + 1
    BY <1>2, Constants
  <2>2. job' = [job EXCEPT !.slot = a]
    BY <1>1, <2>1
  <2>3. job' \in Job /\ job'.slot = a /\ job'.dir = job.dir /\ job'.table = NoTable /\ job'.pte = job.pte
    BY <1>1, <1>2, <2>2 DEF Job
  <2> QED
    BY <1>2, <2>1, <2>3, Constants
<1>10. Len(dirs') = Len(dirs)
  <2>1. dirs' = r.dirs /\ r \in Memory
    BY <1>4, <1>8 DEF VM, Sound
  <2> QED
    BY <1>3, <1>8, <2>1, Lengths
<1>11. BootState'
  <2>1. CASE pc = "fork"
    BY <1>1, <2>1 DEF BootState
  <2>2. CASE pc = "spawn"
    <3>1. /\ copied = None /\ tlb = [w \in KernPages |-> None]
          /\ \A i \in DOMAIN tables, j \in Entries : "USER" \notin Pte(VM, i, j).flags
          /\ \A s \in Slots : "USER" \notin SlotFlags(VM, 1, s)
          /\ \A s \in UserSlots : SlotFlags(VM, 1, s) = {}
          /\ Len(dirs) = 2 /\ tasks[2].dir = 2
          /\ \A s \in Slots : s < job.slot =>
                SlotFlags(VM, 2, s) = SlotFlags(VM, 1, s) /\ Virt(VM, 2, s) = Virt(VM, 1, s)
      BY <2>2 DEF SInv, BootState
    <3>2. /\ \A i, j : Pte(VM', i, j) = Pte(VM, i, j)
          /\ \A s \in Slots : SlotFlags(VM', 1, s) = SlotFlags(VM, 1, s) /\ Virt(VM', 1, s) = Virt(VM, 1, s)
          /\ \A s \in Slots : s # job.slot =>
                SlotFlags(VM', 2, s) = SlotFlags(VM, 2, s) /\ Virt(VM', 2, s) = Virt(VM, 2, s)
          /\ SlotFlags(VM', 2, job.slot) = SlotFlags(VM, 1, job.slot) /\ Virt(VM', 2, job.slot) = Virt(VM, 1, job.slot)
      <4>1. \A i, j : Pte(VM', i, j) = Pte(VM, i, j)
        BY <1>4, <1>8 DEF Pte
      <4>2. 1 \in DOMAIN VM.dirs /\ 2 \in DOMAIN VM.dirs
        BY <1>3, <3>1
      <4> QED
        BY <1>2, <1>4, <1>5, <1>8, <2>2, <4>1, <4>2 DEF x
    <3>3. UserSlots \subseteq Slots
      BY Constants
    <3>4. \A s \in Slots : s < job.slot + 1 => s < job.slot \/ s = job.slot
      BY <1>2, Constants
    <3>5. \A s \in Slots : s < job'.slot =>
             SlotFlags(VM', 2, s) = SlotFlags(VM', 1, s) /\ Virt(VM', 2, s) = Virt(VM', 1, s)
      BY <1>9, <3>1, <3>2, <3>4
    <3>6. /\ \A i \in DOMAIN tables, j \in Entries : "USER" \notin Pte(VM', i, j).flags
          /\ \A s \in Slots : "USER" \notin SlotFlags(VM', 1, s)
          /\ \A s \in UserSlots : SlotFlags(VM', 1, s) = {}
      BY <3>1, <3>2, <3>3
    <3> QED
      BY <1>1, <1>2, <1>9, <1>10, <2>2, <3>1, <3>5, <3>6 DEF BootState
  <2> QED
    BY <1>2, <2>1, <2>2
<1>12. ForkState'
  BY <1>1, <1>2, <1>3, <1>9, <1>10 DEF SInv, ForkState, NoTable
<1>13. KernState'
  BY <1>1, <1>2, <1>3, <1>4, <1>8, KernKept DEF SInv
<1> QED
  BY <1>1, <1>4, <1>8, <1>11, <1>12, <1>13 DEF SInv

\* The memory vm with entry k of table x written, and frames F marked.
Wrote(vm, x, k, e, F) == [vm EXCEPT !.tables[x][k] = e, !.frames = F]

LEMMA WriteEntry ==
    ASSUME NEW vm \in Memory, NEW x \in DOMAIN vm.tables, NEW k \in Entries,
           NEW e \in [frame : Frames, flags : Flags], NEW F \in SUBSET Frames
    PROVE  LET r == Wrote(vm, x, k, e, F)
           IN  /\ r \in Memory /\ r.dirs = vm.dirs /\ r.frames = F /\ Len(r.tables) = Len(vm.tables)
               /\ \A i \in DOMAIN vm.tables, j \in Entries :
                     Pte(r, i, j) = IF i = x /\ j = k THEN e ELSE Pte(vm, i, j)
<1> DEFINE t == [vm.tables[x] EXCEPT ![k] = e]
           w == [vm EXCEPT !.tables[x] = t]
           r == Wrote(vm, x, k, e, F)
<1>1. vm.tables \in Seq(Table)
  BY DEF Memory, TableSeq
<1>2. vm.tables[x] \in Table
  BY <1>1
<1>3. t \in Table /\ t[k] = e /\ \A j \in Entries : j # k => t[j] = vm.tables[x][j]
  BY <1>2 DEF Table
<1>4. r = [w EXCEPT !.frames = F]
  BY DEF Wrote, Memory
<1> HIDE DEF t
<1>5. /\ w \in Memory /\ w.dirs = vm.dirs /\ Len(w.tables) = Len(vm.tables) /\ w.tables[x] = t
      /\ \A i \in DOMAIN vm.tables : i # x => w.tables[i] = vm.tables[i]
  BY <1>3, SetTable
<1> HIDE DEF w, r
<1>6. r \in Memory /\ r.dirs = w.dirs /\ r.tables = w.tables /\ r.frames = F
  BY <1>4, <1>5 DEF Memory
<1> QED
  BY <1>3, <1>5, <1>6 DEF Pte, r

LEMMA FlushPage ==
    ASSUME NEW t \in [KernPages -> Frames \cup {None}], NEW u \in flush_page(t)
    PROVE  u \in [KernPages -> Frames \cup {None}] /\ \A w \in KernPages : u[w] \in {None, t[w]}
  BY DEF flush_page

\* What an entry of a user's table is cloned from.
LEMMA ClonedEntry ==
    ASSUME SInv, Cloning, job.table # NoTable, job.pte \in Entries
    PROVE  LET e == tables[dirs[cur_pd].virt[job.slot]][job.pte]
           IN  /\ pc = "fork" /\ e \in [frame : Frames, flags : Flags]
               /\ "PRESENT" \in e.flags => e.frame \in frames
               /\ job.table \in DOMAIN VM.tables
               /\ \A d \in DOMAIN VM.dirs, s \in Slots : Virt(VM, d, s) # job.table
<1> DEFINE y == Virt(VM, cur_pd, job.slot)
           e == Pte(VM, y, job.pte)
<1>1. /\ job.slot \in Slots /\ job.table \in 0 .. Len(tables) /\ pc = "fork" /\ cur_pd = 2
  BY CloneFacts
<1>2. /\ VM \in Memory /\ VM.tables = tables /\ VM.dirs = dirs /\ VM.frames = frames /\ Sound(VM)
      /\ cur_pd \in DOMAIN VM.dirs /\ DOMAIN tables = 1 .. Len(tables) /\ Len(tables) \in Nat
  BY Facts
<1>3. "PRESENT" \in SlotFlags(VM, cur_pd, job.slot) /\ \A d \in DOMAIN VM.dirs, s \in Slots : Virt(VM, d, s) # job.table
  BY <1>1, <1>2 DEF SInv, ForkState, Private
<1>4. y \in DOMAIN tables
  BY <1>1, <1>2, <1>3 DEF Sound, NoTable
<1>5. e \in [frame : Frames, flags : Flags]
  <2>1. tables \in Seq(Table)
    BY <1>2 DEF Memory, TableSeq
  <2>2. tables[y] \in Table
    BY <1>4, <2>1
  <2> QED
    BY <1>2, <2>2 DEF Table, Pte
<1>6. "PRESENT" \in e.flags => e.frame \in frames
  BY <1>2, <1>4 DEF Sound
<1>7. e = tables[dirs[cur_pd].virt[job.slot]][job.pte]
  BY <1>2 DEF Pte, Virt
<1> QED
  BY <1>1, <1>2, <1>3, <1>5, <1>6, <1>7 DEF NoTable

\* An entry that is not the user's is shared.
LEMMA ClonePageShared ==
    ASSUME SInv, ClonePage,
           ~(Private \subseteq tables[dirs[cur_pd].virt[job.slot]][job.pte].flags)
    PROVE  SInv'
<1> DEFINE e == tables[dirs[cur_pd].virt[job.slot]][job.pte]
           x == job.table
           r == Wrote(VM, x, job.pte, e, frames)
<1>1. /\ Cloning /\ x # NoTable /\ job.pte \in Entries /\ job' = [job EXCEPT !.pte = @ + 1]
      /\ tables' = [tables EXCEPT ![x][job.pte] = e]
      /\ UNCHANGED <<dirs, frames, tlb, copied, kern_buddy, cur_pd, pc, access, kmaps>>
  BY DEF ClonePage, CloneUnchanged, Private
<1>2. /\ pc = "fork" /\ e \in [frame : Frames, flags : Flags] /\ ("PRESENT" \in e.flags => e.frame \in frames)
      /\ x \in DOMAIN VM.tables /\ \A d \in DOMAIN VM.dirs, s \in Slots : Virt(VM, d, s) # x
  BY <1>1, ClonedEntry
<1>3. /\ VM \in Memory /\ VM.tables = tables /\ VM.dirs = dirs /\ VM.frames = frames
      /\ Sound(VM) /\ Separate(VM, cur_pd) /\ cur_pd \in DOMAIN VM.dirs
      /\ Len(dirs) \in Nat /\ Len(tables) \in Nat /\ frames \in SUBSET Frames
      /\ \A m \in kmaps : Reaches(VM, cur_pd, m) /\ m[1] \in Nat /\ m[1] \div PT_SIZE \in Slots
  BY Facts
<1>4. job \in Job /\ job.pte \in 0 .. PT_SIZE
  BY <1>1, <1>2, CloneFacts
<1> HIDE DEF e
<1>5. VM' = r
  <2>1. PICK ts : ts = [tables EXCEPT ![x][job.pte] = e]
    OBVIOUS
  <2>2. VM' = [tables |-> ts, dirs |-> dirs, frames |-> frames]
    BY <1>1, <2>1 DEF VM
  <2>3. r = [VM EXCEPT !.tables = ts, !.frames = frames]
    BY <1>3, <2>1 DEF Wrote
  <2> HIDE DEF r
  <2> QED
    BY <2>2, <2>3 DEF VM
<1>6. /\ r \in Memory /\ r.dirs = VM.dirs /\ r.frames = frames /\ Len(r.tables) = Len(VM.tables)
      /\ \A i \in DOMAIN VM.tables, j \in Entries :
            Pte(r, i, j) = IF i = x /\ j = job.pte THEN e ELSE Pte(VM, i, j)
  BY <1>1, <1>2, <1>3, WriteEntry
<1> HIDE DEF r, x
<1>7. /\ Sound(r) /\ Separate(r, cur_pd)
      /\ \A f : Elsewhere(VM, cur_pd, f) => Elsewhere(r, cur_pd, f)
      /\ \A m : m[1] \in Nat /\ m[1] \div PT_SIZE \in Slots /\ Reaches(VM, cur_pd, m) => Reaches(r, cur_pd, m)
  <2>1. ~(Private \subseteq e.flags) /\ VM.frames \subseteq r.frames /\ ("PRESENT" \in e.flags => e.frame \in r.frames)
    BY <1>2, <1>3, <1>6 DEF e
  <2>2. PICK k \in Entries : k = job.pte
    BY <1>1
  <2>3. /\ r.dirs = VM.dirs /\ Len(r.tables) = Len(VM.tables) /\ r \in Memory
        /\ \A i \in DOMAIN VM.tables, j \in Entries :
              Pte(r, i, j) = IF i = x /\ j = k THEN e ELSE Pte(VM, i, j)
    BY <1>6, <2>2
  <2>4. Sound(VM) /\ cur_pd \in DOMAIN VM.dirs /\ Separate(VM, cur_pd)
    BY <1>3
  <2>5. Private \subseteq e.flags =>
          \A i \in DOMAIN VM.tables, j \in Entries :
             i # x /\ Private \subseteq Pte(VM, i, j).flags => Pte(VM, i, j).frame # e.frame
    BY <2>1
  <2>6. x \in DOMAIN VM.tables /\ \A d \in DOMAIN VM.dirs, s \in Slots : Virt(VM, d, s) # x
    BY <1>2 DEF x
  <2> QED
    BY <2>1, <2>3, <2>4, <2>5, <2>6, OrphanEntry
<1>8. BootState' /\ ForkState'
  <2>1. /\ job' \in Job /\ job'.slot = job.slot /\ job'.dir = job.dir /\ job'.table = job.table
        /\ job'.pte \in 0 .. PT_SIZE
    <3>1. PICK a \in Nat : a = job.pte + 1 /\ a \in 0 .. PT_SIZE
      <4>1. job.pte \in Nat /\ job.pte < PT_SIZE /\ PT_SIZE \in Nat
        <5>1. PT_SIZE \in Nat
          BY Constants
        <5>2. job.pte \in 0 .. PT_SIZE - 1
          BY <1>1 DEF Entries
        <5> QED
          BY <5>1, <5>2
      <4> QED
        BY <4>1
    <3>2. job' = [job EXCEPT !.pte = a]
      BY <1>1, <3>1
    <3> QED
      BY <1>4, <3>1, <3>2 DEF Job
  <2>2. /\ \A d, s : Virt(VM', d, s) = Virt(VM, d, s) /\ SlotFlags(VM', d, s) = SlotFlags(VM, d, s)
        /\ Len(tables') = Len(tables)
    BY <1>3, <1>5, <1>6 DEF Virt, SlotFlags, VM
  <2>3. /\ \A d \in DOMAIN dirs, s \in Slots :
              /\ Virt(VM', d, s) \in {Virt(VM, d, s), Len(tables) + 1}
              /\ "PRESENT" \in SlotFlags(VM, d, s) => SlotFlags(VM, d, s) \subseteq SlotFlags(VM', d, s)
        /\ Len(tables') >= Len(tables) /\ Len(tables') \in Nat
    BY <1>3, <2>2
  <2> QED
    BY <1>1, <1>2, <2>1, <2>3, CloneKept
<1>9. KernState'
  BY <1>1, <1>2, <1>3, <1>5, <1>7, KernKept DEF SInv
<1> QED
  BY <1>1, <1>5, <1>7, <1>8, <1>9 DEF SInv

\* A user's page gets a frame of its own and is copied through the window.
LEMMA ClonePageCopied ==
    ASSUME SInv, ClonePage,
           Private \subseteq tables[dirs[cur_pd].virt[job.slot]][job.pte].flags
    PROVE  SInv'
<1> DEFINE e0 == tables[dirs[cur_pd].virt[job.slot]][job.pte]
           found == find_alloc_nframes(frames, 1)
           f == found[1]
           e == [e0 EXCEPT !.frame = f]
           x == job.table
           k == job.pte
           F == frames \cup {f}
           vm == Wrote(VM, x, k, e, F)
           v == KernBlock(1)
           r == knmunmap_contiguous(MapFrames(vm, cur_pd, v, <<f>>, {"PRESENT"}), cur_pd, v)
<1>1. /\ Cloning /\ x # NoTable /\ k \in Entries /\ job' = [job EXCEPT !.pte = @ + 1] /\ found # <<>>
      /\ copy_page([VM EXCEPT !.tables[x][k] = e, !.frames = @ \cup {f}], f)
      /\ UNCHANGED <<kern_buddy, cur_pd, pc, access, kmaps>>
  BY DEF ClonePage, CloneUnchanged, Private
<1>2. /\ pc = "fork" /\ e0 \in [frame : Frames, flags : Flags]
      /\ x \in DOMAIN VM.tables /\ \A d \in DOMAIN VM.dirs, s \in Slots : Virt(VM, d, s) # x
  BY <1>1, ClonedEntry
<1>3. /\ VM \in Memory /\ VM.tables = tables /\ VM.dirs = dirs /\ VM.frames = frames
      /\ Sound(VM) /\ Separate(VM, cur_pd) /\ cur_pd \in DOMAIN VM.dirs
      /\ Len(dirs) \in Nat /\ Len(tables) \in Nat /\ frames \in SUBSET Frames
      /\ \A m \in kmaps : Reaches(VM, cur_pd, m) /\ m[1] \in Nat /\ m[1] \div PT_SIZE \in Slots
  BY Facts
<1>4. f \in Frames \ frames
  BY <1>1, <1>3, Found
<1>5. job \in Job /\ job.pte \in 0 .. PT_SIZE
  BY <1>1, <1>2, CloneFacts
<1> HIDE DEF e0, found, f
<1>6. e \in [frame : Frames, flags : Flags] /\ e.frame = f
  BY <1>2, <1>4
<1>7. vm = [VM EXCEPT !.tables[x][k] = e, !.frames = @ \cup {f}]
  BY <1>3 DEF Wrote
<1> HIDE DEF e, k
<1>8. F \in SUBSET Frames /\ F = VM.frames \cup {f} /\ f \in F
  BY <1>3, <1>4
<1> HIDE DEF F
<1>9. /\ vm \in Memory /\ vm.dirs = VM.dirs /\ vm.frames = F /\ Len(vm.tables) = Len(VM.tables)
      /\ \A i \in DOMAIN VM.tables, j \in Entries :
            Pte(vm, i, j) = IF i = x /\ j = k THEN e ELSE Pte(VM, i, j)
  BY <1>1, <1>2, <1>3, <1>6, <1>8, WriteEntry
<1>10. PICK before \in flush_page(tlb) :
         LET hit == IF before[v] = None THEN f ELSE before[v]
         IN  copied' = hit /\ tlb' \in flush_page([before EXCEPT ![v] = hit]) /\ SetVM(r)
  BY <1>1, <1>7 DEF copy_page
<1> HIDE DEF vm, x
<1>11. /\ Sound(vm) /\ Separate(vm, cur_pd)
       /\ \A g : Elsewhere(VM, cur_pd, g) => Elsewhere(vm, cur_pd, g)
       /\ \A m : m[1] \in Nat /\ m[1] \div PT_SIZE \in Slots /\ Reaches(VM, cur_pd, m) => Reaches(vm, cur_pd, m)
  <2>1. VM.frames \subseteq vm.frames /\ ("PRESENT" \in e.flags => e.frame \in vm.frames)
    BY <1>6, <1>8, <1>9
  <2>2. Private \subseteq e.flags =>
          \A i \in DOMAIN VM.tables, j \in Entries :
             i # x /\ Private \subseteq Pte(VM, i, j).flags => Pte(VM, i, j).frame # e.frame
    BY <1>3, <1>4, <1>6 DEF Sound, Private
  <2>3. x \in DOMAIN VM.tables /\ \A d \in DOMAIN VM.dirs, s \in Slots : Virt(VM, d, s) # x
    BY <1>2 DEF x
  <2>4. Sound(VM) /\ cur_pd \in DOMAIN VM.dirs /\ Separate(VM, cur_pd)
    BY <1>3
  <2>5. /\ vm.dirs = VM.dirs /\ Len(vm.tables) = Len(VM.tables) /\ vm \in Memory /\ k \in Entries
        /\ \A i \in DOMAIN VM.tables, j \in Entries :
              Pte(vm, i, j) = IF i = x /\ j = k THEN e ELSE Pte(VM, i, j)
    BY <1>1, <1>9
  <2> QED
    BY <2>1, <2>2, <2>3, <2>4, <2>5, OrphanEntry, SMTT(30)
<1>12. Elsewhere(vm, cur_pd, f)
  <2>1. ASSUME NEW s \in Slots, NEW j \in Entries, Virt(vm, cur_pd, s) # NoTable,
               "PRESENT" \in Pte(vm, Virt(vm, cur_pd, s), j).flags
        PROVE  Pte(vm, Virt(vm, cur_pd, s), j).frame # f
    <3>1. Virt(vm, cur_pd, s) = Virt(VM, cur_pd, s) /\ Virt(VM, cur_pd, s) # x
      BY <1>2, <1>3, <1>9 DEF Virt, x
    <3>2. Virt(VM, cur_pd, s) \in DOMAIN VM.tables
      BY <1>3, <2>1, <3>1, Lengths DEF Sound, NoTable
    <3>3. Pte(vm, Virt(vm, cur_pd, s), j) = Pte(VM, Virt(VM, cur_pd, s), j)
      BY <1>9, <3>1, <3>2
    <3> QED
      BY <1>3, <1>4, <2>1, <3>1, <3>2, <3>3 DEF Sound
  <2> QED
    BY <1>8, <1>9, <2>1 DEF Elsewhere
<1>13. kern_buddy = InitrdBlock /\ v \in KernPages \ InitrdBlock /\ tlb \in [KernPages -> Frames \cup {None}]
  <2>1. kern_buddy = InitrdBlock /\ tlb \in [KernPages -> Frames \cup {None}]
    BY <1>2 DEF SInv, KernState
  <2> QED
    BY <2>1, WindowBlocks
<1> HIDE DEF v
<1>14. /\ Sound(r) /\ Separate(r, cur_pd) /\ r.frames = vm.frames
       /\ DOMAIN r.dirs = DOMAIN vm.dirs /\ Len(r.tables) >= Len(vm.tables)
       /\ \A d \in DOMAIN vm.dirs, s \in Slots :
             /\ Virt(r, d, s) \in {Virt(vm, d, s), Len(vm.tables) + 1}
             /\ "PRESENT" \in SlotFlags(vm, d, s) => SlotFlags(vm, d, s) \subseteq SlotFlags(r, d, s)
       /\ \A g : Elsewhere(vm, cur_pd, g) => Elsewhere(r, cur_pd, g)
       /\ \A m : m[1] \in Nat /\ m[1] \div PT_SIZE \in Slots /\ m[1] # v /\ Reaches(vm, cur_pd, m)
             => Reaches(r, cur_pd, m)
  <2>1. cur_pd \in DOMAIN vm.dirs /\ f \in vm.frames /\ v \in KernPages
    BY <1>3, <1>8, <1>9, <1>13
  <2> QED
    BY <1>11, <2>1, CopyEffect
<1> HIDE DEF r
<1>15. VM' = r /\ dirs' = r.dirs /\ tables' = r.tables /\ r \in Memory
  <2>1. r \in Memory
    BY <1>14 DEF Sound
  <2> QED
    BY <1>10, <2>1, NewMemory DEF SetVM
<1>16. BootState' /\ ForkState'
  <2>1. /\ job' \in Job /\ job'.slot = job.slot /\ job'.dir = job.dir /\ job'.table = job.table
        /\ job'.pte \in 0 .. PT_SIZE
    <3>1. PICK a \in Nat : a = job.pte + 1 /\ a \in 0 .. PT_SIZE
      <4>1. PT_SIZE \in Nat
        BY Constants
      <4>2. job.pte \in 0 .. PT_SIZE - 1
        BY <1>1 DEF Entries, k
      <4> QED
        BY <4>1, <4>2
    <3>2. job' = [job EXCEPT !.pte = a]
      BY <1>1, <3>1
    <3> QED
      BY <1>5, <3>1, <3>2 DEF Job
  <2>2. \A d, s : Virt(vm, d, s) = Virt(VM, d, s) /\ SlotFlags(vm, d, s) = SlotFlags(VM, d, s)
    BY <1>9 DEF Virt, SlotFlags
  <2>3. /\ \A d \in DOMAIN dirs, s \in Slots :
              /\ Virt(VM', d, s) \in {Virt(VM, d, s), Len(tables) + 1}
              /\ "PRESENT" \in SlotFlags(VM, d, s) => SlotFlags(VM, d, s) \subseteq SlotFlags(VM', d, s)
        /\ DOMAIN dirs' = DOMAIN dirs /\ Len(tables') >= Len(tables)
    BY <1>3, <1>9, <1>14, <1>15, <2>2
  <2>4. Len(tables') \in Nat /\ Len(dirs') = Len(dirs)
    BY <1>3, <1>15, <2>3, Lengths
  <2> QED
    BY <1>1, <1>2, <2>1, <2>3, <2>4, CloneKept
<1>17. KernState'
  <2>1. before \in [KernPages -> Frames \cup {None}] /\ \A w \in KernPages : before[w] \in {None, tlb[w]}
    BY <1>10, <1>13, FlushPage
  <2>2. PICK hit : hit = IF before[v] = None THEN f ELSE before[v]
    OBVIOUS
  <2>3. copied' = hit /\ tlb' \in flush_page([before EXCEPT ![v] = hit])
    BY <1>10, <2>2
  <2>4. \A w \in KernPages : tlb[w] # None => Elsewhere(r, cur_pd, tlb[w])
    BY <1>11, <1>14 DEF SInv, KernState
  <2>5. hit \in Frames /\ Elsewhere(r, cur_pd, hit)
    <3>1. CASE before[v] = None
      BY <1>4, <1>12, <1>14, <2>2, <3>1
    <3>2. CASE before[v] # None
      BY <1>13, <2>1, <2>2, <2>4, <3>2
    <3> QED
      BY <3>1, <3>2
  <2>6. PICK u \in [KernPages -> Frames \cup {None}] :
           u = [before EXCEPT ![v] = hit] /\ \A w \in KernPages : u[w] \in {None, tlb[w], hit}
    <3> DEFINE u == [before EXCEPT ![v] = hit]
    <3>1. u \in [KernPages -> Frames \cup {None}]
      BY <2>1, <2>5
    <3>2. \A w \in KernPages : u[w] = before[w] \/ u[w] = hit
      BY <2>1
    <3>3. \A w \in KernPages : u[w] \in {None, tlb[w], hit}
      BY <2>1, <3>2
    <3> QED
      BY <3>1, <3>3
  <2>7. tlb' \in [KernPages -> Frames \cup {None}] /\ \A w \in KernPages : tlb'[w] \in {None, u[w]}
    BY <2>3, <2>6, FlushPage
  <2>8. \A w \in KernPages : tlb'[w] # None => Elsewhere(r, cur_pd, tlb'[w])
    BY <2>4, <2>5, <2>6, <2>7
  <2>9. ASSUME NEW m \in kmaps PROVE Reaches(r, cur_pd, m)
    <3>1. m[1] \in InitrdBlock \/ m[1] \div PT_SIZE = HeapSlot
      BY DEF SInv, KernState
    <3>2. m[1] # v
      <4>1. v \div PT_SIZE = KernSlot /\ KernSlot # HeapSlot
        BY <1>13, PageSlots, Constants
      <4> QED
        BY <1>13, <3>1, <4>1
    <3> QED
      BY <1>3, <1>11, <1>14, <3>2
  <2>10. \A m \in kmaps : m[1] \in Nat /\ (m[1] \in InitrdBlock \/ m[1] \div PT_SIZE = HeapSlot)
    BY DEF SInv, KernState
  <2> QED
    BY <1>1, <1>2, <1>13, <1>15, <2>3, <2>5, <2>7, <2>8, <2>9, <2>10 DEF KernState
<1> QED
  BY <1>1, <1>14, <1>15, <1>16, <1>17 DEF SInv

LEMMA SameLength == ASSUME NEW a \in Nat, NEW b \in Nat, 1 .. a = 1 .. b PROVE a = b
<1>1. ASSUME a > b PROVE FALSE
  <2>1. a \in 1 .. a /\ a \notin 1 .. b
    BY <1>1
  <2> QED
    BY <2>1
<1>2. ASSUME b > a PROVE FALSE
  <2>1. b \in 1 .. b /\ b \notin 1 .. a
    BY <1>2
  <2> QED
    BY <2>1
<1> QED
  BY <1>1, <1>2

LEMMA SpawnStep == ASSUME SInv, spawn_init PROVE SInv'
<1> DEFINE v == WindowStart
           vm == MapFrames(VM, cur_pd, v, InitrdFrames, {"PRESENT"})
           r == [vm EXCEPT !.dirs = Append(@, NewDir)]
           new == {<<v + i - 1, InitrdFrames[i]>> : i \in DOMAIN InitrdFrames}
<1>1. /\ pc = "boot" /\ pc' = "spawn" /\ UNCHANGED <<tlb, cur_pd, access, copied>> /\ fork_task
      /\ LET w == KernBlock(Len(InitrdFrames))
             q == MapFrames(VM, cur_pd, w, InitrdFrames, {"PRESENT"})
         IN  /\ SetVM([q EXCEPT !.dirs = Append(@, NewDir)])
             /\ kern_buddy' = w .. w + BlockPages(Len(InitrdFrames)) - 1
             /\ kmaps' = {<<w + i - 1, InitrdFrames[i]>> : i \in DOMAIN InitrdFrames}
  BY DEF spawn_init
<1>2. /\ cur_pd = 1 /\ copied = None /\ tlb = [w \in KernPages |-> None] /\ access = NoAccess
      /\ kern_buddy = {} /\ kmaps = {} /\ Len(dirs) = 1 /\ cur_task = 1
      /\ tasks = << [id |-> 0, dir |-> 1, state |-> "RUNNING", buddy |-> {}] >>
      /\ \A i \in DOMAIN tables, j \in Entries : "USER" \notin Pte(VM, i, j).flags
      /\ \A s \in Slots : "USER" \notin SlotFlags(VM, 1, s)
      /\ \A s \in UserSlots : SlotFlags(VM, 1, s) = {}
  BY <1>1 DEF SInv, BootState, ForkState
<1>3. KernBlock(Len(InitrdFrames)) = v
  BY <1>2, WindowBlocks
<1>4. SetVM(r) /\ kern_buddy' = InitrdBlock /\ kmaps' = new
  BY <1>1, <1>3 DEF InitrdBlock
<1>5. /\ VM \in Memory /\ VM.tables = tables /\ VM.dirs = dirs /\ VM.frames = frames
      /\ Sound(VM) /\ Separate(VM, cur_pd) /\ cur_pd \in DOMAIN VM.dirs
      /\ Len(tables) \in Nat /\ DOMAIN tables = 1 .. Len(tables)
  BY Facts
<1>6. v \in Nat /\ v \div PT_SIZE = KernSlot /\ v % PT_SIZE = 0 /\ KernSlot \in Slots /\ PT_SIZE \in Nat \ {0}
  <2>1. KernSlot \in Nat /\ PT_SIZE \in Nat \ {0} /\ KernSlot \in Slots
    BY Constants
  <2>2. v \in Nat /\ v = KernSlot * PT_SIZE + 0 /\ 0 < PT_SIZE
    BY <2>1 DEF WindowStart
  <2> HIDE DEF v
  <2> QED
    BY <2>1, <2>2, Division
<1>7. \A i \in DOMAIN InitrdFrames : i \in Nat \ {0} /\ i < PT_SIZE /\ InitrdFrames[i] \in Frames
  <2>1. InitrdFrames \in Seq(BootFrames) /\ BootFrames \subseteq Frames /\ PT_SIZE \in Nat
    BY Constants
  <2>2. Len(InitrdFrames) < PT_SIZE
    BY <2>1, BlockAssumption
  <2> QED
    BY <2>1, <2>2
<1>8. PICK flags \in Flags : flags = {"PRESENT"}
  BY DEF Flags
<1> HIDE DEF v
<1>9. /\ Effect(VM, vm, 1, v, InitrdFrames, flags) /\ vm.frames = VM.frames \cup Range(InitrdFrames)
      /\ \A i \in DOMAIN InitrdFrames : InitrdFrames[i] \in vm.frames
  <2>1. LET q == MapFrames(VM, cur_pd, v, InitrdFrames, flags)
        IN  /\ Effect(VM, q, cur_pd, v, InitrdFrames, flags) /\ q.frames = VM.frames \cup Range(InitrdFrames)
            /\ \A i \in DOMAIN InitrdFrames : InitrdFrames[i] \in q.frames
    BY <1>5, <1>6, <1>7, MapEffect
  <2> QED
    BY <1>2, <1>8, <2>1
<1> HIDE DEF vm
<1>10. Sound(vm) /\ Separate(vm, 1) /\ 1 \in DOMAIN vm.dirs /\ Len(vm.dirs) = 1 /\ vm \in Memory
  <2>1. VM.frames \subseteq vm.frames /\ ~(Private \subseteq flags)
    BY <1>8, <1>9 DEF Private
  <2>2. 1 \in DOMAIN VM.dirs /\ Separate(VM, 1)
    BY <1>2, <1>5
  <2>3. Sound(vm)
    BY <1>5, <1>6, <1>9, <2>1, <2>2, EffectSound
  <2>4. Separate(vm, 1)
    BY <1>5, <1>6, <1>9, <2>1, <2>2, EffectSeparate
  <2>5. DOMAIN vm.dirs = DOMAIN VM.dirs /\ vm \in Memory
    BY <1>9 DEF Effect
  <2>6. Len(vm.dirs) = 1
    <3>1. 1 .. Len(vm.dirs) = 1 .. Len(VM.dirs) /\ Len(vm.dirs) \in Nat /\ Len(VM.dirs) = 1
      BY <1>2, <1>5, <2>5, Lengths
    <3> QED
      BY <3>1, SameLength
  <2> QED
    BY <2>2, <2>3, <2>4, <2>5, <2>6
<1>11. /\ Sound(r) /\ Separate(r, 1) /\ Len(r.dirs) = Len(vm.dirs) + 1
       /\ r.tables = vm.tables /\ r.frames = vm.frames
       /\ \A d \in DOMAIN vm.dirs : r.dirs[d] = vm.dirs[d]
  BY <1>10, AppendDir
<1> HIDE DEF r
<1>12. VM' = r /\ dirs' = r.dirs /\ tables' = r.tables /\ r \in Memory
  <2>1. r \in Memory
    BY <1>11 DEF Sound
  <2> QED
    BY <1>4, <2>1, NewMemory DEF SetVM
<1>13. /\ \A s \in Slots : Virt(r, 1, s) = Virt(vm, 1, s) /\ SlotFlags(r, 1, s) = SlotFlags(vm, 1, s)
       /\ \A i, j : Pte(r, i, j) = Pte(vm, i, j)
  BY <1>10, <1>11 DEF Virt, SlotFlags, Pte
<1>14. BootState'
  <2> DEFINE old == "PRESENT" \in SlotFlags(VM, 1, KernSlot)
             x == Virt(vm, 1, KernSlot)
             n == Len(VM.tables)
  <2>1. ASSUME NEW i \in DOMAIN vm.tables, NEW j \in Entries PROVE "USER" \notin Pte(vm, i, j).flags
    <3>1. CASE i = x
      <4>1. \/ Pte(vm, x, j).flags = flags
            \/ Pte(vm, x, j) = IF old THEN Pte(VM, Virt(VM, 1, KernSlot), j) ELSE Absent
        <5>1. LET e == Pte(vm, Virt(vm, 1, v \div PT_SIZE), j)
              IN  \/ e.flags = flags /\ \E h \in DOMAIN InitrdFrames : e.frame = InitrdFrames[h]
                  \/ e = IF "PRESENT" \in SlotFlags(VM, 1, v \div PT_SIZE)
                         THEN Pte(VM, Virt(VM, 1, v \div PT_SIZE), j) ELSE Absent
          BY <1>9, WrittenEntry
        <5> QED
          BY <1>6, <5>1
      <4>2. old => Virt(VM, 1, KernSlot) \in DOMAIN tables
        BY <1>2, <1>5, <1>6, Lengths DEF Sound, NoTable
      <4> QED
        BY <1>2, <1>8, <3>1, <4>1, <4>2 DEF Absent
    <3>2. CASE i # x
      <4>1. /\ DOMAIN vm.tables = 1 .. Len(vm.tables) /\ (Len(vm.tables) = IF old THEN n ELSE n + 1)
            /\ (x = IF old THEN Virt(VM, 1, KernSlot) ELSE n + 1) /\ n \in Nat /\ n = Len(tables)
        BY <1>5, <1>6, <1>9, <1>10, Lengths DEF Effect
      <4>2. i \in 1 .. n
        BY <3>2, <4>1
      <4>3. Pte(vm, i, j) = Pte(VM, i, j)
        BY <1>6, <1>9, <3>2, <4>2 DEF Effect
      <4> QED
        BY <1>2, <1>5, <4>1, <4>2, <4>3
    <3> QED
      BY <3>1, <3>2
  <2>2. \A s \in Slots : s # KernSlot => SlotFlags(vm, 1, s) = SlotFlags(VM, 1, s)
    BY <1>2, <1>5, <1>6, <1>9 DEF Effect
  <2>3. "USER" \notin SlotFlags(vm, 1, KernSlot)
    <3>1. SlotFlags(vm, 1, KernSlot) = IF old THEN SlotFlags(VM, 1, KernSlot) \cup flags ELSE flags
      BY <1>6, <1>9 DEF Effect
    <3> QED
      BY <1>2, <1>6, <1>8, <3>1
  <2>4. \A s \in UserSlots : s \in Slots /\ s # KernSlot
    BY Constants DEF UserSlots
  <2>5. /\ \A i \in DOMAIN tables', j \in Entries : "USER" \notin Pte(VM', i, j).flags
        /\ \A s \in Slots : "USER" \notin SlotFlags(VM', 1, s)
        /\ \A s \in UserSlots : SlotFlags(VM', 1, s) = {}
    BY <1>2, <1>11, <1>12, <1>13, <2>1, <2>2, <2>3, <2>4
  <2>6. /\ job'.dir = 2 /\ job'.table = NoTable /\ job'.slot = 0 /\ Len(dirs') = 2
    BY <1>1, <1>2, <1>10, <1>11, <1>12 DEF fork_task
  <2>7. tasks'[2].dir = 2
    <3>1. PICK t : /\ tasks' = Append(tasks, t)
                   /\ \E kind : t = [tasks[cur_task] EXCEPT !.id = last_tid[kind] + 1,
                                                         !.dir = Len(dirs) + 1, !.state = "IDLE"]
      BY <1>1 DEF fork_task
    <3>2. t.dir = 2
      BY <1>2, <3>1
    <3>3. tasks'[2] = t
      BY <1>2, <3>1
    <3> QED
      BY <3>2, <3>3
  <2>8. 0 \in 0 .. KernSlot + 1 /\ \A s \in Slots : ~(s < 0)
    BY Constants
  <2> QED
    BY <1>1, <1>2, <2>5, <2>6, <2>7, <2>8 DEF BootState
<1>15. ForkState'
  <2>1. job' \in Job
    BY <1>1, <1>2 DEF fork_task, Job, NoTable
  <2> QED
    BY <1>1, <1>2, <2>1 DEF ForkState
<1>16. KernState'
  <2>1. ASSUME NEW m \in new PROVE Reaches(r, 1, m) /\ m[1] \in Nat /\ m[1] \in InitrdBlock
    <3>1. PICK i \in DOMAIN InitrdFrames : m = <<v + i - 1, InitrdFrames[i]>>
      BY <2>1
    <3>2. i \in Nat \ {0} /\ (v % PT_SIZE) + i <= PT_SIZE
      BY <1>6, <1>7
    <3>3. "PRESENT" \in flags
      BY <1>8
    <3>4. /\ Reaches(vm, 1, <<v + i - 1, InitrdFrames[i]>>)
          /\ v + i - 1 \in Nat /\ (v + i - 1) \div PT_SIZE = v \div PT_SIZE
      BY <1>6, <1>9, <3>2, <3>3, EffectMaps
    <3>5. Reaches(vm, 1, m) /\ m[1] = v + i - 1 /\ m[1] \in Nat /\ m[1] \div PT_SIZE \in Slots
      BY <1>6, <3>1, <3>4
    <3>6. Reaches(r, 1, m)
      BY <1>13, <3>5 DEF Reaches
    <3>7. m[1] \in InitrdBlock
      <4>1. PICK B \in Nat : B = BlockPages(Len(InitrdFrames)) /\ i <= B
        BY Constants, BlockAssumption
      <4>2. InitrdBlock = v .. v + B - 1
        BY <4>1 DEF InitrdBlock, v
      <4>3. v \in Nat /\ i \in Nat \ {0} /\ m[1] = v + i - 1
        BY <1>6, <3>2, <3>5
      <4>4. v + i - 1 \in v .. v + B - 1
        BY <4>1, <4>3
      <4> QED
        BY <4>2, <4>3, <4>4
    <3> QED
      BY <3>5, <3>6, <3>7
  <2>2. tlb' \in [KernPages -> Frames \cup {None}] /\ \A w \in KernPages : tlb'[w] = None
    BY <1>1, <1>2
  <2> HIDE DEF new
  <2> QED
    BY <1>1, <1>2, <1>4, <1>12, <2>1, <2>2 DEF KernState
<1> QED
  BY <1>1, <1>2, <1>11, <1>12, <1>14, <1>15, <1>16 DEF SInv

LEMMA EnterStep == ASSUME SInv, EnterInit PROVE SInv'
<1> DEFINE r == load_elf(VM, 2).vm
<1>1. /\ pc = "spawn" /\ pc' = "user" /\ job.slot \notin Slots /\ SetVM(load_elf(VM, job.dir).vm)
      /\ cur_pd' = tasks[2].dir /\ tlb' = [w \in KernPages |-> None]
      /\ UNCHANGED <<kern_buddy, access, copied, kmaps>>
  BY DEF EnterInit
<1>2. /\ cur_pd = 1 /\ copied = None /\ access = NoAccess /\ job.dir = 2 /\ Len(dirs) = 2 /\ tasks[2].dir = 2
      /\ job.slot \in 0 .. KernSlot + 1
      /\ \A i \in DOMAIN tables, j \in Entries : "USER" \notin Pte(VM, i, j).flags
      /\ \A s \in UserSlots : SlotFlags(VM, 1, s) = {}
      /\ \A s \in Slots : s < job.slot =>
            SlotFlags(VM, 2, s) = SlotFlags(VM, 1, s) /\ Virt(VM, 2, s) = Virt(VM, 1, s)
  BY <1>1 DEF SInv, BootState, ForkState
<1>3. /\ VM.tables = tables /\ VM.dirs = dirs /\ VM.frames = frames
      /\ Sound(VM) /\ DOMAIN dirs = 1 .. Len(dirs)
      /\ \A m \in kmaps : /\ Reaches(VM, cur_pd, m) /\ m[1] \in Nat
                          /\ m[1] \div PT_SIZE \in Slots \ UserSlots
  BY Facts
<1>4. \A s \in Slots : SlotFlags(VM, 2, s) = SlotFlags(VM, 1, s) /\ Virt(VM, 2, s) = Virt(VM, 1, s)
  <2>1. \A s \in Slots : s < job.slot
    BY <1>1, <1>2, Constants
  <2> QED
    BY <1>2, <2>1
<1>5. /\ Sound(r) /\ Separate(r, 2) /\ DOMAIN r.dirs = DOMAIN VM.dirs
      /\ \A m : m[1] \in Nat /\ m[1] \div PT_SIZE \in Slots \ UserSlots /\ Reaches(VM, 2, m)
            => Reaches(r, 2, m)
  <2>1. \A s \in UserSlots : "PRESENT" \notin SlotFlags(VM, 2, s)
    BY <1>2, <1>4, Constants
  <2>2. 2 \in DOMAIN VM.dirs /\ \A i \in DOMAIN VM.tables, j \in Entries : "USER" \notin Pte(VM, i, j).flags
    BY <1>2, <1>3
  <2> QED
    BY <1>3, <2>1, <2>2, LoadEffect
<1>6. SetVM(r)
  BY <1>1, <1>2
<1> HIDE DEF r
<1>7. VM' = r /\ Len(dirs') = 2
  <2>1. r \in Memory
    BY <1>5 DEF Sound
  <2>2. VM' = r /\ dirs' = r.dirs
    BY <1>6, <2>1, NewMemory DEF SetVM
  <2>3. 1 .. Len(r.dirs) = 1 .. Len(dirs) /\ Len(r.dirs) \in Nat
    BY <1>3, <1>5, <2>1, Lengths
  <2>4. Len(r.dirs) = 2
    BY <1>2, <2>3, SameLength
  <2> QED
    BY <2>2, <2>4
<1>8. BootState' /\ ForkState'
  BY <1>1, <1>2, <1>7 DEF BootState, ForkState
<1>9. KernState'
  <2>1. ASSUME NEW m \in kmaps PROVE Reaches(r, 2, m)
    <3>1. Reaches(VM, 2, m)
      BY <1>2, <1>3, <1>4 DEF Reaches
    <3> QED
      BY <1>3, <1>5, <3>1
  <2>2. tlb' \in [KernPages -> Frames \cup {None}] /\ \A w \in KernPages : tlb'[w] = None
    BY <1>1
  <2> QED
    BY <1>1, <1>2, <1>7, <2>1, <2>2 DEF SInv, KernState
<1> QED
  BY <1>1, <1>2, <1>5, <1>7, <1>8, <1>9 DEF SInv

----------------------------------------------------------------------------
\* The theorems.

\* Every step of the kernel and of its processes keeps the tables sound, the
\* user pages apart, stale translations off the pages in use, and the kernel's
\* pages in view of the directory in use.
THEOREM SpaceInvariance == Spec => []SInv
<1>1. Init => SInv
  BY InitStep
<1>2. SInv /\ [Next]_vars => SInv'
  <2> SUFFICES ASSUME SInv, [Next]_vars PROVE SInv'
    OBVIOUS
  <2>1. CASE CloneSlot
    BY <2>1, CloneNewTable, CloneShared
  <2>2. CASE ClonePage
    BY <2>2, ClonePageShared, ClonePageCopied
  <2>3. CASE UNCHANGED vars
    BY <2>3, StutterStep
  <2> QED
    BY <2>1, <2>2, <2>3, SpawnStep, EnterStep, CloneFailsStep, CloneTableDoneStep, GrowHeapStep, ForkStep,
       QuietSteps, PageFaultStep DEF Next
<1> QED
  BY <1>1, <1>2, PTL DEF Spec

\* The frames of a directory, in terms of its tables.
LEMMA FramesReached ==
    ASSUME SInv, NEW d \in DOMAIN dirs, NEW flags \in Flags, NEW f \in FramesOf(d, flags)
    PROVE  \E s \in Slots, j \in Entries :
              /\ Virt(VM, d, s) # NoTable /\ Virt(VM, d, s) \in DOMAIN tables
              /\ flags \subseteq Pte(VM, Virt(VM, d, s), j).flags
              /\ f = Pte(VM, Virt(VM, d, s), j).frame
<1>1. PICK e \in EntriesOf(d) : /\ flags \subseteq tables[dirs[d].virt[e[1]]][e[2]].flags
                                /\ f = tables[dirs[d].virt[e[1]]][e[2]].frame
  BY DEF FramesOf
<1>2. e[1] \in Slots /\ e[2] \in Entries /\ dirs[d].virt[e[1]] # NoTable
  BY DEF EntriesOf
<1>3. PICK s \in Slots, j \in Entries : s = e[1] /\ j = e[2]
  BY <1>2
<1>4. /\ Virt(VM, d, s) = dirs[d].virt[s] /\ Pte(VM, Virt(VM, d, s), j) = tables[dirs[d].virt[s]][j]
  BY DEF Virt, Pte, VM
<1>5. Virt(VM, d, s) \in DOMAIN tables
  <2>1. Sound(VM) /\ VM.tables = tables /\ VM.dirs = dirs /\ DOMAIN tables = 1 .. Len(tables) /\ Len(tables) \in Nat
    BY Facts
  <2> QED
    BY <1>2, <1>3, <1>4, <2>1 DEF Sound, NoTable
<1> QED
  BY <1>1, <1>2, <1>3, <1>4, <1>5

\* A frame that any directory maps stays marked in the bitmap, whatever clones,
\* copies, faults and growth of the heap do: knmunmap_contiguous "frees" a virtual
\* address, which is the number of no frame.
THEOREM MappedFramesMarked == Spec => []FramesMarked
<1>1. SInv => FramesMarked
  <2> SUFFICES ASSUME SInv, NEW d \in DOMAIN dirs, NEW f \in FramesOf(d, {"PRESENT"}) PROVE f \in frames
    BY DEF FramesMarked
  <2>1. PICK flags \in Flags : flags = {"PRESENT"}
    BY DEF Flags
  <2>2. f \in FramesOf(d, flags)
    BY <2>1
  <2>3. PICK s \in Slots, j \in Entries :
          /\ Virt(VM, d, s) \in DOMAIN tables /\ flags \subseteq Pte(VM, Virt(VM, d, s), j).flags
          /\ f = Pte(VM, Virt(VM, d, s), j).frame
    BY <2>2, FramesReached
  <2>4. Sound(VM) /\ VM.tables = tables /\ VM.frames = frames
    BY Facts
  <2> QED
    BY <2>1, <2>3, <2>4 DEF Sound
<1> QED
  BY <1>1, SpaceInvariance, PTL

\* Two processes never reach one frame through user pages: fork copies every one
\* of them, and a fault gives the directory in use a frame that nobody has.
THEOREM ProcessesSeparate == Spec => []ClonesDisjoint
<1>1. SInv => ClonesDisjoint
  <2> SUFFICES ASSUME SInv, NEW d \in DOMAIN dirs, NEW e \in DOMAIN dirs, d # e,
                      NEW f \in FramesOf(d, {"PRESENT", "USER"}), f \in FramesOf(e, {"PRESENT", "USER"})
               PROVE  FALSE
    BY DEF ClonesDisjoint
  <2>1. Private \in Flags /\ f \in FramesOf(d, Private) /\ f \in FramesOf(e, Private)
    BY DEF Flags, Private
  <2>2. PICK s \in Slots, j \in Entries :
          /\ Virt(VM, d, s) # NoTable /\ Virt(VM, d, s) \in DOMAIN tables
          /\ Private \subseteq Pte(VM, Virt(VM, d, s), j).flags
          /\ f = Pte(VM, Virt(VM, d, s), j).frame
    BY <2>1, FramesReached
  <2>3. PICK t \in Slots, k \in Entries :
          /\ Virt(VM, e, t) \in DOMAIN tables
          /\ Private \subseteq Pte(VM, Virt(VM, e, t), k).flags
          /\ f = Pte(VM, Virt(VM, e, t), k).frame
    BY <2>1, FramesReached
  <2>4. Separate(VM, cur_pd) /\ VM.tables = tables /\ VM.dirs = dirs
    BY Facts
  <2>5. CASE Virt(VM, d, s) = Virt(VM, e, t)
    BY <2>2, <2>4, <2>5 DEF Separate
  <2>6. CASE Virt(VM, d, s) # Virt(VM, e, t)
    BY <2>2, <2>3, <2>4, <2>6 DEF Separate
  <2> QED
    BY <2>5, <2>6
<1> QED
  BY <1>1, SpaceInvariance, PTL

\* copy_page, which may write through a translation that flush_page left behind,
\* never writes into a page that the running process or the kernel has mapped.
THEOREM CopiesHitClonesOnly == Spec => []CopyStaysInClones
<1>1. SInv => CopyStaysInClones
  <2> SUFFICES ASSUME SInv, copied # None, copied \in FramesOf(cur_pd, {"PRESENT"}) PROVE FALSE
    BY DEF CopyStaysInClones
  <2>1. PICK flags \in Flags : flags = {"PRESENT"}
    BY DEF Flags
  <2>2. copied \in FramesOf(cur_pd, flags) /\ cur_pd \in DOMAIN dirs
    BY <2>1, Facts
  <2>3. PICK s \in Slots, j \in Entries :
          /\ Virt(VM, cur_pd, s) # NoTable /\ flags \subseteq Pte(VM, Virt(VM, cur_pd, s), j).flags
          /\ copied = Pte(VM, Virt(VM, cur_pd, s), j).frame
    BY <2>2, FramesReached
  <2>4. Elsewhere(VM, cur_pd, copied)
    BY DEF SInv, KernState
  <2> QED
    BY <2>1, <2>3, <2>4 DEF Elsewhere
<1> QED
  BY <1>1, SpaceInvariance, PTL

\* The RAM disk's pages and those of the heap that the kernel mapped stay mapped,
\* to the same frames, in the directory in use.
THEOREM KernelKeepsItsPages == Spec => []KernelReachable
<1>1. SInv => KernelReachable
  <2> SUFFICES ASSUME SInv, NEW m \in kmaps
               PROVE  Mapped(cur_pd, m[1]) /\ Entry(VM, cur_pd, m[1]).frame = m[2]
    BY DEF KernelReachable
  <2>1. Reaches(VM, cur_pd, m)
    BY Facts
  <2>2. Entry(VM, cur_pd, m[1]) = Pte(VM, Virt(VM, cur_pd, m[1] \div PT_SIZE), m[1] % PT_SIZE)
    BY DEF Entry, Pte, Virt
  <2>3. "PRESENT" \in dirs[cur_pd].tables[m[1] \div PT_SIZE].flags
    BY <2>1 DEF Reaches, SlotFlags, VM
  <2> QED
    BY <2>1, <2>2, <2>3 DEF Reaches, Mapped, Present
<1> QED
  BY <1>1, SpaceInvariance, PTL

=============================================================================
