-------------------------- MODULE InterruptsProofs --------------------------
(***************************************************************************)
(* For every order of registration and any number of devices, exceptions   *)
(* and system calls: the masks of the controllers follow the registrations *)
(* of the drivers, and interrupts are delivered safely and one at a time.  *)
(***************************************************************************)
EXTENDS Interrupts, FiniteSetTheorems, WellFoundedInduction, TLAPS

MaskVars == <<pc, order, cached_mask, isr_handlers, imr>>
BeforeMasks == {"idt", "remap", "restore", "mask"}
AfterMasks == {"sti", "driver", "unmask", "switch", "user", "kern"}

MaskTypes ==
    /\ pc \in BeforeMasks \union AfterMasks
    /\ order \in Seq(Lines)
    /\ cached_mask \subseteq Lines
    /\ isr_handlers \in [Lines -> {"null", "void_handler", "driver"}]
    /\ imr \in [Chips -> SUBSET Bits]
    /\ saved \in [Chips -> SUBSET Bits]

\* A driver that has entered its handler is the next in order.
OpeningRegistered ==
    pc = "unmask" => order # <<>> /\ Head(order) \in Registered

\* A chip's register is an earlier cached_mask, and bits are only cleared; a
\* bit cleared in cached_mask belongs to a driver's line, of either chip.
CachedMask ==
    pc \in AfterMasks =>
        /\ \A c \in Chips : Bits \intersect cached_mask \subseteq imr[c]
        /\ \A b \in Bits \ cached_mask : \E l \in Registered : l % 8 = b
        /\ Registered \ Opening \subseteq Open

\* Drivers register only after the masks are set.
NoneRegistered == pc \in BeforeMasks => Registered = {}

MInv == MaskTypes /\ OpeningRegistered /\ NoneRegistered /\ CachedMask

\* The bit of a line in its chip, and the two lines that have it.
LEMMA LineBits ==
    ASSUME NEW l \in Lines
    PROVE  /\ l % 8 \in Bits /\ Chip(l) \in Chips
           /\ \A r \in Lines : r % 8 = l % 8 => r = l \/ r = Alias(l)
           /\ \A r \in Lines : r % 8 = l % 8 /\ Chip(r) = Chip(l) => r = l
<1>1. \A x \in Lines : x % 8 = (IF x >= 8 THEN x - 8 ELSE x)
  BY DEF Lines
<1>2. Alias(l) = (IF l >= 8 THEN l - 8 ELSE l + 8)
  BY DEF Lines, Alias
<1>3. l % 8 \in Bits /\ Chip(l) \in Chips
  BY <1>1 DEF Lines, Bits, Chips, Chip
<1>4. \A r \in Lines : r % 8 = l % 8 => r = l \/ r = Alias(l)
  BY <1>1, <1>2 DEF Lines
<1>5. \A r \in Lines : r % 8 = l % 8 /\ Chip(r) = Chip(l) => r = l
  BY <1>1 DEF Lines, Chip
<1> QED
  BY <1>3, <1>4, <1>5

\* The invariant says more than the property.
LEMMA MInvImplies == MInv => MasksFollowDrivers
<1> SUFFICES ASSUME MInv, pc \notin BeforeMasks
             PROVE  /\ Registered \ Opening \subseteq Open
                    /\ \A l \in Open : {l, Alias(l)} \intersect Registered # {}
  BY DEF MasksFollowDrivers, BeforeMasks
<1>1. pc \in AfterMasks
  BY DEF MInv, MaskTypes
<1>2. ASSUME NEW l \in Open
      PROVE  {l, Alias(l)} \intersect Registered # {}
  <2>1. l \in Lines /\ l % 8 \notin imr[Chip(l)]
    BY DEF Open
  <2>2. l % 8 \in Bits \ cached_mask
    BY <1>1, <2>1, LineBits DEF MInv, CachedMask
  <2>3. PICK r \in Registered : r % 8 = l % 8
    BY <1>1, <2>2 DEF MInv, CachedMask
  <2>4. r \in Lines
    BY DEF Registered
  <2> QED
    BY <2>1, <2>3, <2>4, LineBits
<1> QED
  BY <1>1, <1>2 DEF MInv, CachedMask

\* The invariant speaks of these variables only.
LEMMA MaskVarsUnchanged ==
    ASSUME MInv, UNCHANGED MaskVars, saved' = saved
    PROVE  MInv'
<1> QED
  BY DEF MInv, MaskVars, MaskTypes, OpeningRegistered, NoneRegistered, CachedMask,
         Registered, Opening, Open

\* It holds where idt_init is entered.
LEMMA MInvInit == Init => MInv
<1> SUFFICES ASSUME Init PROVE MInv
  OBVIOUS
<1>1. order \in Seq(Lines)
  BY InterruptsAssumption DEF Init
<1>2. imr \in [Chips -> SUBSET Bits] /\ saved \in [Chips -> SUBSET Bits]
  <2>1. {{}, {Cascade}, Bits} \subseteq SUBSET Bits
    BY DEF Cascade, Bits
  <2> QED
    BY <2>1 DEF Init
<1>3. MaskTypes
  BY <1>1, <1>2 DEF Init, MaskTypes, BeforeMasks
<1> QED
  BY <1>3 DEF Init, MInv, OpeningRegistered, NoneRegistered, CachedMask,
              AfterMasks, Registered

\* Every step of the boot, of a device and of the dispatch preserves it; only
\* add_irq_handler and pic_unmask take an argument of their own.
LEMMA MInvStep == MInv /\ [Next]_vars => MInv'
<1> SUFFICES ASSUME MInv, [Next]_vars PROVE MInv'
  OBVIOUS
<1> USE DEF MInv
<1>1. CASE \/ \E l \in Devices : Raise(l)
           \/ Deliver \/ Fault \/ Syscall \/ Dispatch \/ UNCHANGED vars
  <2>1. UNCHANGED MaskVars /\ saved' = saved
    <3>1. CASE \E l \in Devices : Raise(l)
      BY <3>1 DEF Raise, MaskVars, cpu
    <3>2. CASE Deliver
      BY <3>2 DEF Deliver, MaskVars
    <3>3. CASE Fault
      BY <3>3 DEF Fault, MaskVars, pic
    <3>4. CASE Syscall
      BY <3>4 DEF Syscall, MaskVars, pic
    <3>5. CASE Dispatch
      BY <3>5 DEF Dispatch, Acknowledge, HandlerReturns, MaskVars, pic
    <3>6. CASE UNCHANGED vars
      BY <3>6 DEF vars, cpu, pic, MaskVars
    <3> QED
      BY <1>1, <3>1, <3>2, <3>3, <3>4, <3>5, <3>6
  <2> QED
    BY <2>1, MaskVarsUnchanged
<1>2. CASE idt_init \/ RemapChips \/ RestoreMasks
  <2>1. MaskTypes'
    BY <1>2 DEF idt_init, RemapChips, RestoreMasks, Boot, MaskTypes,
                BeforeMasks, AfterMasks, pic
  <2>2. pc' \in BeforeMasks /\ pc' # "unmask"
    BY <1>2 DEF idt_init, RemapChips, RestoreMasks, Boot, BeforeMasks
  <2>3. Registered' = {}
    BY <1>2 DEF idt_init, RemapChips, RestoreMasks, Boot, Registered,
                NoneRegistered, BeforeMasks
  <2> QED
    BY <2>1, <2>2, <2>3 DEF OpeningRegistered, NoneRegistered, CachedMask,
                            BeforeMasks, AfterMasks
<1>3. CASE pic_mask_all
  <2>1. MaskTypes'
    BY <1>3 DEF pic_mask_all, Boot, MaskTypes, BeforeMasks, AfterMasks
  <2>2. Registered' = {} /\ pc' = "sti"
    BY <1>3 DEF pic_mask_all, Boot, Registered, NoneRegistered, BeforeMasks
  <2>3. /\ \A c \in Chips : (Bits \intersect cached_mask)' \subseteq imr'[c]
        /\ Bits \subseteq cached_mask'
    BY <1>3 DEF pic_mask_all, Bits, Lines
  <2> QED
    BY <2>1, <2>2, <2>3 DEF OpeningRegistered, NoneRegistered, CachedMask,
                            BeforeMasks, AfterMasks
<1>4. CASE sti \/ spawn_init \/ switch_task \/ Exit
  <2>1. MaskTypes'
    BY <1>4 DEF sti, spawn_init, switch_task, Exit, Boot, MaskTypes,
                BeforeMasks, AfterMasks, pic
  <2>2. /\ UNCHANGED <<order, cached_mask, isr_handlers, imr>>
        /\ {pc, pc'} \subseteq AfterMasks \ {"unmask"}
    BY <1>4 DEF sti, spawn_init, switch_task, Exit, Boot, AfterMasks, pic
  <2>3. Registered' = Registered /\ Opening' = Opening /\ Open' = Open
    BY <2>2 DEF Registered, Opening, Open
  <2>4. pc' \notin BeforeMasks
    BY <2>2 DEF BeforeMasks, AfterMasks
  <2> QED
    BY <2>1, <2>2, <2>3, <2>4 DEF OpeningRegistered, NoneRegistered, CachedMask
<1>5. CASE AddHandler
  <2> DEFINE h == Head(order)
  <2>1. h \in Lines /\ pc = "driver" /\ pc' = "unmask"
    BY <1>5 DEF AddHandler, Boot, MaskTypes
  <2>2. UNCHANGED <<order, cached_mask, imr>> /\ order # <<>>
    BY <1>5 DEF AddHandler, pic
  <2>3. MaskTypes'
    BY <1>5, <2>1 DEF AddHandler, Boot, MaskTypes, BeforeMasks, AfterMasks, pic
  <2>4. Registered' = Registered \union {h}
    BY <1>5, <2>1 DEF AddHandler, Registered, MaskTypes
  <2>5. Opening = {} /\ Opening' = {h} /\ Open' = Open
    BY <2>1, <2>2 DEF Opening, Open
  <2>6. Registered \subseteq Open
    BY <2>1, <2>5 DEF CachedMask, AfterMasks
  <2>7. CachedMask'
    BY <2>1, <2>2, <2>4, <2>5, <2>6 DEF CachedMask, AfterMasks
  <2> QED
    BY <2>1, <2>2, <2>3, <2>4, <2>7
       DEF OpeningRegistered, NoneRegistered, BeforeMasks
<1>6. CASE Unmask
  <2> DEFINE h == Head(order)
             b == h % 8
  <2>1. /\ pc = "unmask" /\ pc' = "driver" /\ order # <<>>
        /\ h \in Lines /\ h \in Registered /\ order' = Tail(order)
    BY <1>6 DEF Unmask, Boot, MaskTypes, OpeningRegistered
  <2>2. /\ cached_mask' = Bits \intersect (cached_mask \ {b})
        /\ imr' = [imr EXCEPT ![Chip(h)] = cached_mask']
        /\ UNCHANGED <<isr_handlers, saved>>
    BY <1>6 DEF Unmask, pic_unmask
  <2>3. MaskTypes'
    <3>1. cached_mask' \subseteq Bits /\ Bits \subseteq Lines
      BY <2>2 DEF Bits, Lines
    <3>2. imr' \in [Chips -> SUBSET Bits]
      BY <2>2, <3>1 DEF MaskTypes
    <3> QED
      BY <2>1, <2>2, <3>1, <3>2 DEF MaskTypes, BeforeMasks, AfterMasks
  <2>4. Registered' = Registered /\ Opening = {h} /\ Opening' = {}
    BY <2>1, <2>2 DEF Registered, Opening
  <2>5. \A c \in Chips : (Bits \intersect cached_mask)' \subseteq imr'[c]
    BY <2>1, <2>2 DEF CachedMask, AfterMasks, MaskTypes
  <2>6. \A x \in Bits \ cached_mask' : \E l \in Registered' : l % 8 = x
    BY <2>1, <2>2, <2>4 DEF CachedMask, AfterMasks
  <2>7. ASSUME NEW l \in Registered
        PROVE  l \in Open'
    <3>1. l \in Lines /\ l % 8 \in Bits /\ Chip(l) \in Chips
      BY LineBits DEF Registered
    <3>2. CASE Chip(l) # Chip(h)
      <4>1. l \in Open
        BY <2>1, <2>4, <3>2 DEF CachedMask, AfterMasks
      <4> QED
        BY <2>2, <3>1, <3>2, <4>1 DEF Open, MaskTypes
    <3>3. CASE Chip(l) = Chip(h)
      <4>1. imr'[Chip(l)] = cached_mask'
        BY <2>2, <3>1, <3>3 DEF MaskTypes
      <4>2. l % 8 \notin cached_mask'
        <5>1. CASE l = h
          BY <2>2, <5>1
        <5>2. CASE l # h
          <6>1. l \in Open
            BY <2>1, <2>4, <5>2 DEF CachedMask, AfterMasks
          <6>2. l % 8 \notin cached_mask
            BY <2>1, <3>1, <6>1 DEF Open, CachedMask, AfterMasks
          <6> QED
            BY <2>2, <6>2
        <5> QED
          BY <5>1, <5>2
      <4> QED
        BY <3>1, <4>1, <4>2 DEF Open
    <3> QED
      BY <3>2, <3>3
  <2>8. CachedMask'
    BY <2>4, <2>5, <2>6, <2>7 DEF CachedMask
  <2> QED
    BY <2>1, <2>3, <2>8 DEF OpeningRegistered, NoneRegistered, BeforeMasks
<1> QED
  BY <1>1, <1>2, <1>3, <1>4, <1>5, <1>6 DEF Next, kernel_main

\* Whatever the order in which the drivers register and whenever interrupts
\* come, no later pic_unmask closes a driver's line, and only lines that share
\* a bit with a driver's are open.
THEOREM MasksCorrect == Spec => []MasksFollowDrivers
<1>1. Spec => []MInv
  BY MInvInit, MInvStep, PTL DEF Spec
<1> QED
  BY <1>1, MInvImplies, PTL

----------------------------------------------------------------------------
\* The dispatch.  An interrupt gate clears the flag and only iret sets it
\* again, so a controller's frame is always the outermost one.

Frames == [vector : Nat, irq : BOOLEAN, at : {"eoi", "handler"}, flag : BOOLEAN]
BeforeSti == BeforeMasks \union {"sti"}

DispatchTypes ==
    /\ flag \in BOOLEAN /\ cflags \in BOOLEAN
    /\ stack \in Seq(Frames)
    /\ irr \in [Chips -> SUBSET Bits] /\ isr \in [Chips -> SUBSET Bits]

\* Interrupts are enabled only outside of handlers and after sti, and no
\* frame above the first gives the flag back or comes from a controller.
FlagClosed ==
    /\ stack # <<>> => ~flag
    /\ \A i \in DOMAIN stack : i >= 2 => ~stack[i].flag /\ ~stack[i].irq
    /\ pc \in BeforeSti => ~flag /\ \A i \in DOMAIN stack : ~stack[i].flag

\* A line in service is the one of the only frame, not yet acknowledged; a
\* vector below the second chip's would leave a line of that chip in service.
InService ==
    \A c \in Chips : isr[c] # {} =>
        /\ Len(stack) = 1 /\ stack[1].irq /\ stack[1].at = "eoi"
        /\ \E b \in Bits : isr[c] = {b}
        /\ c = "PIC2" => stack[1].vector >= PicRemap["PIC2"]

\* The chips have their vectors and the table its entries before sti.
Ready ==
    /\ pc \notin {"idt", "remap"} => base = PicRemap
    /\ pc # "idt" => \A l \in Lines : isr_handlers[l] # "null"

SafeFrame(fr) ==
    fr.irq => /\ Line(fr) \in Lines /\ isr_handlers[Line(fr)] # "null"
              /\ Line(fr) >= 8 => \E l \in Registered : l % 8 = Cascade

DInv == DispatchTypes /\ FlagClosed /\ InService /\ Ready
        /\ \A i \in DOMAIN stack : SafeFrame(stack[i])

\* The property is a part of the invariant.
LEMMA DInvImplies == DInv => DeliveredSafely /\ OneAtATime
<1> SUFFICES ASSUME DInv PROVE DeliveredSafely /\ OneAtATime
  OBVIOUS
<1>1. DeliveredSafely
  BY DEF DInv, DeliveredSafely, SafeFrame
<1>2. Cardinality({i \in DOMAIN stack : stack[i].irq}) <= 1
  <2> DEFINE I == {i \in DOMAIN stack : stack[i].irq}
  <2>1. DOMAIN stack = 1 .. Len(stack) /\ Len(stack) \in Nat
    BY DEF DInv, DispatchTypes
  <2>2. I \subseteq {1}
    BY <2>1 DEF DInv, FlagClosed
  <2>3. IsFiniteSet({1}) /\ Cardinality({1}) = 1
    BY FS_Singleton
  <2> HIDE DEF I
  <2>4. Cardinality(I) <= 1
    BY <2>2, <2>3, FS_Subset
  <2> QED
    BY <2>4 DEF I
<1>3. (\E c \in Chips : isr[c] # {}) => stack # <<>> /\ Top.irq /\ Top.at = "eoi"
  <2>1. Len(<<>>) = 0
    OBVIOUS
  <2>2. Len(stack) = 1 => stack # <<>> /\ Top = stack[1]
    BY <2>1 DEF Top
  <2> QED
    BY <2>2 DEF DInv, InService
<1> QED
  BY <1>1, <1>2, <1>3 DEF OneAtATime

\* It holds where idt_init is entered.
LEMMA DInvInit == Init => DInv
<1> SUFFICES ASSUME Init PROVE DInv
  OBVIOUS
<1>1. stack = <<>> /\ DOMAIN stack = {} /\ stack \in Seq(Frames)
  BY DEF Init
<1> QED
  BY <1>1 DEF Init, DInv, DispatchTypes, FlagClosed, InService, Ready

\* With no frame on the stack no line is in service.
LEMMA NothingInService ==
    ASSUME DInv, stack = <<>> \/ InHandler
    PROVE  isr = [c \in Chips |-> {}]
<1>1. \A c \in Chips : isr[c] = {}
  <2> SUFFICES ASSUME NEW c \in Chips, isr[c] # {} PROVE FALSE
    OBVIOUS
  <2>1. Len(stack) = 1 /\ stack[1].at = "eoi"
    BY DEF DInv, InService
  <2>2. Len(<<>>) = 0
    OBVIOUS
  <2> QED
    BY <2>1, <2>2 DEF InHandler, Top
<1> QED
  BY <1>1 DEF DInv, DispatchTypes

\* The steps of kernel_main: no frame is on the stack, and the flag is set
\* only by sti and after it.
LEMMA BootSteps == ASSUME DInv, kernel_main PROVE DInv'
<1>1. stack = <<>> /\ stack' = <<>>
  BY DEF kernel_main, idt_init, RemapChips, RestoreMasks, pic_mask_all, sti, AddHandler,
         Unmask, spawn_init, switch_task, Boot
<1>2. DOMAIN stack' = {} /\ stack' \in Seq(Frames)
  BY <1>1
<1>3. isr = [c \in Chips |-> {}]
  BY <1>1, NothingInService
<1>4. isr' = [c \in Chips |-> {}]
  BY <1>3 DEF kernel_main, idt_init, RemapChips, RestoreMasks, pic_mask_all, sti, AddHandler,
              Unmask, spawn_init, switch_task, pic
<1>5. DispatchTypes'
  <2>1. flag' \in BOOLEAN /\ cflags' \in BOOLEAN
    BY DEF kernel_main, idt_init, RemapChips, RestoreMasks, pic_mask_all, sti, AddHandler,
           Unmask, spawn_init, switch_task, DInv, DispatchTypes
  <2>2. irr' \in [Chips -> SUBSET Bits]
    BY DEF kernel_main, idt_init, RemapChips, RestoreMasks, pic_mask_all, sti, AddHandler,
           Unmask, spawn_init, switch_task, DInv, DispatchTypes, pic
  <2>3. isr' \in [Chips -> SUBSET Bits]
    BY <1>4
  <2> QED
    BY <1>2, <2>1, <2>2, <2>3 DEF DispatchTypes
<1>6. pc' \in BeforeSti => ~flag'
  BY DEF kernel_main, idt_init, RemapChips, RestoreMasks, pic_mask_all, sti, AddHandler,
         Unmask, spawn_init, switch_task, Boot, DInv, FlagClosed, BeforeSti, BeforeMasks
<1>7. Ready'
  <2>1. CASE idt_init
    BY <2>1 DEF idt_init, Boot, Ready
  <2>2. CASE RemapChips
    BY <2>2 DEF RemapChips, Boot, DInv, Ready
  <2>3. CASE AddHandler
    <3>1. /\ pc = "driver" /\ pc' = "unmask" /\ base' = base
          /\ isr_handlers' = [isr_handlers EXCEPT ![Head(order)] = "driver"]
      BY <2>3 DEF AddHandler, Boot, pic
    <3>2. \A l \in Lines : isr_handlers'[l] # "null"
      <4>1. "driver" # "null" /\ isr_handlers = isr_handlers
        OBVIOUS
      <4> QED
        BY <3>1, <4>1 DEF DInv, Ready
    <3> QED
      BY <3>1, <3>2 DEF DInv, Ready
  <2>4. CASE RestoreMasks \/ pic_mask_all \/ sti \/ Unmask \/ spawn_init \/ switch_task
    BY <2>4 DEF RestoreMasks, pic_mask_all, sti, Unmask, spawn_init, switch_task, Boot, pic,
                DInv, Ready
  <2> QED
    BY <2>1, <2>2, <2>3, <2>4 DEF kernel_main
<1>8. FlagClosed' /\ InService'
  BY <1>1, <1>2, <1>4, <1>6 DEF FlagClosed, InService
<1> QED
  BY <1>2, <1>5, <1>7, <1>8 DEF DInv

\* A request of a device changes the request registers only.
LEMMA RaiseStep ==
    ASSUME DInv, NEW l \in Devices, Raise(l)
    PROVE  DInv'
<1>1. l \in Lines /\ l % 8 \in Bits /\ Chip(l) \in Chips
  BY InterruptsAssumption, LineBits
<1>2. /\ irr' = [irr EXCEPT ![Chip(l)] = irr[Chip(l)] \union {l % 8}]
      /\ UNCHANGED <<pc, flag, cflags, stack, isr, base, isr_handlers>>
  BY DEF Raise, cpu
<1>3. irr' \in [Chips -> SUBSET Bits]
  BY <1>1, <1>2 DEF DInv, DispatchTypes
<1> QED
  BY <1>2, <1>3 DEF DInv, DispatchTypes, FlagClosed, InService, Ready, SafeFrame, Registered

\* A push: what Append does to the frames.
LEMMA Pushed ==
    ASSUME NEW s \in Seq(Frames), NEW f \in Frames, NEW t, t = Append(s, f)
    PROVE  /\ t \in Seq(Frames) /\ Len(t) = Len(s) + 1 /\ t # <<>>
           /\ DOMAIN t = (DOMAIN s) \union {Len(s) + 1}
           /\ t[Len(s) + 1] = f
           /\ \A i \in DOMAIN s : t[i] = s[i] /\ i # Len(s) + 1 /\ i \in 1 .. Len(s)
  OBVIOUS

\* Exceptions and system calls push a frame that is not of a controller.
LEMMA SoftwareStep ==
    ASSUME DInv, Fault \/ Syscall
    PROVE  DInv'
<1>1. PICK v \in Nat :
        /\ stack' = Append(stack, Frame(v, FALSE, flag)) /\ ~flag' /\ flag' \in BOOLEAN
        /\ stack = <<>> \/ InHandler
        /\ UNCHANGED <<pc, cflags, irr, isr, base, isr_handlers>>
  <2>1. CASE Fault
    BY <2>1 DEF Fault, pic
  <2>2. CASE Syscall
    <3>1. stack = <<>> /\ stack' = <<Frame(128, FALSE, flag)>>
      BY <2>2 DEF Syscall
    <3>2. stack' = Append(stack, Frame(128, FALSE, flag))
      BY <3>1
    <3> QED
      BY <2>2, <3>1, <3>2 DEF Syscall, pic
  <2> QED
    BY <2>1, <2>2
<1>a. PICK f : f = Frame(v, FALSE, flag)
  OBVIOUS
<1>2. f \in Frames /\ ~f.irq /\ f.flag = flag
  BY <1>a DEF Frame, Frames, DInv, DispatchTypes
<1>3. isr' = [c \in Chips |-> {}]
  BY <1>1, NothingInService
<1>4. stack \in Seq(Frames) /\ Len(stack) \in Nat /\ DOMAIN stack = 1 .. Len(stack)
      /\ (stack # <<>> => Len(stack) >= 1)
  BY DEF DInv, DispatchTypes
<1>5. /\ stack' \in Seq(Frames) /\ stack' # <<>>
      /\ DOMAIN stack' = (DOMAIN stack) \union {Len(stack) + 1}
      /\ stack'[Len(stack) + 1] = f
      /\ \A i \in DOMAIN stack : stack'[i] = stack[i]
  <2>1. stack' = Append(stack, f)
    BY <1>1, <1>a
  <2> QED
    BY <1>2, <1>4, <2>1, Pushed
<1>6. \A i \in DOMAIN stack' : i >= 2 => ~stack'[i].flag /\ ~stack'[i].irq
  <2>1. Len(stack) + 1 >= 2 => ~flag
    BY <1>4 DEF DInv, FlagClosed
  <2> QED
    BY <1>2, <1>5, <2>1 DEF DInv, FlagClosed
<1>7. pc' \in BeforeSti => ~flag' /\ \A i \in DOMAIN stack' : ~stack'[i].flag
  BY <1>1, <1>2, <1>5 DEF DInv, FlagClosed
<1>8. \A i \in DOMAIN stack' : SafeFrame(stack[i])'
  <2>1. \A i \in DOMAIN stack : SafeFrame(stack[i])'
    BY <1>1, <1>5 DEF DInv, SafeFrame, Registered
  <2>2. SafeFrame(f)'
    BY <1>2 DEF SafeFrame
  <2> QED
    BY <1>2, <1>5, <2>1, <2>2 DEF SafeFrame
<1>9. InService'
  BY <1>3 DEF InService
<1> QED
  BY <1>1, <1>5, <1>6, <1>7, <1>8, <1>9 DEF DInv, DispatchTypes, FlagClosed, Ready

\* The controller picks one of the requests there are.
LEMMA HighestIn ==
    ASSUME NEW S \in SUBSET Bits, S # {}
    PROVE  Highest(S) \in S
<1> DEFINE R == OpToRel(<, Nat)
<1>1. S \subseteq Nat
  BY DEF Bits
<1>2. PICK x \in S : \A y \in S : ~(<<y, x>> \in R)
  <2>1. IsWellFoundedOn(R, Nat)
    BY NatLessThanWellFounded
  <2> HIDE DEF R
  <2> QED
    BY <1>1, <2>1, WFMin
<1>3. \A y \in S : x <= y
  <2>1. \A y \in S : ~(y < x)
    BY <1>1, <1>2 DEF OpToRel
  <2>2. \A y \in S : x \in Int /\ y \in Int
    BY DEF Bits
  <2> QED
    BY <2>1, <2>2
<1> QED
  BY <1>3 DEF Highest

\* An interrupt of a controller finds the boot past sti and no other frame;
\* it comes on a vector of a chip, of the second one only through an open
\* cascade line.
LEMMA DeliverStep == ASSUME MInv, DInv, Deliver PROVE DInv'
<1>1. /\ flag /\ ~flag' /\ flag' \in BOOLEAN
      /\ UNCHANGED <<pc, cflags, isr_handlers, base>>
  BY DEF Deliver
<1>2. stack = <<>> /\ pc \notin BeforeSti
  BY <1>1 DEF DInv, FlagClosed
<1>3. /\ pc \in AfterMasks /\ base = PicRemap
      /\ \A l \in Lines : isr_handlers[l] # "null"
  BY <1>2 DEF DInv, Ready, MInv, MaskTypes, BeforeSti, BeforeMasks
<1>4. isr = [c \in Chips |-> {}]
  BY <1>2, NothingInService
<1>a. PICK b : b = Highest(Requests)
  OBVIOUS
<1>b. PICK c : c = IF b = Cascade /\ b \notin irr["PIC1"] THEN "PIC2" ELSE "PIC1"
  OBVIOUS
<1>c. PICK n : n = IF c = "PIC2" THEN Highest(Wanted("PIC2", {})) ELSE b
  OBVIOUS
<1>5. /\ Requests # {}
      /\ irr' = [irr EXCEPT ![c] = irr[c] \ {n}]
      /\ isr' = [x \in Chips |-> isr[x] \union
                   (IF x = "PIC1" THEN {b} ELSE IF c = x THEN {n} ELSE {})]
      /\ stack' = Append(stack, Frame(base[c] + n, TRUE, flag))
  BY <1>a, <1>b, <1>c DEF Deliver
<1>6. \A x \in Chips : irr[x] \subseteq Bits
  BY DEF DInv, DispatchTypes
<1>7. "PIC1" \in Chips /\ "PIC2" \in Chips /\ {Cascade} \subseteq Bits
  BY DEF Chips, Cascade, Bits
<1>8. b \in Requests /\ b \in Bits
  <2>1. Requests \in SUBSET Bits
    BY <1>6, <1>7 DEF Requests, Wanted
  <2> QED
    BY <1>5, <1>a, <2>1, HighestIn
<1>9. c \in Chips /\ n \in Bits /\ (c = "PIC2" => Cascade \notin imr["PIC1"])
  <2>1. CASE c = "PIC2"
    <3>1. b = Cascade /\ b \notin irr["PIC1"]
      BY <1>b, <2>1
    <3>2. Wanted("PIC2", {}) # {} /\ Cascade \notin imr["PIC1"]
      BY <1>8, <3>1 DEF Requests, Wanted
    <3>3. Wanted("PIC2", {}) \in SUBSET Bits
      BY <1>6, <1>7 DEF Wanted
    <3>4. n = Highest(Wanted("PIC2", {}))
      BY <1>c, <2>1
    <3> QED
      BY <1>7, <2>1, <3>2, <3>3, <3>4, HighestIn
  <2>2. CASE c # "PIC2"
    BY <1>b, <1>c, <1>7, <1>8, <2>2
  <2> QED
    BY <2>1, <2>2
<1>10. /\ PicRemap["PIC1"] = 32 /\ PicRemap["PIC2"] = 40
       /\ c = "PIC1" \/ c = "PIC2"
  BY <1>9 DEF PicRemap, Chips
<1>11. PICK v : v = base[c] + n
  OBVIOUS
<1>12. /\ v \in Nat /\ v - 32 \in Lines
       /\ c = "PIC2" => v >= 40
       /\ v - 32 >= 8 => c = "PIC2"
  BY <1>3, <1>9, <1>10, <1>11 DEF Bits, Lines
<1>13. PICK f : f = Frame(v, TRUE, flag)
  OBVIOUS
<1>14. f \in Frames /\ f.vector = v /\ f.irq = TRUE /\ f.at = "eoi" /\ f.irq
  BY <1>1, <1>12, <1>13 DEF Frame, Frames
<1>15. /\ stack' = <<f>> /\ stack' \in Seq(Frames) /\ Len(stack') = 1 /\ DOMAIN stack' = {1}
       /\ stack'[1] = f
  <2>1. stack' = Append(<<>>, f)
    BY <1>2, <1>5, <1>11, <1>13
  <2>2. Append(<<>>, f) = <<f>>
    OBVIOUS
  <2> QED
    BY <1>14, <2>1, <2>2
<1>16. DispatchTypes'
  <2>1. irr' \in [Chips -> SUBSET Bits]
    BY <1>5, <1>9 DEF DInv, DispatchTypes
  <2>2. isr' \in [Chips -> SUBSET Bits]
    BY <1>4, <1>5, <1>8, <1>9
  <2>3. cflags' \in BOOLEAN
    BY <1>1 DEF DInv, DispatchTypes
  <2> QED
    BY <1>1, <1>15, <2>1, <2>2, <2>3 DEF DispatchTypes
<1>17. FlagClosed'
  BY <1>1, <1>2, <1>15 DEF FlagClosed
<1>18. InService'
  <2>1. \A x \in Chips : isr'[x] # {} => \E y \in Bits : isr'[x] = {y}
    BY <1>4, <1>5, <1>8, <1>9
  <2>2. isr'["PIC2"] # {} => c = "PIC2"
    BY <1>4, <1>5, <1>7
  <2> QED
    BY <1>10, <1>12, <1>14, <1>15, <2>1, <2>2 DEF InService
<1>19. \A i \in DOMAIN stack' : SafeFrame(stack[i])'
  <2>1. Registered' = Registered
    BY <1>1 DEF Registered
  <2>2. ASSUME c = "PIC2" PROVE \E l \in Registered : l % 8 = Cascade
    <3>1. Cascade \in Bits \ cached_mask
      BY <1>3, <1>7, <1>9, <2>2 DEF MInv, CachedMask
    <3> QED
      BY <1>3, <3>1 DEF MInv, CachedMask
  <2>3. Line(f) = v - 32
    BY <1>14 DEF Line
  <2>4. SafeFrame(f)'
    BY <1>1, <1>3, <1>12, <2>1, <2>2, <2>3 DEF SafeFrame, Line
  <2> QED
    BY <1>15, <2>4 DEF SafeFrame
<1>20. Ready'
  BY <1>1 DEF DInv, Ready
<1> QED
  BY <1>16, <1>17, <1>18, <1>19, <1>20 DEF DInv

\* isr_x86 acknowledges: the two ends of interrupt clear what is in service,
\* on the second chip as well when the line is one of it, and nothing else.
LEMMA AcknowledgeStep == ASSUME DInv, Acknowledge PROVE DInv'
<1>1. PICK k : k = Len(stack)
  OBVIOUS
<1>2. /\ stack \in Seq(Frames) /\ stack # <<>> /\ k \in Nat /\ k >= 1
      /\ DOMAIN stack = 1 .. k /\ k \in DOMAIN stack /\ stack[k] \in Frames
  BY <1>1 DEF DInv, DispatchTypes, Acknowledge
<1>3. /\ stack' = [stack EXCEPT ![k].at = "handler"]
      /\ UNCHANGED <<pc, flag, cflags, irr, base, isr_handlers>>
      /\ pic_eoi(stack[k].vector)
  BY <1>1 DEF Acknowledge, Top
<1>4. PICK g : g = [stack[k] EXCEPT !.at = "handler"]
  OBVIOUS
<1>5. g \in Frames /\ g.irq = stack[k].irq /\ g.flag = stack[k].flag /\ g.vector = stack[k].vector
  BY <1>2, <1>4 DEF Frames
<1>6. /\ stack' \in Seq(Frames) /\ DOMAIN stack' = 1 .. k /\ stack' # <<>> /\ Len(stack') = k
      /\ stack'[k] = g /\ \A i \in 1 .. k : i # k => stack'[i] = stack[i]
  BY <1>2, <1>3, <1>4, <1>5
<1>7. \A i \in 1 .. k : /\ stack'[i].irq = stack[i].irq /\ stack'[i].flag = stack[i].flag
                       /\ stack'[i].vector = stack[i].vector
  BY <1>5, <1>6
<1>8. ASSUME NEW c \in Chips PROVE isr'[c] = {}
  <2>1. isr'[c] = IF c = "PIC1" \/ stack[k].vector >= PicRemap["PIC2"]
                  THEN EndOfInterrupt(isr[c]) ELSE isr[c]
    BY <1>3 DEF pic_eoi
  <2>2. CASE isr[c] = {}
    BY <2>1, <2>2 DEF EndOfInterrupt
  <2>3. CASE isr[c] # {}
    <3>1. /\ k = 1
          /\ c = "PIC1" \/ stack[k].vector >= PicRemap["PIC2"]
          /\ \E b \in Bits : isr[c] = {b}
      BY <1>1, <2>3 DEF DInv, InService, Chips
    <3>2. PICK b \in Bits : isr[c] = {b}
      BY <3>1
    <3>3. Highest({b}) = b
      BY HighestIn
    <3> QED
      BY <2>1, <3>1, <3>2, <3>3 DEF EndOfInterrupt
  <2> QED
    BY <2>2, <2>3
<1>9. isr' \in [Chips -> SUBSET Bits]
  <2>1. isr' = [c \in Chips |-> isr'[c]]
    BY <1>3 DEF pic_eoi
  <2> QED
    BY <1>8, <2>1
<1>10. DispatchTypes'
  BY <1>3, <1>6, <1>9 DEF DInv, DispatchTypes
<1>11. FlagClosed'
  BY <1>2, <1>3, <1>6, <1>7 DEF DInv, FlagClosed
<1>12. InService' /\ Ready'
  BY <1>3, <1>8 DEF InService, DInv, Ready
<1>13. \A i \in DOMAIN stack' : SafeFrame(stack[i])'
  BY <1>2, <1>3, <1>6, <1>7 DEF DInv, SafeFrame, Line, Registered
<1> QED
  BY <1>10, <1>11, <1>12, <1>13 DEF DInv

\* iret gives back the flag of the context it returns to.
LEMMA ReturnStep == ASSUME DInv, HandlerReturns PROVE DInv'
<1>1. PICK k : k = Len(stack)
  OBVIOUS
<1>2. /\ stack \in Seq(Frames) /\ stack # <<>> /\ k \in Nat /\ k >= 1
      /\ DOMAIN stack = 1 .. k /\ k \in DOMAIN stack /\ stack[k] \in Frames
  BY <1>1 DEF DInv, DispatchTypes, HandlerReturns, InHandler
<1>3. /\ InHandler /\ stack' = SubSeq(stack, 1, k - 1) /\ flag' = stack[k].flag
      /\ UNCHANGED <<pc, cflags, irr, isr, base, isr_handlers>>
  BY <1>1 DEF HandlerReturns, Top, pic
<1>4. /\ stack' \in Seq(Frames) /\ Len(stack') = k - 1 /\ DOMAIN stack' = 1 .. k - 1
      /\ \A i \in 1 .. k - 1 : stack'[i] = stack[i]
  BY <1>2, <1>3
<1>5. isr' = [c \in Chips |-> {}]
  BY <1>3, NothingInService
<1>6. stack' # <<>> => ~flag'
  <2>1. stack' # <<>> => k >= 2
    BY <1>2, <1>4
  <2> QED
    BY <1>2, <1>3, <2>1 DEF DInv, FlagClosed
<1>7. \A i \in DOMAIN stack' : i \in DOMAIN stack /\ stack'[i] = stack[i]
  BY <1>2, <1>4
<1>8. FlagClosed'
  BY <1>2, <1>3, <1>6, <1>7 DEF DInv, FlagClosed
<1>9. DispatchTypes'
  BY <1>2, <1>3, <1>4 DEF DInv, DispatchTypes, Frames
<1>10. InService' /\ Ready'
  BY <1>3, <1>5 DEF InService, DInv, Ready
<1>11. \A i \in DOMAIN stack' : SafeFrame(stack[i])'
  BY <1>3, <1>7 DEF DInv, SafeFrame, Registered
<1> QED
  BY <1>8, <1>9, <1>10, <1>11 DEF DInv

\* Every step preserves the invariant of the dispatch.
LEMMA DInvStep == MInv /\ DInv /\ [Next]_vars => DInv'
<1> SUFFICES ASSUME MInv, DInv, [Next]_vars PROVE DInv'
  OBVIOUS
<1>1. CASE Exit
  <2>1. /\ pc = "user" /\ pc' = "kern"
        /\ UNCHANGED <<flag, cflags, stack, irr, isr, base, isr_handlers>>
    BY <1>1 DEF Exit, pic
  <2> QED
    BY <2>1 DEF DInv, DispatchTypes, FlagClosed, InService, Ready, SafeFrame, Registered,
                BeforeSti, BeforeMasks
<1>2. CASE UNCHANGED vars
  BY <1>2 DEF vars, cpu, pic, DInv, DispatchTypes, FlagClosed, InService, Ready, SafeFrame,
              Registered
<1> QED
  BY <1>1, <1>2, RaiseStep, DeliverStep, SoftwareStep, AcknowledgeStep, ReturnStep, BootSteps
     DEF Next, Dispatch

\* The dispatch keeps its invariant, whatever the devices do.
THEOREM DispatchInvariance == Spec => []DInv
<1>1. Spec => []MInv
  BY MInvInit, MInvStep, PTL DEF Spec
<1> QED
  BY <1>1, DInvInit, DInvStep, PTL DEF Spec

\* A controller's interrupt comes on a vector of its own and finds its entry
\* in the table, for every order of registration and every set of devices;
\* one of the second chip only if a driver's bit opened the cascade line.
THEOREM DeliverySafe == Spec => []DeliveredSafely
<1>1. DInv => DeliveredSafely
  BY DInvImplies
<1> QED
  BY <1>1, DispatchInvariance, PTL

\* Handlers of devices do not nest, and no line stays in service once its
\* handler runs, however exceptions and system calls come in between.
THEOREM HandlersDoNotNest == Spec => []OneAtATime
<1>1. DInv => OneAtATime
  BY DInvImplies
<1> QED
  BY <1>1, DispatchInvariance, PTL
=============================================================================
