----------------------------- MODULE Interrupts -----------------------------
(***************************************************************************)
(* Interrupts from the entry of idt_init to user mode: the masks of the    *)
(* two controllers and the one cached_mask that pic.c keeps for both, the  *)
(* table of handlers, the interrupt flag, and the path of an interrupt     *)
(* through common_isr and isr_x86.  A mask is the set of its bits.         *)
(*                                                                         *)
(* The two 8259 chips are external: requests are latched, the lowest       *)
(* number wins, a line in service keeps out itself and those above it, and *)
(* the second chip asks through line 2 of the first.                       *)
(***************************************************************************)
EXTENDS Integers, Sequences, FiniteSets

CONSTANTS
    BootOrders,     \* lines in the order the drivers register them at boot
    Devices,        \* bound: lines on which a device asks for service
    MaxRaises,      \* bound: requests of each device
    MaxFaults,      \* bound: exceptions taken in all
    MaxDepth        \* bound: interrupt frames on the kernel's stack

Lines == 0 .. 15
Bits == 0 .. 7
Chips == {"PIC1", "PIC2"}
Cascade == 2        \* SLAVE_PIN_IR
PicRemap == [c \in Chips |-> IF c = "PIC1" THEN 32 ELSE 40]

Chip(l) == IF l >= 8 THEN "PIC2" ELSE "PIC1"
Alias(l) == (l + 8) % 16

ASSUME InterruptsAssumption ==
    /\ BootOrders \subseteq Seq(Lines)
    /\ Devices \subseteq Lines \ {Cascade}
    /\ MaxRaises \in Nat /\ MaxFaults \in Nat /\ MaxDepth \in Nat \ {0}

VARIABLES
    pc,             \* where the boot, and then the user's program, has got to
    order,          \* lines the drivers have still to register
    flag,           \* the interrupt flag of the CPU
    cflags,         \* what disable_int returned last
    cached_mask,    \* the variable of pic.c, 16 bits
    isr_handlers,   \* entries PIC_REMAP .. PIC_REMAP + 15 of the table
    stack,          \* interrupt frames, the innermost last
    imr, irr, isr,  \* mask, request and in-service register of each chip
    base,           \* first vector of each chip
    saved,          \* master_mask and slave_mask of pic_remap
    raises,         \* requests each device has made
    faults          \* exceptions taken

cpu == <<pc, order, flag, cflags, stack>>
pic == <<imr, irr, isr, base>>
vars == <<cpu, cached_mask, isr_handlers, pic, saved, raises, faults>>

\* gdt_init has disabled interrupts; the firmware's masks are anything.
Init ==
    /\ pc = "idt" /\ order \in BootOrders /\ flag = FALSE /\ cflags = FALSE
    /\ cached_mask = {}
    /\ isr_handlers = [l \in Lines |-> "null"]
    /\ stack = <<>>
    /\ imr \in [Chips -> {{}, {Cascade}, Bits}]
    /\ irr = [c \in Chips |-> {}] /\ isr = [c \in Chips |-> {}]
    /\ base = [c \in Chips |-> IF c = "PIC1" THEN 8 ELSE 112]
    /\ saved = [c \in Chips |-> {}]
    /\ raises = [l \in Devices |-> 0]
    /\ faults = 0

----------------------------------------------------------------------------
\* The controllers and the devices.

Highest(s) == CHOOSE b \in s : \A x \in s : b <= x

\* Requests chip c may pass on, extra being those that come to it from
\* outside its own request register.
Wanted(c, extra) ==
    {b \in (irr[c] \union extra) \ imr[c] : \A x \in isr[c] : b < x}

Requests == Wanted("PIC1", IF Wanted("PIC2", {}) # {} THEN {Cascade} ELSE {})

\* A device asks for service: its request is latched, masked or not.
Raise(l) ==
    /\ raises[l] < MaxRaises
    /\ raises' = [raises EXCEPT ![l] = @ + 1]
    /\ irr' = [irr EXCEPT ![Chip(l)] = @ \union {l % 8}]
    /\ UNCHANGED <<cpu, cached_mask, isr_handlers, imr, isr, base, saved, faults>>

----------------------------------------------------------------------------
\* Interrupt frames: the vector, whether a controller sent it, how far
\* isr_x86 has got, and the interrupt flag that iret restores.

Frame(v, hw, f) == [vector |-> v, irq |-> hw, at |-> "eoi", flag |-> f]
Top == stack[Len(stack)]
InHandler == stack # <<>> /\ Top.at = "handler"
Line(fr) == fr.vector - 32

\* Between two instructions the CPU takes the request with the highest
\* priority; the gate is an interrupt gate, which clears the flag.
Deliver ==
    /\ flag /\ Requests # {} /\ Len(stack) < MaxDepth
    /\ LET b == Highest(Requests)
           c == IF b = Cascade /\ b \notin irr["PIC1"] THEN "PIC2" ELSE "PIC1"
           n == IF c = "PIC2" THEN Highest(Wanted("PIC2", {})) ELSE b
       IN /\ irr' = [irr EXCEPT ![c] = @ \ {n}]
          /\ isr' = [x \in Chips |-> isr[x] \union
                       (IF x = "PIC1" THEN {b} ELSE IF c = x THEN {n} ELSE {})]
          /\ stack' = Append(stack, Frame(base[c] + n, TRUE, flag))
    /\ flag' = FALSE
    /\ UNCHANGED <<pc, order, cflags, cached_mask, isr_handlers, imr, base,
                   saved, raises, faults>>

\* An exception, in the kernel's code or in that of a handler.
Fault ==
    /\ pc # "idt" /\ pc # "kern"
    /\ stack = <<>> \/ InHandler
    /\ faults < MaxFaults /\ Len(stack) < MaxDepth
    /\ faults' = faults + 1
    /\ stack' = Append(stack, Frame(14, FALSE, flag)) /\ flag' = FALSE
    /\ UNCHANGED <<pc, order, cflags, cached_mask, isr_handlers, pic, saved, raises>>

\* int 0x80 of the user's program.
Syscall ==
    /\ pc = "user" /\ stack = <<>>
    /\ stack' = <<Frame(128, FALSE, flag)>> /\ flag' = FALSE
    /\ UNCHANGED <<pc, order, cflags, cached_mask, isr_handlers, pic, saved,
                   raises, faults>>

EndOfInterrupt(s) == IF s = {} THEN s ELSE s \ {Highest(s)}

\* Faulty variant: each chip is told about its own vectors only.
pic_eoi_OneChip(v) ==
    isr' = [c \in Chips |-> IF (c = "PIC2") = (v >= PicRemap["PIC2"])
                            THEN EndOfInterrupt(isr[c]) ELSE isr[c]]

\* Whatever the interrupt was, the first chip is told, and the second one
\* for every vector from its own first one upwards.
pic_eoi(v) ==
    isr' = [c \in Chips |-> IF c = "PIC1" \/ v >= PicRemap["PIC2"]
                            THEN EndOfInterrupt(isr[c]) ELSE isr[c]]

\* isr_x86 acknowledges before it calls the handler.
Acknowledge ==
    /\ stack # <<>> /\ Top.at = "eoi"
    /\ pic_eoi(Top.vector)
    /\ stack' = [stack EXCEPT ![Len(stack)].at = "handler"]
    /\ UNCHANGED <<pc, order, flag, cflags, cached_mask, isr_handlers, imr, irr,
                   base, saved, raises, faults>>

\* The handler has run and common_isr leaves: iret, which the CPU executes
\* before the sti in front of it takes effect, restores the flag.
HandlerReturns ==
    /\ InHandler /\ pc # "kern"
    /\ stack' = SubSeq(stack, 1, Len(stack) - 1)
    /\ flag' = Top.flag
    /\ UNCHANGED <<pc, order, cflags, cached_mask, isr_handlers, pic, saved,
                   raises, faults>>

\* sys_exit of init, the only task beside the kernel's: exit ends in kern,
\* which loops inside the handler of the system call.
Exit ==
    /\ InHandler /\ pc = "user" /\ stack[1].vector = 128 /\ Len(stack) = 1
    /\ pc' = "kern"
    /\ UNCHANGED <<order, flag, cflags, cached_mask, isr_handlers, pic, stack,
                   saved, raises, faults>>

Dispatch == Acknowledge \/ HandlerReturns

----------------------------------------------------------------------------
\* kernel_main, a step at a time, while no interrupt is being handled.

Boot(from, to) == pc = from /\ pc' = to /\ stack = <<>> /\ UNCHANGED stack

\* Every entry of the table gets void_handler.
idt_init ==
    /\ Boot("idt", "remap")
    /\ isr_handlers' = [l \in Lines |-> "void_handler"]
    /\ UNCHANGED <<order, flag, cflags, cached_mask, pic, saved, raises, faults>>

\* Faulty variant: the second chip keeps the vectors of the firmware.
RemapChips_OneChip ==
    /\ Boot("remap", "restore")
    /\ saved' = imr
    /\ imr' = [c \in Chips |-> {}] /\ irr' = imr' /\ isr' = imr'
    /\ base' = [base EXCEPT !["PIC1"] = PicRemap["PIC1"]]
    /\ UNCHANGED <<order, flag, cflags, cached_mask, isr_handlers, raises, faults>>

\* pic_remap reads the masks and sends ICW1, which opens every line and
\* drops the requests, to ICW4; the new vectors come with ICW2.
RemapChips ==
    /\ Boot("remap", "restore")
    /\ saved' = imr
    /\ imr' = [c \in Chips |-> {}] /\ irr' = imr' /\ isr' = imr'
    /\ base' = PicRemap
    /\ UNCHANGED <<order, flag, cflags, cached_mask, isr_handlers, raises, faults>>

\* ... and writes the masks back; its locals are gone when it returns.
RestoreMasks ==
    /\ Boot("restore", "mask")
    /\ imr' = saved /\ saved' = [c \in Chips |-> {}]
    /\ UNCHANGED <<order, flag, cflags, cached_mask, isr_handlers, irr, isr, base,
                   raises, faults>>

pic_mask_all ==
    /\ Boot("mask", "sti")
    /\ cached_mask' = Lines
    /\ imr' = [c \in Chips |-> Bits]
    /\ UNCHANGED <<order, flag, cflags, isr_handlers, irr, isr, base, saved,
                   raises, faults>>

\* The end of idt_init.
sti ==
    /\ Boot("sti", "driver")
    /\ flag' = TRUE
    /\ UNCHANGED <<order, cflags, cached_mask, isr_handlers, pic, saved, raises,
                   faults>>

\* The next driver enters its handler in the table.  The timer does so, and
\* opens its line, with interrupts disabled.
IRQ0 == 0

AddHandler ==
    /\ order # <<>> /\ Boot("driver", "unmask")
    /\ isr_handlers' = [isr_handlers EXCEPT ![Head(order)] = "driver"]
    /\ IF Head(order) = IRQ0 THEN cflags' = flag /\ flag' = FALSE
                             ELSE UNCHANGED <<cflags, flag>>
    /\ UNCHANGED <<order, cached_mask, pic, saved, raises, faults>>

\* Faulty variant: the new mask is not remembered.
pic_unmask_NotCached(l) ==
    /\ imr' = [imr EXCEPT ![Chip(l)] = Bits \intersect (cached_mask \ {l % 8})]
    /\ UNCHANGED cached_mask

\* The bit of the line within its chip is cleared in what is cached, whichever
\* chip that was for, cut to eight bits, and written to the chip of the line.
pic_unmask(l) ==
    /\ cached_mask' = Bits \intersect (cached_mask \ {l % 8})
    /\ imr' = [imr EXCEPT ![Chip(l)] = cached_mask']

\* add_irq_handler goes on to open the line, and pit_init to recover_int.
Unmask ==
    /\ Boot("unmask", "driver")
    /\ pic_unmask(Head(order))
    /\ order' = Tail(order)
    /\ flag' = IF Head(order) = IRQ0 THEN cflags ELSE flag
    /\ UNCHANGED <<cflags, isr_handlers, irr, isr, base, saved, raises, faults>>

\* spawn_init disables interrupts and never recovers them ...
spawn_init ==
    /\ order = <<>> /\ Boot("driver", "switch")
    /\ cflags' = flag /\ flag' = FALSE
    /\ UNCHANGED <<order, cached_mask, isr_handlers, pic, saved, raises, faults>>

\* Faulty variant: the task is switched to with interrupts still disabled.
switch_task_NoSti ==
    /\ Boot("switch", "user")
    /\ UNCHANGED <<order, flag, cflags, cached_mask, isr_handlers, pic, saved,
                   raises, faults>>

\* ... but switch_task and jump_usermode enable them.
switch_task ==
    /\ Boot("switch", "user")
    /\ flag' = TRUE
    /\ UNCHANGED <<order, cflags, cached_mask, isr_handlers, pic, saved, raises,
                   faults>>

kernel_main ==
    \/ idt_init \/ RemapChips \/ RestoreMasks \/ pic_mask_all \/ sti
    \/ AddHandler \/ Unmask \/ spawn_init \/ switch_task

Next ==
    \/ \E l \in Devices : Raise(l)
    \/ Deliver \/ Fault \/ Syscall \/ Exit
    \/ Dispatch \/ kernel_main

\* The kernel runs on.  A pending request is taken at the next boundary of
\* two instructions at which the flag is set, and every return from a system
\* call is one: strong fairness.  Devices, exceptions and programs owe nothing.
Spec ==
    /\ Init /\ [][Next]_vars
    /\ SF_vars(Deliver) /\ WF_vars(Dispatch) /\ SF_vars(kernel_main)

----------------------------------------------------------------------------
\* Properties.

\* Every variable keeps its type: masks of eight bits, one cached mask of 16.
TypeOK ==
    /\ pc \in {"idt", "remap", "restore", "mask", "sti", "driver", "unmask",
               "switch", "user", "kern"}
    /\ order \in Seq(Lines) /\ flag \in BOOLEAN /\ cflags \in BOOLEAN
    /\ cached_mask \subseteq Lines
    /\ isr_handlers \in [Lines -> {"null", "void_handler", "driver"}]
    /\ stack \in Seq([vector : Nat, irq : BOOLEAN, at : {"eoi", "handler"},
                      flag : BOOLEAN])
    /\ {imr, irr, isr, saved} \subseteq [Chips -> SUBSET Bits]
    /\ base \in [Chips -> Nat]
    /\ raises \in [Devices -> 0 .. MaxRaises] /\ faults \in 0 .. MaxFaults

Registered == {l \in Lines : isr_handlers[l] = "driver"}
Open == {l \in Lines : l % 8 \notin imr[Chip(l)]}
Opening == IF pc = "unmask" THEN {Head(order)} ELSE {}

\* Once interrupts are enabled, the masks follow the registrations whatever
\* the order of the drivers: no later write closes a line whose driver has
\* registered, and a line that is open has a driver, or shares its bit with
\* the line of the other chip that has one (the price of one cached mask).
MasksFollowDrivers ==
    pc \notin {"idt", "remap", "restore", "mask"} =>
        /\ Registered \ Opening \subseteq Open
        /\ \A l \in Open : {l, Alias(l)} \intersect Registered # {}

\* An interrupt of a controller comes on a vector of its own, never on one of
\* the CPU's exceptions, and finds an entry in the table; one of the second
\* chip comes only if some driver's bit has opened the cascade line with its
\* own.  kernel_main's own drivers leave that line closed for good.
DeliveredSafely ==
    \A i \in DOMAIN stack : stack[i].irq =>
        /\ Line(stack[i]) \in Lines /\ isr_handlers[Line(stack[i])] # "null"
        /\ Line(stack[i]) >= 8 => \E l \in Registered : l % 8 = Cascade

\* Handlers of devices do not nest, although exceptions interrupt them, and
\* a chip has a line in service only on the way into a handler: the handler
\* itself can be left for good (exit) and blocks no line, and the extra ends
\* of interrupt that exceptions and system calls send hit nothing.
OneAtATime ==
    /\ Cardinality({i \in DOMAIN stack : stack[i].irq}) <= 1
    /\ (\E c \in Chips : isr[c] # {}) =>
          stack # <<>> /\ Top.irq /\ Top.at = "eoi"

Served(l) == InHandler /\ Top.irq /\ Line(Top) = l
Reaches(l) == l \in Open /\ (l >= 8 => Cascade \in Open)

\* A device with a driver whose request is pending once its line is open
\* (with the cascade line, on the second chip) gets its handler called, if
\* devices above it do not ask for ever and init does not exit before.
DevicesServed ==
    \A l \in Devices :
        (l % 8 \in irr[Chip(l)] /\ l \in Registered /\ Reaches(l)
            /\ pc \notin {"idt", "remap", "restore", "mask"})
        ~> (Served(l) \/ pc = "kern")
=============================================================================
