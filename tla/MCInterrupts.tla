---------------------------- MODULE MCInterrupts ----------------------------
\* Model-checking instance of Interrupts.
EXTENDS Interrupts

\* serial_init, kbd_init, ps2_init, pit_init: the order of kernel_main; and
\* the same with the three lines of rtl_init_isr, which pci_enumeration would
\* reach from pci_init: a driver of the repository that uses line 10 and so
\* the bit of the cascade line.
MCBootOrders == {<<4, 1, 12, 0>>, <<4, 1, 12, 9, 10, 11, 0>>}

=============================================================================
