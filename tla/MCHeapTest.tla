----------------------------- MODULE MCHeapTest -----------------------------
(***************************************************************************)
(* allocator_test of mem/allocator.c, call by call, on a heap with one     *)
(* block in use.  8 and 16 bytes are both one unit of HEAP_ALIGN.          *)
(***************************************************************************)
EXTENDS Heap

VARIABLE step   \* calls of the script made so far

\* A free names the place of its block in live: after the block of the boot
\* come p1, p2, p3; p2 goes, p4 comes last, then p1, p4 and p3 go.
Script == << [op |-> "alloc", i |-> 0],     \* boot
             [op |-> "alloc", i |-> 0],     \* p1
             [op |-> "alloc", i |-> 0],     \* p2
             [op |-> "alloc", i |-> 0],     \* p3
             [op |-> "free", i |-> 3],      \* p2
             [op |-> "alloc", i |-> 0],     \* p4
             [op |-> "free", i |-> 2],      \* p1
             [op |-> "free", i |-> 3],      \* p4
             [op |-> "free", i |-> 2],      \* p3
             [op |-> "alloc", i |-> 0] >>   \* r2

TestInit == Init /\ step = 0

allocator_test ==
    /\ step < Len(Script)
    /\ LET c == Script[step + 1] IN
        \/ c.op = "alloc" /\ kmalloc(1)
        \/ c.op = "free" /\ kfree(c.i)
    /\ step' = step + 1

TestNext == allocator_test \/ (Step /\ UNCHANGED step)

testVars == <<vars, step>>

\* The test runs alone, so each of its steps is taken.
TestSpec == TestInit /\ [][TestNext]_testVars /\ WF_testVars(TestNext)

\* allocator_test, which goes on to one more allocation after its last kfree,
\* comes to its end.
TestEnds == <>(step = Len(Script) /\ call = Idle)
=============================================================================
