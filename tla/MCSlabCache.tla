---------------------------- MODULE MCSlabCache ----------------------------
\* Model-checking instance of SlabCache and its refinement of ObjectPool.
EXTENDS SlabCache

\* As many pairs as the counts of the slabs take for allocated objects.
Counted == {x \in Allocated \X Chunks : x[2] <= Cap - numFree[x[1]]}

Pool == INSTANCE ObjectPool WITH
    Objects     <- Slabs \X Chunks,
    outstanding <- Cardinality(Counted),
    closed      <- pc \in {"destroy", "destroyed"}

\* The cache implements an object pool: each allocation hands out an object
\* nobody has and each slab_free takes exactly the one it is given, whatever
\* the order of the calls.
ImplementsPool == Pool!Spec

=============================================================================
