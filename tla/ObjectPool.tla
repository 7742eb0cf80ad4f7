----------------------------- MODULE ObjectPool -----------------------------
(***************************************************************************)
(* What a slab cache promises its callers: a pool of objects from which an *)
(* object is handed out to one caller at a time, takes it back, and may be *)
(* closed when no call is under way.  outstanding is the number of objects *)
(* the pool takes for allocated; it has to follow the calls.               *)
(***************************************************************************)
EXTENDS Integers

CONSTANT Objects

VARIABLES live, lost, outstanding, closed

vars == <<live, lost, outstanding, closed>>

Init ==
    /\ live = {}
    /\ lost = {}
    /\ outstanding = 0
    /\ closed = FALSE

Get ==
    /\ ~closed
    /\ \E o \in Objects \ (live \cup lost) : live' = live \cup {o}
    /\ outstanding' = outstanding + 1
    /\ UNCHANGED <<lost, closed>>

Put ==
    /\ ~closed
    /\ \E o \in live : live' = live \ {o}
    /\ outstanding' = outstanding - 1
    /\ UNCHANGED <<lost, closed>>

\* The caller let go of the object, the pool did not recover it.
Lose ==
    /\ ~closed
    /\ \E o \in live : live' = live \ {o} /\ lost' = lost \cup {o}
    /\ UNCHANGED <<outstanding, closed>>

Close ==
    /\ ~closed
    /\ closed' = TRUE
    /\ UNCHANGED <<live, lost, outstanding>>

Next == Get \/ Put \/ Lose \/ Close

Spec == Init /\ [][Next]_vars

=============================================================================
