------------------------------ MODULE MCInitrd ------------------------------
\* The names of the instance that TLC checks: one begins with another.
EXTENDS Initrd

MCBeginnings == {<<"in", "init">>}
=============================================================================
