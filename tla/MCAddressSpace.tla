--------------------------- MODULE MCAddressSpace ---------------------------
\* The RAM disk of the instance that TLC checks.
EXTENDS AddressSpace

MCInitrd == <<5, 6, 7>>
=============================================================================
