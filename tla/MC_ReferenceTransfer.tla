------------------------ MODULE MC_ReferenceTransfer ------------------------
EXTENDS ReferenceTransfer, TLC

CONSTANTS whale, poor

MCOwners == {whale, poor}
=============================================================================
