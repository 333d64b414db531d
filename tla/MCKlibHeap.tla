----------------------------- MODULE MCKlibHeap -----------------------------
\* KlibHeap for TLC.  Harts are interchangeable in the safety properties, but
\* LockReturns is checked in the same run, so no symmetry is declared.
EXTENDS KlibHeap
=============================================================================
