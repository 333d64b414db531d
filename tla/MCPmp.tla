-------------------------------- MODULE MCPmp --------------------------------
\* Pmp for TLC: a region, one inside it and its first word alone, the region at 0.
EXTENDS Pmp

MCRegion == {[addr |-> 16, size |-> 8, perm |-> {"R"}],
             [addr |-> 20, size |-> 4, perm |-> {}],
             [addr |-> 16, size |-> 1, perm |-> {"R", "W"}],
             [addr |-> 0, size |-> 24, perm |-> {"R", "X"}]}
MCProbe == {0, 15, 16, 17, 19, 20, 23, 24, 2^Width - 1}
=============================================================================
