------------------------------ MODULE MCRvTrap ------------------------------
\* RvTrap for TLC: the sources are model values given in the cfg files.
EXTENDS RvTrap
=============================================================================
