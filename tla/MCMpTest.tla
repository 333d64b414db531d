------------------------------ MODULE MCMpTest ------------------------------
\* MpTest for TLC: harts are model values given in RvBarrier.cfg.
EXTENDS MpTest
=============================================================================
