---------------------------- MODULE MCExtIntrTest ----------------------------
\* ExtIntrTest for TLC: the sources are model values given in the cfg file.
EXTENDS ExtIntrTest
=============================================================================
