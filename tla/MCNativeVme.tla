----------------------------- MODULE MCNativeVme -----------------------------
\* NativeVme for TLC: spaces, pages and processors are model values of the cfg files.
EXTENDS NativeVme
=============================================================================
