------------------------------- MODULE MCRvVme -------------------------------
\* RvVme for TLC, in the NEMU layout: two kernel pages under the first root entry
\* and in different middle tables; a 2 MiB page beside them; a later kernel page and
\* a 1 GiB page under root entries of their own; two user pages under another.
EXTENDS RvVme

MCIdx == 0..3
MCKernelVa == {<<0, 0, 0>>, <<0, 1, 0>>}
MCExtraVa  == {<<2, 0, 0>>}
MCHugeVa   == {<<0, 2>>, <<3>>}
MCUserVa   == {<<1, 0, 0>>, <<1, 1, 0>>}

\* The riscv64-xs layout: a kernel segment inside USER_SPACE.
XsKernelVa == {<<0, 0, 0>>, <<1, 0, 0>>}
XsUserVa   == {<<1, 0, 1>>, <<1, 1, 0>>}
=============================================================================
