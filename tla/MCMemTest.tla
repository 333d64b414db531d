------------------------------ MODULE MCMemTest ------------------------------
\* MemTest for TLC.  The pages of MCRvVme in the NEMU layout, the pages of the tests
\* under root entries of their own, the regions of MCPmp, and the edges of all regions.
EXTENDS MemTest, MCRvVme, MCPmp

MCPage == <<<<1, 3, 0>>, <<2, 3, 0>>, <<3, 3, 0>>, <<2, 2, 0>>, <<1, 2, 0>>>>

BootProbe == UNION {LET q == BootCalls[i].q
                    IN  {q.addr - 1, q.addr, q.addr + q.size}
                      : i \in 1..Len(BootCalls)}
MCAllProbe == MCProbe \cup BootProbe
=============================================================================
