\* A heap of four words: one reserved by the strict bound, so three one-word
\* blocks or a two-word and a one-word one fit before
\* malloc fails; MaxPtr lets it fail twice.
CONSTANTS
  Hart = {h1, h2}
  HeapStart = 8
  HeapEnd = 40
  Sizes = {8, 12}
  MaxPtr = 48
SPECIFICATION FairSpec
INVARIANTS MutualExclusion LiveDisjoint LiveInHeap
PROPERTY LockReturns
