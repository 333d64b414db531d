--------------------------- MODULE KlibHeap_proofs ---------------------------
(***************************************************************************)
(* Mutual exclusion and disjointness of the live blocks, for every number  *)
(* of harts, heap and set of sizes.                                        *)
(***************************************************************************)
EXTENDS KlibHeap, TLAPS

\* A store-conditional that can still succeed read a free lock, and the lock has
\* not been taken since.
LockInv == /\ \A h \in Hart : pc[h] \in {"m_sc", "f_sc"} /\ h \in reserved => lockWord = 0
           /\ \A h \in Hart : pc[h] \in Inside => lockWord = 1
           /\ \A g, h \in Hart : pc[g] \in Inside /\ pc[h] \in Inside => g = h

\* A pointer on its way through free().
Freeing(h) == pc[h] \in {"f_lr", "f_sc", "reclaim"} /\ arg[h] # NoPtr

\* The last block is the highest one; everything else ends below it.
LastInv ==
  /\ lastPtr = NoPtr => lastSize = 0 /\ live = {}
  /\ lastPtr # NoPtr => lastPtr >= HeapStart
  /\ \A b \in live : /\ b.size > 0
                     /\ \/ b.ptr + b.size <= lastPtr
                        \/ b.ptr = lastPtr /\ b.size = lastSize

\* A block being freed still occupies its place until Reclaim: nothing live
\* starts there, nobody else frees it, and malloc will not hand it out.
FreeInv ==
  \A h \in Hart : Freeing(h) =>
    /\ arg[h] <= lastPtr
    /\ arg[h] = lastPtr => lastSize > 0
    /\ \A b \in live : b.ptr # arg[h]
    /\ \A g \in Hart : Freeing(g) /\ arg[g] = arg[h] => g = h

\* Between Advance and Take the new block is free and fits.
TakeInv ==
  /\ \A h \in Hart : pc[h] \in {"m_lr", "m_sc", "advance", "take"} => arg[h] > 0
  /\ \A h \in Hart : pc[h] = "take" =>
       /\ lastPtr >= HeapStart
       /\ lastPtr + arg[h] < HeapEnd
       /\ \A b \in live : b.ptr + b.size <= lastPtr
       /\ \A g \in Hart : Freeing(g) => arg[g] < lastPtr

IInv == TypeOK /\ LockInv /\ LastInv /\ FreeInv /\ TakeInv /\ LiveDisjoint /\ LiveInHeap

-----------------------------------------------------------------------------

\* Rounding up to a word never shrinks a size.
LEMMA RoundUpGrows == \A n \in Nat : RoundUp(n) \in Nat /\ RoundUp(n) >= n
  BY DEF RoundUp, Word

LEMMA SizesPositive == \A n \in Sizes : n \in Nat /\ n > 0
  BY SizesAssumption, HeapAssumption

LEMMA InitIInv == Init => IInv
  BY HeapAssumption DEF Init, IInv, TypeOK, LockInv, LastInv, FreeInv, TakeInv, LiveDisjoint,
     LiveInHeap, Freeing, Acquiring, Inside, NoPtr

LEMMA StepIInv == IInv /\ [Next]_vars => IInv'
  <1> SUFFICES ASSUME IInv, [Next]_vars
               PROVE  IInv'
    OBVIOUS
  <1> USE HeapAssumption DEF IInv, TypeOK, Acquiring, Inside, goto, NoPtr
  <1>1. ASSUME NEW h \in Hart, NEW n \in Sizes, CallMalloc(h, n)
        PROVE  IInv'
    <2>1. RoundUp(n) \in Nat /\ RoundUp(n) > 0
      BY RoundUpGrows, SizesPositive
    <2>2. TypeOK' /\ LockInv'
      BY <1>1, <2>1 DEF CallMalloc, LockInv
    <2>3. \A g \in Hart : Freeing(g)' => Freeing(g) /\ arg'[g] = arg[g]
      BY <1>1 DEF CallMalloc, Freeing
    <2>4. LastInv' /\ LiveDisjoint' /\ LiveInHeap'
      BY <1>1 DEF CallMalloc, LastInv, LiveDisjoint, LiveInHeap
    <2>5. FreeInv'
      BY <1>1, <2>3 DEF CallMalloc, FreeInv
    <2>6. TakeInv'
      BY <1>1, <2>1, <2>3 DEF CallMalloc, TakeInv
    <2> QED
      BY <2>2, <2>4, <2>5, <2>6
  <1>2. ASSUME NEW h \in Hart, NEW b \in live, CallFree(h, b)
        PROVE  IInv'
    <2>1. b.ptr \in Nat /\ b.size \in Nat /\ b.size > 0 /\ live' \subseteq live
      BY <1>2 DEF CallFree, LastInv
    <2>2. TypeOK' /\ LockInv'
      BY <1>2, <2>1 DEF CallFree, LockInv
    <2>3. LastInv' /\ LiveDisjoint' /\ LiveInHeap'
      BY <1>2, <2>1 DEF CallFree, LastInv, LiveDisjoint, LiveInHeap
    <2>4. \A c \in live' : c.ptr # b.ptr
      <3>1. SUFFICES ASSUME NEW c \in live', c.ptr = b.ptr
                     PROVE  FALSE
        OBVIOUS
      <3>2. c \in live /\ c # b /\ c.ptr \in Nat /\ c.size \in Nat /\ c.size > 0
        BY <1>2, <3>1 DEF CallFree, LastInv
      <3> QED
        BY <2>1, <3>1, <3>2 DEF LiveDisjoint
    <2>5. \A g \in Hart : Freeing(g)' => \/ g = h
                                         \/ Freeing(g) /\ arg'[g] = arg[g]
      BY <1>2 DEF CallFree, Freeing
    <2>6. arg'[h] = b.ptr
      BY <1>2 DEF CallFree
    <2>7. b.ptr <= lastPtr /\ (b.ptr = lastPtr => lastSize > 0)
      BY <2>1 DEF LastInv
    <2>8. \A g \in Hart : Freeing(g) => arg[g] # b.ptr
      BY DEF FreeInv
    <2>9. FreeInv'
      BY <1>2, <2>1, <2>4, <2>5, <2>6, <2>7, <2>8 DEF CallFree, FreeInv
    <2>10. TakeInv'
      BY <1>2, <2>1, <2>5, <2>6 DEF CallFree, TakeInv
    <2> QED
      BY <2>2, <2>3, <2>9, <2>10
  <1>3. ASSUME NEW h \in Hart, CallFreeNull(h)
        PROVE  IInv'
    <2>1. TypeOK' /\ LockInv'
      BY <1>3 DEF CallFreeNull, LockInv
    <2>2. LastInv' /\ LiveDisjoint' /\ LiveInHeap'
      BY <1>3 DEF CallFreeNull, LastInv, LiveDisjoint, LiveInHeap
    <2>3. \A g \in Hart : Freeing(g)' => Freeing(g) /\ arg'[g] = arg[g]
      BY <1>3 DEF CallFreeNull, Freeing
    <2>4. FreeInv' /\ TakeInv'
      BY <1>3, <2>3 DEF CallFreeNull, FreeInv, TakeInv
    <2> QED
      BY <2>1, <2>2, <2>4
  <1>4. ASSUME NEW h \in Hart, LoadReserved(h) \/ ScSucceeds(h) \/ ScFails(h)
        PROVE  IInv'
    <2>1. TypeOK' /\ LockInv'
      BY <1>4 DEF LoadReserved, ScSucceeds, ScFails, LockInv, ScOf, LrOf, Body
    <2>2. LastInv' /\ LiveDisjoint' /\ LiveInHeap'
      BY <1>4 DEF LoadReserved, ScSucceeds, ScFails, LastInv, LiveDisjoint, LiveInHeap
    <2>3. \A g \in Hart : Freeing(g)' => Freeing(g) /\ arg'[g] = arg[g]
      BY <1>4 DEF LoadReserved, ScSucceeds, ScFails, Freeing, ScOf, LrOf, Body
    <2>4. FreeInv'
      BY <1>4, <2>3 DEF LoadReserved, ScSucceeds, ScFails, FreeInv
    <2>5. TakeInv'
      BY <1>4, <2>3 DEF LoadReserved, ScSucceeds, ScFails, TakeInv, ScOf, LrOf, Body
    <2> QED
      BY <2>1, <2>2, <2>4, <2>5
  <1>5. ASSUME NEW h \in Hart, Advance(h)
        PROVE  IInv'
    <2>1. /\ lastPtr' \in Nat /\ lastPtr' >= HeapStart /\ lastPtr' # NoPtr
          /\ lastPtr' >= lastPtr + lastSize
      BY <1>5 DEF Advance, NextPtr, LastInv
    <2>2. TypeOK' /\ LockInv'
      BY <1>5, <2>1 DEF Advance, LockInv
    <2>3. \A b \in live : b.ptr + b.size <= lastPtr'
      BY <2>1 DEF LastInv
    <2>4. LastInv' /\ LiveDisjoint' /\ LiveInHeap'
      BY <1>5, <2>1, <2>3 DEF Advance, LastInv, LiveDisjoint, LiveInHeap
    <2>5. \A g \in Hart : Freeing(g)' => Freeing(g) /\ arg'[g] = arg[g]
      BY <1>5 DEF Advance, Freeing
    <2>6. \A g \in Hart : Freeing(g) => arg[g] < lastPtr'
      BY <2>1 DEF FreeInv
    <2>7. FreeInv'
      BY <1>5, <2>1, <2>5, <2>6 DEF Advance, FreeInv
    <2>8. \A g \in Hart : pc'[g] = "take" => g = h /\ lastPtr' + arg'[g] < HeapEnd
      <3>1. SUFFICES ASSUME NEW g \in Hart, pc'[g] = "take"
                     PROVE  g = h /\ lastPtr' + arg'[g] < HeapEnd
        OBVIOUS
      <3>2. arg' = arg /\ arg[h] \in Nat /\ NextPtr = lastPtr' /\ pc[h] = "advance"
        BY <1>5 DEF Advance
      <3>3. g = h
        BY <1>5, <3>1, <3>2 DEF Advance, LockInv
      <3>4. ~(lastPtr' + arg[h] >= HeapEnd)
        BY <1>5, <3>1, <3>2, <3>3 DEF Advance
      <3> QED
        BY <2>1, <3>2, <3>3, <3>4
    <2>9. TakeInv'
      BY <1>5, <2>1, <2>3, <2>5, <2>6, <2>8 DEF Advance, TakeInv
    <2> QED
      BY <2>2, <2>4, <2>7, <2>9
  <1>6. ASSUME NEW h \in Hart, GiveUp(h)
        PROVE  IInv'
    <2>1. TypeOK' /\ LockInv'
      BY <1>6 DEF GiveUp, LockInv
    <2>2. LastInv' /\ LiveDisjoint' /\ LiveInHeap'
      BY <1>6 DEF GiveUp, LastInv, LiveDisjoint, LiveInHeap
    <2>3. \A g \in Hart : Freeing(g)' => Freeing(g) /\ arg'[g] = arg[g]
      BY <1>6 DEF GiveUp, Freeing
    <2>4. FreeInv' /\ TakeInv'
      BY <1>6, <2>3 DEF GiveUp, FreeInv, TakeInv
    <2> QED
      BY <2>1, <2>2, <2>4
  <1>7. ASSUME NEW h \in Hart, Take(h)
        PROVE  IInv'
    <2> DEFINE new == Block(lastPtr, arg[h])
    <2>1. /\ arg[h] \in Nat /\ arg[h] > 0 /\ lastPtr >= HeapStart
          /\ lastPtr + arg[h] < HeapEnd
          /\ \A b \in live : b.ptr + b.size <= lastPtr
          /\ \A g \in Hart : Freeing(g) => arg[g] < lastPtr
      BY <1>7 DEF Take, TakeInv
    <2>2. /\ new \in [ptr : Nat, size : Nat]
          /\ new.ptr = lastPtr /\ new.size = arg[h]
          /\ live' = live \cup {new} /\ lastSize' = arg[h] /\ lastPtr' = lastPtr
      BY <1>7, <2>1 DEF Take, Block
    <2>3. TypeOK' /\ LockInv'
      BY <1>7, <2>1, <2>2 DEF Take, LockInv
    <2>4. LastInv' /\ LiveInHeap'
      BY <2>1, <2>2 DEF LastInv, LiveInHeap
    <2>5. LiveDisjoint'
      BY <2>1, <2>2 DEF LiveDisjoint
    <2>6. \A g \in Hart : Freeing(g)' => Freeing(g) /\ arg'[g] = arg[g]
      BY <1>7 DEF Take, Freeing
    <2>7. FreeInv'
      BY <2>1, <2>2, <2>6 DEF FreeInv
    <2>8. \A g \in Hart : pc'[g] # "take"
      BY <1>7 DEF Take, LockInv
    <2>9. TakeInv'
      BY <1>7, <2>8 DEF Take, TakeInv
    <2> QED
      BY <2>3, <2>4, <2>5, <2>7, <2>9
  <1>8. ASSUME NEW h \in Hart, Reclaim(h)
        PROVE  IInv'
    <2>1. TypeOK' /\ LockInv'
      BY <1>8 DEF Reclaim, LockInv
    <2>2. \A g \in Hart : Freeing(g)' => Freeing(g) /\ g # h /\ arg'[g] = arg[g]
      BY <1>8 DEF Reclaim, Freeing
    <2>3. \A g \in Hart : pc'[g] # "take"
      BY <1>8 DEF Reclaim, LockInv
    <2>4. LiveDisjoint' /\ LiveInHeap' /\ TakeInv'
      BY <1>8, <2>3 DEF Reclaim, LiveDisjoint, LiveInHeap, TakeInv
    <2>5. CASE arg[h] = lastPtr /\ lastPtr # NoPtr
      <3>1. Freeing(h)
        BY <1>8, <2>5 DEF Reclaim, Freeing
      <3>2. /\ \A b \in live : b.ptr # lastPtr
            /\ \A g \in Hart : Freeing(g) /\ arg[g] = lastPtr => g = h
        BY <2>5, <3>1 DEF FreeInv
      <3>3. LastInv'
        BY <1>8, <2>5, <3>2 DEF Reclaim, LastInv
      <3>4. FreeInv'
        BY <1>8, <2>2, <3>2 DEF Reclaim, FreeInv
      <3> QED
        BY <2>1, <2>4, <3>3, <3>4
    <2>6. CASE ~(arg[h] = lastPtr /\ lastPtr # NoPtr)
      <3>1. lastSize' = lastSize
        BY <1>8, <2>6 DEF Reclaim, LastInv
      <3>2. LastInv'
        BY <1>8, <3>1 DEF Reclaim, LastInv
      <3>3. FreeInv'
        BY <1>8, <2>2, <3>1 DEF Reclaim, FreeInv
      <3> QED
        BY <2>1, <2>4, <3>2, <3>3
    <2> QED
      BY <2>5, <2>6
  <1>9. ASSUME NEW h \in Hart, Unlock(h)
        PROVE  IInv'
    <2>1. TypeOK' /\ LockInv'
      BY <1>9 DEF Unlock, LockInv
    <2>2. LastInv' /\ LiveDisjoint' /\ LiveInHeap'
      BY <1>9 DEF Unlock, LastInv, LiveDisjoint, LiveInHeap
    <2>3. \A g \in Hart : Freeing(g)' => Freeing(g) /\ arg'[g] = arg[g]
      BY <1>9 DEF Unlock, Freeing
    <2>4. FreeInv' /\ TakeInv'
      BY <1>9, <2>3 DEF Unlock, FreeInv, TakeInv
    <2> QED
      BY <2>1, <2>2, <2>4
  <1>10. CASE UNCHANGED vars
    <2>1. \A g \in Hart : Freeing(g)' <=> Freeing(g)
      BY <1>10 DEF vars, Freeing
    <2> QED
      BY <1>10, <2>1 DEF vars, LockInv, LastInv, FreeInv, TakeInv, LiveDisjoint, LiveInHeap
  <1> QED
    BY <1>1, <1>2, <1>3, <1>4, <1>5, <1>6, <1>7, <1>8, <1>9, <1>10 DEF Next, Acquire, Critical

THEOREM Invariance == Spec => []IInv
  BY InitIInv, StepIInv, PTL DEF Spec

\* Sizes, pointers and program counters keep their types.
THEOREM TypeCorrect == Spec => []TypeOK
  <1>1. IInv => TypeOK
    BY DEF IInv
  <1> QED
    BY <1>1, Invariance, PTL

\* The lr/sc lock of atomic.c excludes: one hart inside malloc or free, and no
\* other reservation that could still let a second one in.
THEOREM LockExcludes == Spec => []MutualExclusion
  <1>1. IInv => MutualExclusion
    BY DEF IInv, TypeOK, LockInv, MutualExclusion
  <1> QED
    BY <1>1, Invariance, PTL

\* malloc never hands out a byte that is still in use.
THEOREM BlocksAreDisjoint == Spec => []LiveDisjoint
  <1>1. IInv => LiveDisjoint
    BY DEF IInv
  <1> QED
    BY <1>1, Invariance, PTL

\* ... nor one outside the heap.
THEOREM BlocksAreInHeap == Spec => []LiveInHeap
  <1>1. IInv => LiveInHeap
    BY DEF IInv
  <1> QED
    BY <1>1, Invariance, PTL

\* The lock is never held in vain: while it is taken some hart is on its way to release().
HolderInv == lockWord = 1 => \E h \in Hart : pc[h] \in Inside

LEMMA StepHolder == IInv /\ HolderInv /\ [Next]_vars => HolderInv'
  <1> SUFFICES ASSUME IInv, HolderInv, [Next]_vars
               PROVE  HolderInv'
    OBVIOUS
  <1>0. pc \in [Hart -> {"idle"} \cup Acquiring \cup Inside] /\ lockWord \in {0, 1}
    BY DEF IInv, TypeOK
  <1>1. ASSUME NEW h \in Hart, Unlock(h)
        PROVE  HolderInv'
    BY <1>1 DEF Unlock, HolderInv
  <1>2. ASSUME NEW h \in Hart, ScSucceeds(h)
        PROVE  HolderInv'
    <2>1. pc' = [pc EXCEPT ![h] = Body(pc[h])]
      BY <1>2 DEF ScSucceeds, goto
    <2>2. pc'[h] \in Inside
      BY <1>0, <2>1 DEF Body, Inside
    <2> QED
      BY <2>2 DEF HolderInv
  <1>3. ASSUME NEW h \in Hart, Advance(h) \/ GiveUp(h) \/ Take(h) \/ Reclaim(h)
        PROVE  HolderInv'
    <2>1. lockWord' = lockWord /\ pc'[h] \in Inside
      BY <1>0, <1>3 DEF Advance, GiveUp, Take, Reclaim, goto, Inside
    <2> QED
      BY <2>1 DEF HolderInv
  <1>4. ASSUME lockWord' = lockWord,
               NEW h \in Hart, pc[h] \notin Inside, NEW p, pc' = [pc EXCEPT ![h] = p]
        PROVE  HolderInv'
    BY <1>0, <1>4 DEF HolderInv
  <1>5. ASSUME NEW h \in Hart,
               (\E n \in Sizes : CallMalloc(h, n)) \/ (\E b \in live : CallFree(h, b))
                 \/ CallFreeNull(h) \/ LoadReserved(h) \/ ScFails(h)
        PROVE  HolderInv'
    BY <1>4, <1>5 DEF CallMalloc, CallFree, CallFreeNull, LoadReserved, ScFails, goto, Inside
  <1>6. CASE UNCHANGED vars
    BY <1>6 DEF vars, HolderInv
  <1> QED
    BY <1>1, <1>2, <1>3, <1>5, <1>6 DEF Next, Acquire, Critical

\* No path through malloc and free, out of memory and free(NULL) included, ends with the
\* lock taken: a hart that finds it taken waits for one inside, and never for nobody.
THEOREM LockHasHolder == Spec => [](lockWord = 1 => \E h \in Hart : pc[h] \in Inside)
  <1>1. Init => HolderInv
    BY DEF Init, HolderInv
  <1> QED
    BY <1>1, StepHolder, Invariance, PTL DEF Spec, HolderInv
=============================================================================
