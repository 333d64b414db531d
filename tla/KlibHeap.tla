------------------------------ MODULE KlibHeap ------------------------------
(***************************************************************************)
(* klib's malloc() and free() (stdlib.c) under the spin lock of atomic.c,  *)
(* called by several harts.  The allocator keeps only the last block: the  *)
(* next one starts behind it, and freeing it lets the next one take its    *)
(* place.  The lock is an lr.d/sc.d pair; a store-conditional fails when   *)
(* the reservation is lost, and may fail without a reason.                 *)
(*                                                                         *)
(* Memory is sequentially consistent here: the code has no fence between   *)
(* the stores to `last' and the store that frees the lock.                 *)
(***************************************************************************)
EXTENDS Integers, FiniteSets

CONSTANTS Hart,
          HeapStart, HeapEnd,   \* _heap
          Sizes,                \* sizes in bytes that callers ask for
          MaxPtr                \* bound: malloc is not called once last.ptr is beyond

\* Callers ask for at least one byte and no more than the heap holds: a size
\* near 2^64 wraps in ROUNDUP and in last.ptr + size.
ASSUME HeapAssumption == /\ HeapStart \in Nat \ {0} /\ HeapEnd \in Nat
                         /\ HeapStart <= HeapEnd
ASSUME BoundAssumption == MaxPtr \in Nat
ASSUME SizesAssumption == Sizes \subseteq 1..(HeapEnd - HeapStart)

Word == 8                       \* sizeof(uintptr_t)

\* ROUNDUP(n, sizeof(uintptr_t))
RoundUp(n) == ((n + Word - 1) \div Word) * Word

NoPtr == 0

VARIABLES
  lockWord,     \* malloc_lock
  reserved,     \* harts whose lr.d reservation on it is intact
  lastPtr, lastSize,   \* last.ptr and last.size
  pc,           \* per hart
  arg,          \* per hart: the rounded size, or the pointer to free
  live          \* history: blocks [ptr, size] returned and not given to free

vars == <<lockWord, reserved, lastPtr, lastSize, pc, arg, live>>

\* Steps under the lock.
Inside == {"advance", "take", "give_up", "reclaim", "unlock"}

Block(p, n) == [ptr |-> p, size |-> n]

Init == /\ lockWord = 0 /\ reserved = {}
        /\ lastPtr = NoPtr /\ lastSize = 0
        /\ pc = [h \in Hart |-> "idle"]
        /\ arg = [h \in Hart |-> 0]
        /\ live = {}

goto(h, p) == pc' = [pc EXCEPT ![h] = p]

-----------------------------------------------------------------------------
(* lock(): compare_and_swap until it returns 0, called from malloc (m_)    *)
(* and from free (f_).                                                     *)

Acquiring == {"m_lr", "m_sc", "f_lr", "f_sc"}

Body(p) == IF p \in {"m_lr", "m_sc"} THEN "advance" ELSE "reclaim"
ScOf(p) == IF p = "m_lr" THEN "m_sc" ELSE "f_sc"
LrOf(p) == IF p = "m_sc" THEN "m_lr" ELSE "f_lr"

CallMalloc(h, n) == /\ pc[h] = "idle" /\ lastPtr <= MaxPtr
                    /\ arg' = [arg EXCEPT ![h] = RoundUp(n)]
                    /\ goto(h, "m_lr")
                    /\ UNCHANGED <<lockWord, reserved, lastPtr, lastSize, live>>

\* The caller gives the block up; it may be any block, allocated by any hart.
CallFree(h, b) == /\ pc[h] = "idle"
                  /\ live' = live \ {b}
                  /\ arg' = [arg EXCEPT ![h] = b.ptr]
                  /\ goto(h, "f_lr")
                  /\ UNCHANGED <<lockWord, reserved, lastPtr, lastSize>>

\* free(NULL) takes the lock like any other.
CallFreeNull(h) == /\ pc[h] = "idle"
                   /\ arg' = [arg EXCEPT ![h] = NoPtr]
                   /\ goto(h, "f_lr")
                   /\ UNCHANGED <<lockWord, reserved, lastPtr, lastSize, live>>

LoadReserved(h) == /\ pc[h] \in {"m_lr", "f_lr"}
                   /\ reserved' = reserved \cup {h}
                   /\ goto(h, IF lockWord = 0 THEN ScOf(pc[h]) ELSE pc[h])
                   /\ UNCHANGED <<lockWord, lastPtr, lastSize, arg, live>>

\* Mutation of ScSucceeds: a plain store in place of the store-conditional.
ScIgnoresReservation(h) ==
  /\ pc[h] \in {"m_sc", "f_sc"}
  /\ lockWord' = 1
  /\ reserved' = {}
  /\ goto(h, Body(pc[h]))
  /\ UNCHANGED <<lastPtr, lastSize, arg, live>>

ScSucceeds(h) == /\ pc[h] \in {"m_sc", "f_sc"}
                 /\ h \in reserved
                 /\ lockWord' = 1
                 /\ reserved' = {}
                 /\ goto(h, Body(pc[h]))
                 /\ UNCHANGED <<lastPtr, lastSize, arg, live>>

ScFails(h) == /\ pc[h] \in {"m_sc", "f_sc"}
              /\ reserved' = reserved \ {h}
              /\ goto(h, LrOf(pc[h]))
              /\ UNCHANGED <<lockWord, lastPtr, lastSize, arg, live>>

-----------------------------------------------------------------------------
(* malloc()                                                                *)

\* Where last.ptr ends up: behind the last block, from _heap.start on.
NextPtr == (IF lastPtr = NoPtr THEN HeapStart ELSE lastPtr) + lastSize

\* Mutation of Advance: the bound is tested before last.ptr is moved.
AdvanceStaleBound(h) ==
  /\ pc[h] = "advance"
  /\ lastPtr' = NextPtr
  /\ goto(h, IF lastPtr + arg[h] >= HeapEnd THEN "give_up" ELSE "take")
  /\ UNCHANGED <<lockWord, reserved, lastSize, arg, live>>

Advance(h) == /\ pc[h] = "advance"
              /\ lastPtr' = NextPtr
              /\ goto(h, IF NextPtr + arg[h] >= HeapEnd THEN "give_up" ELSE "take")
              /\ UNCHANGED <<lockWord, reserved, lastSize, arg, live>>

\* Out of memory: last.ptr stays advanced and last.size stays what it was, so
\* every further malloc that fails moves last.ptr by as much again.
GiveUp(h) == /\ pc[h] = "give_up"
             /\ goto(h, "unlock")
             /\ UNCHANGED <<lockWord, reserved, lastPtr, lastSize, arg, live>>

Take(h) == /\ pc[h] = "take"
           /\ lastSize' = arg[h]
           /\ live' = live \cup {Block(lastPtr, arg[h])}
           /\ goto(h, "unlock")
           /\ UNCHANGED <<lockWord, reserved, lastPtr, arg>>

-----------------------------------------------------------------------------
(* free()                                                                  *)

\* Mutation of Reclaim: any freed block resets last.size.
ReclaimAny(h) ==
  /\ pc[h] = "reclaim"
  /\ lastSize' = 0
  /\ goto(h, "unlock")
  /\ UNCHANGED <<lockWord, reserved, lastPtr, arg, live>>

Reclaim(h) == /\ pc[h] = "reclaim"
              /\ lastSize' = IF arg[h] = lastPtr THEN 0 ELSE lastSize
              /\ goto(h, "unlock")
              /\ UNCHANGED <<lockWord, reserved, lastPtr, arg, live>>

\* Mutation of Unlock: the store of zero is missing.
UnlockForgotten(h) ==
  /\ pc[h] = "unlock"
  /\ goto(h, "idle")
  /\ arg' = [arg EXCEPT ![h] = 0]
  /\ UNCHANGED <<lockWord, reserved, lastPtr, lastSize, live>>

\* release(): the store also breaks the reservations of waiting harts.
Unlock(h) == /\ pc[h] = "unlock"
             /\ lockWord' = 0
             /\ reserved' = {}
             /\ goto(h, "idle")
             /\ arg' = [arg EXCEPT ![h] = 0]
             /\ UNCHANGED <<lastPtr, lastSize, live>>

-----------------------------------------------------------------------------

Acquire(h) == LoadReserved(h) \/ ScSucceeds(h) \/ ScFails(h)
Critical(h) == Advance(h) \/ GiveUp(h) \/ Take(h) \/ Reclaim(h) \/ Unlock(h)

Next == \E h \in Hart : \/ \E n \in Sizes : CallMalloc(h, n)
                        \/ \E b \in live : CallFree(h, b)
                        \/ CallFreeNull(h)
                        \/ Acquire(h)
                        \/ Critical(h)

Spec == Init /\ [][Next]_vars

\* No hart stops inside lock, malloc or free, and an lr/sc loop that is tried
\* again and again succeeds in the end (the architecture's promise).
FairSpec == Spec /\ \A h \in Hart : /\ WF_vars(Acquire(h) \/ Critical(h))
                                    /\ SF_vars(ScSucceeds(h))

-----------------------------------------------------------------------------
(* Properties.                                                             *)

TypeOK == /\ lockWord \in {0, 1}
          /\ reserved \subseteq Hart
          /\ lastPtr \in Nat /\ lastSize \in Nat
          /\ pc \in [Hart -> {"idle"} \cup Acquiring \cup Inside]
          /\ arg \in [Hart -> Nat]
          /\ live \subseteq [ptr : Nat, size : Nat]

\* The lock admits one hart at a time to the allocator's state, and a reservation
\* that would let a second one in is gone once the first is inside.
MutualExclusion ==
  \A g, h \in Hart : pc[g] \in Inside =>
    /\ lockWord = 1
    /\ pc[h] \in Inside => g = h
    /\ pc[h] \in {"m_sc", "f_sc"} => h \notin reserved

\* No two live blocks share a byte, whoever allocated them and whichever were
\* freed in between.
LiveDisjoint == \A b, c \in live : b = c \/ b.ptr + b.size <= c.ptr
                                         \/ c.ptr + c.size <= b.ptr

\* A live block lies in the heap, below the word that malloc leaves unused.
LiveInHeap == \A b \in live : HeapStart <= b.ptr /\ b.ptr + b.size < HeapEnd

\* The lock is handed back, by every path through malloc and free.
LockReturns == (lockWord = 1) ~> (lockWord = 0)
=============================================================================
