------------------------------ MODULE RvBarrier ------------------------------
(***************************************************************************)
(* The sense-reversing barrier of the riscv64-xs port (mpe.c): two shared  *)
(* words, count and sense, and a per-hart threadsense in thread-local      *)
(* storage.  Every access to a shared word is a step of its own.  The two  *)
(* stores of the last arrival reach memory in program order: count and     *)
(* sense are adjacent statics, and nothing in the code orders them.        *)
(***************************************************************************)
EXTENDS Integers, FiniteSets

CONSTANTS Hart,        \* the harts that run, as many as _ncpu() says
          MaxRounds    \* bound: barriers each hart goes through

ASSUME HartAssumption == IsFiniteSet(Hart) /\ Hart # {}
ASSUME RoundsAssumption == MaxRounds \in Nat

\* Mutation of NCpu: _ncpu() stays at its initial value.
NCpuDefault == 1

NCpu == Cardinality(Hart)

VARIABLES count, sense,      \* the shared statics
          threadsense,       \* per hart
          pc,                \* per hart, where in _barrier()
          arrivals,          \* history: barriers each hart has entered
          gen                \* history: barriers completed

vars == <<count, sense, threadsense, pc, arrivals, gen>>

Init == /\ count = 0 /\ sense = 0 /\ gen = 0
        /\ threadsense = [h \in Hart |-> 0]
        /\ pc = [h \in Hart |-> "out"]
        /\ arrivals = [h \in Hart |-> 0]

goto(h, p) == pc' = [pc EXCEPT ![h] = p]

\* Entry: the fence and threadsense = !threadsense.
Flip(h) == /\ pc[h] = "out" /\ arrivals[h] < MaxRounds
           /\ threadsense' = [threadsense EXCEPT ![h] = 1 - @]
           /\ arrivals' = [arrivals EXCEPT ![h] = @ + 1]
           /\ goto(h, "add")
           /\ UNCHANGED <<count, sense, gen>>

\* Mutation of Add: the last arrival is recognised one too early.
AddOffByOne(h) ==
  /\ pc[h] = "add"
  /\ count' = count + 1
  /\ goto(h, IF count + 1 = NCpu - 1 THEN "reset" ELSE "spin")
  /\ UNCHANGED <<sense, threadsense, arrivals, gen>>

\* _atomic_add(&count, 1) returns the old value; the last arrival goes on.
Add(h) == /\ pc[h] = "add"
          /\ count' = count + 1
          /\ goto(h, IF count = NCpu - 1 THEN "reset" ELSE "spin")
          /\ UNCHANGED <<sense, threadsense, arrivals, gen>>

\* Mutation of Reset: count is not reset.
ResetForgotten(h) ==
  /\ pc[h] = "reset"
  /\ goto(h, "release")
  /\ UNCHANGED <<count, sense, threadsense, arrivals, gen>>

Reset(h) == /\ pc[h] = "reset"
            /\ count' = 0
            /\ goto(h, "release")
            /\ UNCHANGED <<sense, threadsense, arrivals, gen>>

Release(h) == /\ pc[h] = "release"
              /\ sense' = threadsense[h]
              /\ gen' = gen + 1
              /\ goto(h, "out")
              /\ UNCHANGED <<count, threadsense, arrivals>>

\* while (sense != threadsense) ends.
SpinExit(h) == /\ pc[h] = "spin"
               /\ sense = threadsense[h]
               /\ goto(h, "out")
               /\ UNCHANGED <<count, sense, threadsense, arrivals, gen>>

\* Another turn of the loop.
SpinAgain(h) == /\ pc[h] = "spin"
                /\ sense # threadsense[h]
                /\ UNCHANGED vars

Barrier(h) == \/ Flip(h) \/ Add(h) \/ Reset(h) \/ Release(h)
              \/ SpinExit(h) \/ SpinAgain(h)

\* finalize() of the multiprocessor test ends in while (1).
Finished == /\ \A h \in Hart : pc[h] = "out" /\ arrivals[h] = MaxRounds
            /\ UNCHANGED vars

Next == (\E h \in Hart : Barrier(h)) \/ Finished

Spec == Init /\ [][Next]_vars

\* No hart stops, and every hart keeps coming to the barrier.
FairSpec == Spec /\ \A h \in Hart : WF_vars(Barrier(h))

-----------------------------------------------------------------------------
(* Properties.                                                             *)

TypeOK == /\ count \in 0..NCpu
          /\ sense \in {0, 1}
          /\ threadsense \in [Hart -> {0, 1}]
          /\ pc \in [Hart -> {"out", "add", "reset", "release", "spin"}]
          /\ arrivals \in [Hart -> Nat]
          /\ gen \in Nat

\* While the last arrival closes a barrier, every other hart waits in it: nobody
\* can touch count between the reset and the release.
CloserIsAlone ==
  \A h \in Hart : pc[h] \in {"reset", "release"} =>
    \A g \in Hart \ {h} : /\ pc[g] = "spin"
                          /\ arrivals[g] = arrivals[h]
                          /\ threadsense[g] # sense

\* Nobody leaves a barrier that somebody has not entered.
Abstract == INSTANCE BarrierSpec WITH inside <- {h \in Hart : pc[h] # "out"}
BarrierContract == Abstract!Spec
=============================================================================
