------------------------------- MODULE MpTest -------------------------------
(***************************************************************************)
(* The multiprocessor test of amtest (mp.c) on top of RvBarrier: one hart  *)
(* boots and wakes the others, each sets up its thread-local storage,      *)
(* prints under a lock made of _atomic_xchg, adds to two shared sums, one  *)
(* of them with _atomic_add, and prints them behind a barrier.             *)
(*                                                                         *)
(* Instead of the test any other program may run whose harts, all awake,   *)
(* do nothing but go through barriers.                                     *)
(***************************************************************************)
EXTENDS RvBarrier

CONSTANTS BootHart,    \* the hart that runs before _mpe_wakeup
          Adds         \* turns of the loop in mp_print (100 in the code)

ASSUME MpAssumption == BootHart \in Hart /\ Adds \in Nat \ {0} /\ MaxRounds > 0

VARIABLES awake,             \* harts that _mpe_wakeup has released
          step,              \* per hart, where in the test, or "loop"
          n,                 \* per hart: the loop's i
          loaded,            \* per hart: sum as sum++ has read it
          sum, atomicSum,    \* the shared sums
          printLock          \* print_lock

own == <<awake, step, n, loaded, sum, atomicSum, printLock>>
allvars == <<vars, own>>

\* Before init_tls, threadsense is whatever its memory holds.
MpInit == /\ count = 0 /\ sense = 0 /\ gen = 0
          /\ pc = [h \in Hart |-> "out"]
          /\ arrivals = [h \in Hart |-> 0]
          /\ \/ /\ step = [h \in Hart |-> "main"] /\ awake = {BootHart}
                /\ threadsense \in [Hart -> {0, 1}]
             \/ /\ step = [h \in Hart |-> "loop"] /\ awake = Hart
                /\ threadsense = [h \in Hart |-> 0]
          /\ n = [h \in Hart |-> 0] /\ loaded = [h \in Hart |-> 0]
          /\ sum = 0 /\ atomicSum = 0 /\ printLock = 0

From(h, a, b) == step[h] = a /\ step' = [step EXCEPT ![h] = b]

-----------------------------------------------------------------------------
(* main() up to mp_print: every hart that is awake runs it.                *)

\* Mutation of InitTls: thread-local storage keeps what its memory held.
InitTlsForgotten(h) ==
  /\ h \in awake /\ From(h, "main", "wake")
  /\ UNCHANGED <<vars, awake, n, loaded, sum, atomicSum, printLock>>

\* PRE_MPE, then _mpe_init: init_tls gives the hart a threadsense of its own.
InitTls(h) == /\ h \in awake /\ From(h, "main", "wake")
              /\ threadsense' = [threadsense EXCEPT ![h] = 0]
              /\ UNCHANGED <<count, sense, pc, arrivals, gen, awake, n, loaded, sum, atomicSum, printLock>>

\* _mpe_wakeup: every hart writes the release register.
Wakeup(h) == /\ From(h, "wake", "lock")
             /\ awake' = Hart
             /\ UNCHANGED <<vars, n, loaded, sum, atomicSum, printLock>>

\* Mutation of Lock: the old value is not looked at.
LockBlindly(h, a, b) ==
  /\ From(h, a, b) /\ printLock' = 1
  /\ UNCHANGED <<vars, awake, n, loaded, sum, atomicSum>>

\* while (_atomic_xchg(&print_lock, 1) == 1) ends; its other turns change nothing.
Lock(h, a, b) == /\ From(h, a, b) /\ printLock = 0
                 /\ printLock' = 1
                 /\ UNCHANGED <<vars, awake, n, loaded, sum, atomicSum>>



Unlock(h, a, b) == /\ From(h, a, b)
                   /\ printLock' = 0
                   /\ UNCHANGED <<vars, awake, n, loaded, sum, atomicSum>>

\* sum++ is a load and a store.
LoadSum(h) == /\ From(h, "load", "store")
              /\ loaded' = [loaded EXCEPT ![h] = sum]
              /\ UNCHANGED <<vars, awake, n, sum, atomicSum, printLock>>
StoreSum(h) == /\ From(h, "store", "add")
               /\ sum' = loaded[h] + 1
               /\ UNCHANGED <<vars, awake, n, loaded, atomicSum, printLock>>

\* _atomic_add(&atomic_sum, 1), and the next turn of the loop.
AtomicAdd(h) == /\ From(h, "add", IF n[h] + 1 < Adds THEN "load" ELSE "barrier")
                /\ atomicSum' = atomicSum + 1
                /\ n' = [n EXCEPT ![h] = @ + 1]
                /\ UNCHANGED <<vars, awake, loaded, sum, printLock>>

-----------------------------------------------------------------------------
(* finalize()                                                              *)

Cross(h) == /\ step[h] = "barrier"
            /\ pc[h] = "out" => arrivals[h] = 0
            /\ Barrier(h)
            /\ UNCHANGED own
Crossed(h) == /\ pc[h] = "out" /\ arrivals[h] = 1
              /\ From(h, "barrier", "final_lock")
              /\ UNCHANGED <<vars, awake, n, loaded, sum, atomicSum, printLock>>

Loop(h) == step[h] = "loop" /\ Barrier(h) /\ UNCHANGED own

HartStep(h) == \/ InitTls(h) \/ Wakeup(h)
               \/ Lock(h, "lock", "print") \/ Unlock(h, "print", "load")
               \/ LoadSum(h) \/ StoreSum(h) \/ AtomicAdd(h)
               \/ Cross(h) \/ Crossed(h)
               \/ Lock(h, "final_lock", "final_print") \/ Unlock(h, "final_print", "end")
               \/ Loop(h)

\* while (1) after the test; Finished after the other program.
AllEnded == /\ \A h \in Hart : step[h] = "end"
            /\ UNCHANGED allvars

MpNext == \/ \E h \in Hart : HartStep(h)
          \/ AllEnded
          \/ Finished /\ (\A h \in Hart : step[h] = "loop") /\ UNCHANGED own

MpSpec == MpInit /\ [][MpNext]_allvars

\* No hart stops.
MpFairSpec == MpSpec /\ \A h \in Hart : WF_allvars(HartStep(h))

-----------------------------------------------------------------------------
(* Properties.                                                             *)

Printing == {"print", "final_print"}

MpTypeOK == /\ TypeOK
            /\ awake \subseteq Hart
            /\ step \in [Hart -> Printing \cup {"main", "wake", "lock", "load", "store", "add",
                                   "barrier", "final_lock", "end", "loop"}]
            /\ n \in [Hart -> 0..Adds] /\ loaded \in [Hart -> 0..(Adds * NCpu)]
            /\ sum \in 0..(Adds * NCpu) /\ atomicSum \in 0..(Adds * NCpu)
            /\ printLock \in {0, 1}

\* The messages of two harts do not mix (mp.c:15 and :26).
PrintExclusive == \A g, h \in Hart :
  step[g] \in Printing /\ step[h] \in Printing => g = h

\* No hart prints the sums while another may still change them: behind the barrier
\* all additions of all harts are in, and none of _atomic_add's is lost.
SumsAreFinal == \A h \in Hart : step[h] \in {"final_lock", "final_print", "end"} =>
  /\ atomicSum = Adds * NCpu
  /\ \A g \in Hart : step[g] \in {"barrier", "final_lock", "final_print", "end"}

\* A hart that enters a barrier is let out again, every time, and all come to finalize's
\* while (1).
MpEnds == \A h \in Hart : /\ pc[h] = "spin" ~> pc[h] = "out"
                          /\ step[h] = "main" ~> step[h] = "end"
=============================================================================
