-------------------------- MODULE RvBarrier_proofs --------------------------
(***************************************************************************)
(* The barrier keeps its contract for every finite number of harts and     *)
(* every number of rounds.                                                 *)
(***************************************************************************)
EXTENDS RvBarrier, FiniteSetTheorems, TLAPS

\* The harts whose arrival is in count, or was when the closer took over.
Counted == {h \in Hart : pc[h] \in {"spin", "reset", "release"} /\ arrivals[h] = gen + 1}

Closing == {h \in Hart : pc[h] \in {"reset", "release"}}

\* Where a hart is and how many barriers it has entered go together; the two
\* senses are parities of those numbers.
PcInv == \A h \in Hart :
  /\ pc[h] = "out" => arrivals[h] = gen
  /\ pc[h] \in {"add", "reset", "release"} => arrivals[h] = gen + 1
  /\ pc[h] = "spin" => arrivals[h] \in {gen, gen + 1}
  /\ threadsense[h] = arrivals[h] % 2

\* count counts; the hart that closes the barrier found everybody counted.
CountInv ==
  /\ \A h \in Hart : pc[h] = "release" => count = 0
  /\ (\A h \in Hart : pc[h] # "release") => count = Cardinality(Counted)
  /\ Closing # {} => Counted = Hart
  /\ \A g, h \in Closing : g = h
  /\ Closing = {} => Cardinality(Counted) < NCpu

IInv == TypeOK /\ sense = gen % 2 /\ PcInv /\ CountInv

-----------------------------------------------------------------------------
(* Counting.                                                               *)

LEMMA NCpuType == NCpu \in Nat \ {0}
  BY HartAssumption, FS_CardinalityType, FS_EmptySet DEF NCpu

\* A set of harts is no larger than all of them, and all of them if as large.
LEMMA SubsetCount ==
  ASSUME NEW S \in SUBSET Hart
  PROVE  /\ IsFiniteSet(S)
         /\ Cardinality(S) \in Nat
         /\ Cardinality(S) <= NCpu
         /\ Cardinality(S) = NCpu => S = Hart
  BY HartAssumption, FS_Subset, FS_CardinalityType DEF NCpu

LEMMA Parity == \A n \in Nat : /\ n % 2 \in {0, 1}
                              /\ (n + 1) % 2 = 1 - (n % 2)
  OBVIOUS

-----------------------------------------------------------------------------

LEMMA InitIInv == Init => IInv
  <1> SUFFICES ASSUME Init
               PROVE  IInv
    OBVIOUS
  <1>1. Counted = {} /\ Closing = {}
    BY DEF Init, Counted, Closing
  <1>2. Cardinality(Counted) = 0
    BY <1>1, FS_EmptySet
  <1> QED
    BY <1>1, <1>2, NCpuType DEF Init, IInv, TypeOK, PcInv, CountInv

LEMMA StepIInv == IInv /\ [Next]_vars => IInv'
  <1> SUFFICES ASSUME IInv, [Next]_vars
               PROVE  IInv'
    OBVIOUS
  <1> USE DEF IInv, TypeOK, PcInv, goto
  <1>0. Counted \in SUBSET Hart /\ Closing \in SUBSET Hart
    BY DEF Counted, Closing
  <1>1. ASSUME NEW h \in Hart, Flip(h)
        PROVE  IInv'
    <2>1. Counted' = Counted
      BY <1>1 DEF Flip, Counted
    <2>2. Closing' = Closing
      BY <1>1 DEF Flip, Closing
    <2>3. arrivals[h] = gen /\ arrivals'[h] = gen + 1 /\ pc'[h] = "add"
      BY <1>1 DEF Flip
    <2>4. threadsense'[h] = arrivals'[h] % 2
      <3>1. threadsense'[h] = 1 - threadsense[h]
        BY <1>1 DEF Flip
      <3>2. threadsense[h] = gen % 2
        BY <2>3
      <3>3. arrivals'[h] % 2 = 1 - (gen % 2)
        BY <2>3, Parity
      <3> QED
        BY <3>1, <3>2, <3>3
    <2>5. TypeOK' /\ (sense = gen % 2)'
      BY <1>1 DEF Flip
    <2>6. PcInv'
      BY <1>1, <2>3, <2>4 DEF Flip
    <2>7. CountInv'
      <3>1. \A g \in Hart : pc'[g] = "release" <=> pc[g] = "release"
        BY <1>1 DEF Flip
      <3>2. count' = count
        BY <1>1 DEF Flip
      <3> QED
        BY <2>1, <2>2, <3>1, <3>2 DEF CountInv
    <2> QED
      BY <2>5, <2>6, <2>7
  <1>2. ASSUME NEW h \in Hart, Add(h)
        PROVE  IInv'
    <2>1. h \notin Counted /\ Closing = {}
      BY <1>2 DEF Add, Counted, CountInv
    <2>2. count = Cardinality(Counted) /\ Cardinality(Counted) < NCpu
      BY <2>1 DEF Closing, CountInv
    <2>3. Counted' = Counted \cup {h}
      BY <1>2 DEF Add, Counted
    <2>4. Cardinality(Counted') = count + 1
      BY <1>0, <2>1, <2>2, <2>3, SubsetCount, FS_AddElement
    <2>5. Counted' \in SUBSET Hart
      BY <1>0, <2>3
    <2>6. TypeOK'
      BY <1>2, <2>2, NCpuType DEF Add
    <2>7. (sense = gen % 2)' /\ PcInv'
      BY <1>2 DEF Add
    <2>8. CASE count = NCpu - 1
      <3>1. Counted' = Hart
        BY <2>4, <2>5, <2>8, SubsetCount, NCpuType
      <3>2. Closing' = {h}
        BY <1>2, <2>1, <2>8 DEF Add, Closing
      <3>3. \A g \in Hart : pc'[g] # "release"
        BY <1>2, <2>1, <2>8 DEF Add, Closing
      <3>4. CountInv'
        BY <1>2, <2>4, <3>1, <3>2, <3>3 DEF Add, CountInv
      <3> QED
        BY <2>6, <2>7, <3>4
    <2>9. CASE count # NCpu - 1
      <3>1. Closing' = {}
        BY <1>2, <2>1, <2>9 DEF Add, Closing
      <3>2. \A g \in Hart : pc'[g] # "release"
        BY <3>1 DEF Closing
      <3>3. count + 1 < NCpu
        BY <2>2, <2>9, NCpuType
      <3>4. CountInv'
        BY <1>2, <2>4, <3>1, <3>2, <3>3 DEF Add, CountInv
      <3> QED
        BY <2>6, <2>7, <3>4
    <2> QED
      BY <2>8, <2>9
  <1>3. ASSUME NEW h \in Hart, Reset(h)
        PROVE  IInv'
    <2>1. Counted' = Counted /\ Closing' = Closing
      BY <1>3 DEF Reset, Counted, Closing
    <2>2. h \in Closing
      BY <1>3 DEF Reset, Closing
    <2>3. TypeOK' /\ (sense = gen % 2)' /\ PcInv'
      BY <1>3, NCpuType DEF Reset
    <2>4. CountInv'
      BY <1>3, <2>1, <2>2 DEF Reset, CountInv
    <2> QED
      BY <2>3, <2>4
  <1>4. ASSUME NEW h \in Hart, Release(h)
        PROVE  IInv'
    <2>1. h \in Closing
      BY <1>4 DEF Release, Closing
    <2>2. Counted = Hart /\ Closing = {h} /\ count = 0
      BY <1>4, <2>1 DEF Release, CountInv
    <2>3. \A g \in Hart : arrivals[g] = gen + 1 /\ (g # h => pc[g] = "spin")
      BY <2>2 DEF Counted, Closing
    <2>4. Counted' = {} /\ Closing' = {}
      BY <1>4, <2>3 DEF Release, Counted, Closing
    <2>5. Cardinality(Counted') = 0
      BY <2>4, FS_EmptySet
    <2>6. TypeOK' /\ (sense = gen % 2)' /\ PcInv'
      BY <1>4, <2>3 DEF Release
    <2>7. CountInv'
      BY <1>4, <2>2, <2>4, <2>5, NCpuType DEF Release, CountInv
    <2> QED
      BY <2>6, <2>7
  <1>5. ASSUME NEW h \in Hart, SpinExit(h)
        PROVE  IInv'
    <2>1. arrivals[h] = gen
      BY <1>5, Parity DEF SpinExit
    <2>2. Counted' = Counted
      BY <1>5, <2>1 DEF SpinExit, Counted
    <2>3. Closing' = Closing
      BY <1>5 DEF SpinExit, Closing
    <2>4. TypeOK' /\ (sense = gen % 2)' /\ PcInv'
      BY <1>5, <2>1 DEF SpinExit
    <2>5. CountInv'
      BY <1>5, <2>2, <2>3 DEF SpinExit, CountInv
    <2> QED
      BY <2>4, <2>5
  <1>6. CASE UNCHANGED vars
    BY <1>6 DEF vars, CountInv, Counted, Closing
  <1> QED
    BY <1>1, <1>2, <1>3, <1>4, <1>5, <1>6 DEF Next, Barrier, SpinAgain, Finished

THEOREM Invariance == Spec => []IInv
  BY InitIInv, StepIInv, PTL DEF Spec

\* count never exceeds the number of harts, and the other types.
THEOREM TypeCorrect == Spec => []TypeOK
  <1>1. IInv => TypeOK
    BY DEF IInv
  <1> QED
    BY <1>1, Invariance, PTL

\* The hart between reset and release is the only one that runs.
THEOREM CloserRunsAlone == Spec => []CloserIsAlone
  <1>1. ASSUME IInv
        PROVE  CloserIsAlone
    <2> SUFFICES ASSUME NEW h \in Hart, pc[h] \in {"reset", "release"},
                        NEW g \in Hart \ {h}
                 PROVE  /\ pc[g] = "spin"
                        /\ arrivals[g] = arrivals[h]
                        /\ threadsense[g] # sense
      BY DEF CloserIsAlone
    <2>1. h \in Closing /\ Counted = Hart
      BY <1>1 DEF Closing, IInv, CountInv
    <2>2. pc[g] = "spin" /\ arrivals[g] = gen + 1
      BY <1>1, <2>1 DEF Counted, Closing, IInv, CountInv
    <2>3. arrivals[h] = gen + 1
      BY <2>1 DEF Counted
    <2>4. threadsense[g] = (gen + 1) % 2 /\ sense = gen % 2 /\ gen \in Nat
      BY <1>1, <2>2 DEF IInv, PcInv, TypeOK
    <2> QED
      BY <2>2, <2>3, <2>4, Parity
  <1> QED
    BY <1>1, Invariance, PTL

\* A hart that still has to wait waits for another one that has not come to this barrier, or
\* that is on its way to count or to release it: the harts never all wait for each other.
SomebodyComes == \A h \in Hart : pc[h] = "spin" /\ sense # threadsense[h] =>
  \E g \in Hart : arrivals[g] < arrivals[h] \/ pc[g] \in {"add", "reset", "release"}

\* The barrier has no deadlock.
THEOREM NotAllWait == Spec => []SomebodyComes
  <1>1. ASSUME IInv, NEW h \in Hart, pc[h] = "spin", sense # threadsense[h]
        PROVE  \E g \in Hart : arrivals[g] < arrivals[h] \/ pc[g] \in {"add", "reset", "release"}
    <2>1. arrivals[h] = gen + 1 /\ gen \in Nat
      BY <1>1 DEF IInv, PcInv, TypeOK
    <2>2. CASE Closing = {}
      <3>1. Counted # Hart
        BY <1>1, <2>2, NCpuType DEF IInv, CountInv, NCpu
      <3>2. PICK g \in Hart : g \notin Counted
        BY <3>1 DEF Counted
      <3>3. pc[g] \in {"out", "add", "spin"} /\ (pc[g] = "spin" => arrivals[g] # gen + 1)
        BY <1>1, <2>2, <3>2 DEF Counted, Closing, IInv, TypeOK
      <3>4. pc[g] # "add" => arrivals[g] = gen
        BY <1>1, <3>3 DEF IInv, PcInv
      <3> QED
        BY <2>1, <3>3, <3>4
    <2>3. CASE Closing # {}
      BY <2>3 DEF Closing
    <2> QED
      BY <2>2, <2>3
  <1>2. IInv => SomebodyComes
    BY <1>1 DEF SomebodyComes
  <1> QED
    BY <1>2, Invariance, PTL

-----------------------------------------------------------------------------
(* Refinement: entering flips, leaving is the release or the end of the    *)
(* spin; everything else is internal.                                      *)

LEMMA InitContract == Init => Abstract!Init
  BY DEF Init, Abstract!Init

LEMMA StepContract == IInv /\ [Next]_vars => [Abstract!Next]_(Abstract!vars)
  <1> DEFINE in == {h \in Hart : pc[h] # "out"}
  <1> SUFFICES ASSUME IInv, [Next]_vars
               PROVE  Abstract!Next \/ UNCHANGED <<arrivals, in>>
    BY DEF Abstract!vars
  <1> USE DEF IInv, TypeOK, goto
  <1>1. ASSUME NEW h \in Hart, Flip(h)
        PROVE  Abstract!Enter(h)
    BY <1>1 DEF Flip, Abstract!Enter
  <1>2. ASSUME NEW h \in Hart, Add(h)
        PROVE  UNCHANGED <<arrivals, in>>
    BY <1>2 DEF Add
  <1>3. ASSUME NEW h \in Hart, Reset(h)
        PROVE  UNCHANGED <<arrivals, in>>
    BY <1>3 DEF Reset
  <1>4. ASSUME NEW h \in Hart, Release(h)
        PROVE  Abstract!Leave(h)
    <2>1. h \in Closing /\ Counted = Hart
      BY <1>4 DEF Release, Closing, CountInv
    <2>2. \A g \in Hart : arrivals[g] >= arrivals[h]
      BY <2>1 DEF Counted
    <2> QED
      BY <1>4, <2>2 DEF Release, Abstract!Leave
  <1>5. ASSUME NEW h \in Hart, SpinExit(h)
        PROVE  Abstract!Leave(h)
    <2>1. arrivals[h] = gen
      BY <1>5, Parity DEF SpinExit, PcInv
    <2>2. \A g \in Hart : arrivals[g] >= arrivals[h]
      BY <2>1 DEF PcInv
    <2> QED
      BY <1>5, <2>2 DEF SpinExit, Abstract!Leave
  <1>6. CASE UNCHANGED vars
    BY <1>6 DEF vars
  <1> QED
    BY <1>1, <1>2, <1>3, <1>4, <1>5, <1>6 DEF Next, Barrier, SpinAgain, Finished, Abstract!Next

\* No hart leaves a barrier before every hart has entered it.
THEOREM Implements == Spec => BarrierContract
  <1>1. Spec => Abstract!Init /\ [][Abstract!Next]_(Abstract!vars)
    BY InitContract, StepContract, Invariance, PTL DEF Spec
  <1> QED
    BY <1>1 DEF BarrierContract, Abstract!Spec
=============================================================================
