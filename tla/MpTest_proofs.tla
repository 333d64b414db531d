---------------------------- MODULE MpTest_proofs ----------------------------
(***************************************************************************)
(* The multiprocessor test keeps its promises for every finite number of   *)
(* harts and every number of additions.  What the barrier does is taken    *)
(* from RvBarrier_proofs: a hart that has not set up its thread-local      *)
(* storage yet counts there as one whose threadsense is 0.                 *)
(***************************************************************************)
EXTENDS MpTest, FiniteSetTheorems, TLAPS

Tls == [h \in Hart |-> IF step[h] = "main" THEN 0 ELSE threadsense[h]]
Bar == INSTANCE RvBarrier_proofs WITH threadsense <- Tls

Early == {"main", "wake", "lock", "print"}     \* before the loop
Adding == {"load", "store", "add"}             \* in it
Late == {"final_lock", "final_print", "end"}   \* behind the barrier

Typing ==
  /\ threadsense \in [Hart -> {0, 1}]
  /\ awake \subseteq Hart
  /\ step \in [Hart -> Early \cup Adding \cup {"barrier"} \cup Late \cup {"loop"}]
  /\ n \in [Hart -> 0..Adds] /\ loaded \in [Hart -> Nat]
  /\ sum \in Nat /\ atomicSum \in Nat
  /\ printLock \in {0, 1}

\* Where a hart is in the test says where it is with the barrier, and how many
\* additions it has made.
PlaceInv == \A h \in Hart :
  /\ step[h] \in Early \cup Adding => pc[h] = "out" /\ arrivals[h] = 0
  /\ step[h] \in Late => pc[h] = "out" /\ arrivals[h] = 1
  /\ step[h] \in Early \cup {"loop"} => n[h] = 0
  /\ step[h] \in Adding => n[h] < Adds
  /\ step[h] \in {"barrier"} \cup Late => n[h] = Adds

\* All harts run the test, or none.
LoopInv == \A g, h \in Hart : step[g] = "loop" => step[h] = "loop"

\* Whoever prints holds the lock.
PrintInv == /\ PrintExclusive
            /\ \A h \in Hart : step[h] \in Printing => printLock = 1

\* Turns of the loop, as pairs of hart and turn: those whose _atomic_add is done, and
\* those whose sum++ is.
Turns  == Hart \X (1..Adds)
Added  == {t \in Turns : t[2] <= n[t[1]]}
Stored == Added \cup {t \in Turns : t[2] = n[t[1]] + 1 /\ step[t[1]] = "add"}

\* atomic_sum has every addition; sum may have lost some, and has none twice.
SumInv == /\ atomicSum = Cardinality(Added)
          /\ sum <= Cardinality(Stored)
          /\ \A h \in Hart : loaded[h] <= Cardinality(Stored)

MInv == /\ Bar!IInv /\ Typing /\ PlaceInv /\ LoopInv /\ PrintInv /\ SumInv

-----------------------------------------------------------------------------
(* The barrier below the test.                                             *)

LEMMA BarFinite == Bar!IsFiniteSet(Hart)
  BY HartAssumption DEF IsFiniteSet, Bar!IsFiniteSet

LEMMA BarNCpu == Bar!NCpu = NCpu
  <1>1. Bar!Cardinality(Hart) = Cardinality(Hart)
    BY DEF Cardinality, Bar!Cardinality
  <1> QED
    BY <1>1 DEF NCpu, Bar!NCpu

LEMMA BarInit == Bar!Init => Bar!IInv
  BY Bar!InitIInv, BarFinite, HartAssumption, RoundsAssumption

LEMMA BarInvariant == Bar!IInv /\ [Bar!Next]_(Bar!vars) => Bar!IInv'
  BY Bar!StepIInv, BarFinite, HartAssumption, RoundsAssumption

LEMMA BarContract == Bar!IInv /\ [Bar!Next]_(Bar!vars) => [Abstract!Next]_(Abstract!vars)
  BY Bar!StepContract, BarFinite, HartAssumption, RoundsAssumption
     DEF Abstract!Next, Bar!Abstract!Next, Abstract!vars, Bar!Abstract!vars,
         Abstract!Enter, Bar!Abstract!Enter, Abstract!Leave, Bar!Abstract!Leave

\* A step of the barrier behind init_tls is one of the barrier.
LEMMA BarrierMaps ==
  ASSUME Typing, NEW h \in Hart, Barrier(h), step[h] # "main", UNCHANGED step
  PROVE  Bar!Barrier(h)
  <1> DEFINE ts == [g \in Hart |-> IF step[g] = "main" THEN 0 ELSE threadsense[g]]
  <1>0. Tls = ts /\ Tls' = [g \in Hart |-> IF step[g] = "main" THEN 0 ELSE threadsense'[g]]
    BY DEF Tls
  <1>1. CASE Flip(h)
    <2>1. Tls' = [Tls EXCEPT ![h] = 1 - @]
      BY <1>0, <1>1 DEF Flip, Typing
    <2> QED
      BY <1>1, <2>1 DEF Flip, goto, Bar!Barrier, Bar!Flip, Bar!goto
  <1>2. CASE UNCHANGED threadsense /\ ~Flip(h)
    <2>1. Tls' = Tls /\ Tls[h] = threadsense[h]
      BY <1>0, <1>2 DEF Typing
    <2> QED
      BY <1>2, <2>1, BarNCpu
         DEF Barrier, Add, Reset, Release, SpinExit, SpinAgain, goto, vars,
             Bar!Barrier, Bar!Add, Bar!Reset, Bar!Release, Bar!SpinExit, Bar!SpinAgain,
             Bar!goto, Bar!vars
  <1> QED
    BY <1>1, <1>2 DEF Barrier, Add, Reset, Release, SpinExit, SpinAgain, vars

\* Each step of the test is one of the barrier, or leaves it alone.
LEMMA StepMaps == Typing /\ [MpNext]_allvars => [Bar!Next]_(Bar!vars)
  <1> SUFFICES ASSUME Typing, [MpNext]_allvars
               PROVE  Bar!Next \/ UNCHANGED Bar!vars
    OBVIOUS
  <1>1. ASSUME NEW h \in Hart, Cross(h) \/ Loop(h)
        PROVE  Bar!Next
    BY <1>1, BarrierMaps DEF Cross, Loop, own, Bar!Next
  <1>2. ASSUME NEW h \in Hart, InitTls(h)
        PROVE  UNCHANGED Bar!vars
    <2>1. Tls' = Tls
      BY <1>2 DEF InitTls, From, Tls, Typing
    <2> QED
      BY <1>2, <2>1 DEF InitTls, Bar!vars
  <1>3. ASSUME UNCHANGED vars, NEW h \in Hart, NEW a, NEW b, From(h, a, b),
               a # "main", b # "main"
        PROVE  UNCHANGED Bar!vars
    <2>1. Tls' = Tls
      BY <1>3 DEF From, Tls, Typing, vars
    <2> QED
      BY <1>3, <2>1 DEF vars, Bar!vars
  <1>4. CASE UNCHANGED allvars
    BY <1>4 DEF allvars, own, vars, Bar!vars, Tls
  <1>5. CASE AllEnded
    BY <1>4, <1>5 DEF AllEnded
  <1>6. CASE Finished /\ (\A h \in Hart : step[h] = "loop") /\ UNCHANGED own
    BY <1>4, <1>6 DEF Finished, allvars
  <1>7. ASSUME NEW h \in Hart,
               \/ Wakeup(h) \/ Lock(h, "lock", "print") \/ Unlock(h, "print", "load")
               \/ LoadSum(h) \/ StoreSum(h) \/ AtomicAdd(h) \/ Crossed(h)
               \/ Lock(h, "final_lock", "final_print") \/ Unlock(h, "final_print", "end")
        PROVE  UNCHANGED Bar!vars
    <2>1. UNCHANGED vars
      BY <1>7 DEF Wakeup, Lock, Unlock, LoadSum, StoreSum, AtomicAdd, Crossed
    <2>2. \E a, b : From(h, a, b) /\ a # "main" /\ b # "main"
      BY <1>7 DEF Wakeup, Lock, Unlock, LoadSum, StoreSum, AtomicAdd, Crossed
    <2> QED
      BY <1>3, <2>1, <2>2
  <1> QED
    BY <1>1, <1>2, <1>4, <1>5, <1>6, <1>7 DEF MpNext, HartStep

-----------------------------------------------------------------------------
(* Counting additions.                                                     *)

LEMMA NCpuType == NCpu \in Nat \ {0}
  BY HartAssumption, FS_CardinalityType, FS_EmptySet DEF NCpu

LEMMA TurnsCount == /\ IsFiniteSet(Turns)
                    /\ Cardinality(Turns) = Adds * NCpu
  <1>1. Adds \in Nat
    BY MpAssumption
  <1>2. IsFiniteSet(1..Adds) /\ Cardinality(1..Adds) = Adds
    BY <1>1, FS_Interval
  <1>3. IsFiniteSet(Turns) /\ Cardinality(Turns) = NCpu * Adds
    BY <1>2, HartAssumption, FS_Product DEF Turns, NCpu
  <1> QED
    BY <1>1, <1>3, NCpuType

\* A set of turns has at most Adds * NCpu members; one more turn is one more member.
LEMMA TurnSets ==
  ASSUME NEW S \in SUBSET Turns
  PROVE  /\ IsFiniteSet(S)
         /\ Cardinality(S) \in 0..(Adds * NCpu)
         /\ \A t : t \notin S => Cardinality(S \cup {t}) = Cardinality(S) + 1
         /\ \A T \in SUBSET S : Cardinality(T) <= Cardinality(S)
  <1>1. IsFiniteSet(S) /\ Cardinality(S) <= Cardinality(Turns)
    BY TurnsCount, FS_Subset
  <1>2. Cardinality(S) \in Nat /\ Adds * NCpu \in Nat
    BY <1>1, FS_CardinalityType, MpAssumption, NCpuType
  <1>3. \A t : t \notin S => Cardinality(S \cup {t}) = Cardinality(S) + 1
    BY <1>1, FS_AddElement
  <1>4. \A T \in SUBSET S : Cardinality(T) <= Cardinality(S)
    BY <1>1, FS_Subset
  <1> QED
    BY <1>1, <1>2, <1>3, <1>4, TurnsCount

LEMMA AddedSets == Added \in SUBSET Stored /\ Stored \in SUBSET Turns
  BY DEF Added, Stored

-----------------------------------------------------------------------------
(* The invariant.                                                          *)

LEMMA InitMInv == MpInit => MInv
  <1> SUFFICES ASSUME MpInit
               PROVE  MInv
    OBVIOUS
  <1>1. Tls = [h \in Hart |-> 0]
    BY DEF Tls, MpInit
  <1>2. Bar!IInv
    BY <1>1, BarInit DEF MpInit, Bar!Init
  <1>3. Typing
    BY MpAssumption DEF MpInit, Typing, Early
  <1>4. PlaceInv /\ LoopInv /\ PrintInv
    BY DEF MpInit, PlaceInv, LoopInv, PrintInv, PrintExclusive, Printing, Early, Adding, Late
  <1>5. Added = {} /\ Stored = {}
    BY MpAssumption DEF MpInit, Added, Stored, Turns
  <1>6. SumInv
    BY <1>5, FS_EmptySet DEF MpInit, SumInv
  <1> QED
    BY <1>2, <1>3, <1>4, <1>6 DEF MInv

Local == Typing /\ PlaceInv /\ LoopInv /\ PrintInv

\* Only AtomicAdd and StoreSum touch the sets of turns.
LEMMA SumsStay ==
  ASSUME SumInv, UNCHANGED <<n, loaded, sum, atomicSum>>,
         \A h \in Hart : step'[h] = "add" <=> step[h] = "add"
  PROVE  SumInv'
  <1>1. Added' = Added
    BY DEF Added, Turns
  <1>2. Stored' = Stored
    BY <1>1 DEF Stored, Turns
  <1> QED
    BY <1>1, <1>2 DEF SumInv

LEMMA InitTlsStep ==
  ASSUME Local, SumInv, NEW h \in Hart, InitTls(h)
  PROVE  Local' /\ SumInv'
  <1> USE DEF InitTls, From, Local, Typing, Early, Adding, Late
  <1>1. Typing'
    OBVIOUS
  <1>2. PlaceInv' /\ LoopInv'
    BY DEF PlaceInv, LoopInv
  <1>3. PrintInv'
    BY DEF PrintInv, PrintExclusive, Printing
  <1>4. SumInv'
    BY SumsStay
  <1> QED
    BY <1>1, <1>2, <1>3, <1>4

LEMMA WakeupStep ==
  ASSUME Local, SumInv, NEW h \in Hart, Wakeup(h)
  PROVE  Local' /\ SumInv'
  <1> USE DEF Wakeup, From, Local, Typing, Early, Adding, Late
  <1>1. Typing'
    BY DEF vars
  <1>2. PlaceInv' /\ LoopInv'
    BY DEF PlaceInv, LoopInv, vars
  <1>3. PrintInv'
    BY DEF PrintInv, PrintExclusive, Printing
  <1>4. SumInv'
    BY SumsStay
  <1> QED
    BY <1>1, <1>2, <1>3, <1>4

LEMMA LockStep ==
  ASSUME Local, SumInv, NEW h \in Hart,
         Lock(h, "lock", "print") \/ Lock(h, "final_lock", "final_print")
  PROVE  Local' /\ SumInv'
  <1> USE DEF Lock, From, Local, Typing, Early, Adding, Late
  <1>1. Typing'
    BY DEF vars
  <1>2. PlaceInv' /\ LoopInv'
    BY DEF PlaceInv, LoopInv, vars
  <1>3. PrintInv'
    BY DEF PrintInv, PrintExclusive, Printing
  <1>4. SumInv'
    BY SumsStay
  <1> QED
    BY <1>1, <1>2, <1>3, <1>4

LEMMA UnlockStep ==
  ASSUME Local, SumInv, NEW h \in Hart,
         Unlock(h, "print", "load") \/ Unlock(h, "final_print", "end")
  PROVE  Local' /\ SumInv'
  <1> USE DEF Unlock, From, Local, Typing, Early, Adding, Late
  <1>1. Typing'
    BY DEF vars
  <1>2. PlaceInv' /\ LoopInv'
    BY MpAssumption DEF PlaceInv, LoopInv, vars
  <1>3. PrintInv'
    BY DEF PrintInv, PrintExclusive, Printing
  <1>4. SumInv'
    BY SumsStay
  <1> QED
    BY <1>1, <1>2, <1>3, <1>4

LEMMA CrossStep ==
  ASSUME Local, SumInv, Bar!IInv, Bar!IInv', NEW h \in Hart,
         Cross(h) \/ Loop(h)
  PROVE  Local' /\ SumInv'
  <1>1. step[h] \in {"barrier", "loop"} /\ UNCHANGED own /\ Barrier(h)
    BY DEF Cross, Loop
  <1>2. \A g \in Hart \ {h} : pc'[g] = pc[g] /\ arrivals'[g] = arrivals[g]
    BY <1>1 DEF Bar!IInv, Bar!TypeOK, Barrier, Flip, Add, Reset, Release, SpinExit, SpinAgain,
                goto, vars
  <1>3. threadsense' \in [Hart -> {0, 1}]
    BY <1>1 DEF Local, Typing, Barrier, Flip, Add, Reset, Release, SpinExit, SpinAgain, vars
  <1>4. Typing'
    BY <1>1, <1>3 DEF Local, Typing, own
  <1>5. PlaceInv'
    BY <1>1, <1>2 DEF Local, PlaceInv, own, Early, Adding, Late
  <1>6. LoopInv' /\ PrintInv'
    BY <1>1 DEF Local, LoopInv, PrintInv, PrintExclusive, own
  <1>7. SumInv'
    BY <1>1, SumsStay DEF own
  <1> QED
    BY <1>4, <1>5, <1>6, <1>7 DEF Local

LEMMA CrossedStep ==
  ASSUME Local, SumInv, NEW h \in Hart, Crossed(h)
  PROVE  Local' /\ SumInv'
  <1> USE DEF Crossed, From, Local, Typing, Early, Adding, Late
  <1>1. Typing'
    BY DEF vars
  <1>2. PlaceInv' /\ LoopInv'
    BY DEF PlaceInv, LoopInv, vars
  <1>3. PrintInv'
    BY DEF PrintInv, PrintExclusive, Printing
  <1>4. SumInv'
    BY SumsStay
  <1> QED
    BY <1>1, <1>2, <1>3, <1>4

LEMMA LoadSumStep ==
  ASSUME Local, SumInv, NEW h \in Hart, LoadSum(h)
  PROVE  Local' /\ SumInv'
  <1> USE DEF LoadSum, From, Local, Typing, Early, Adding, Late
  <1>1. Typing'
    BY DEF vars
  <1>2. PlaceInv' /\ LoopInv'
    BY DEF PlaceInv, LoopInv, vars
  <1>3. PrintInv'
    BY DEF PrintInv, PrintExclusive, Printing
  <1>4. Added' = Added
    BY DEF Added, Turns
  <1>5. Stored' = Stored
    BY <1>4 DEF Stored, Turns
  <1>6. SumInv'
    BY <1>4, <1>5 DEF SumInv
  <1> QED
    BY <1>1, <1>2, <1>3, <1>6

\* sum++ may undo what others have stored: sum grows by at most one.
LEMMA StoreSumStep ==
  ASSUME Local, SumInv, NEW h \in Hart, StoreSum(h)
  PROVE  Local' /\ SumInv'
  <1> DEFINE turn == <<h, n[h] + 1>>
  <1> USE DEF StoreSum, From, Local, Typing, Early, Adding, Late
  <1>1. Typing'
    BY DEF vars
  <1>2. PlaceInv' /\ LoopInv'
    BY DEF PlaceInv, LoopInv, vars
  <1>3. PrintInv'
    BY DEF PrintInv, PrintExclusive, Printing
  <1>4. Added' = Added
    BY DEF Added, Turns
  <1>5. turn \in Turns /\ turn \notin Stored
    BY MpAssumption DEF PlaceInv, Turns, Stored, Added
  <1>6. Stored' = Stored \cup {turn}
    <2> HIDE DEF turn
    <2>1. \A t \in Turns : /\ t[1] # h => (step'[t[1]] = "add" <=> step[t[1]] = "add")
                           /\ t[1] = h => (t[2] = n[h] + 1 <=> t = turn)
      BY DEF Turns, turn
    <2>2. step'[h] = "add" /\ step[h] # "add" /\ n' = n
      OBVIOUS
    <2> QED
      BY <1>4, <1>5, <2>1, <2>2 DEF Stored, turn
  <1>7. Cardinality(Stored') = Cardinality(Stored) + 1 /\ Cardinality(Stored) \in Nat
    BY <1>5, <1>6, AddedSets, TurnSets
  <1>8. SumInv'
    BY <1>4, <1>7 DEF SumInv
  <1> QED
    BY <1>1, <1>2, <1>3, <1>8

LEMMA AtomicAddStep ==
  ASSUME Local, SumInv, NEW h \in Hart, AtomicAdd(h)
  PROVE  Local' /\ SumInv'
  <1> DEFINE turn == <<h, n[h] + 1>>
  <1> USE DEF AtomicAdd, From, Local, Typing, Early, Adding, Late
  <1>0. n[h] \in Nat /\ n[h] < Adds /\ Adds \in Nat
    BY MpAssumption DEF PlaceInv
  <1>1. Typing'
    BY <1>0 DEF vars
  <1>2. PlaceInv' /\ LoopInv'
    BY <1>0 DEF PlaceInv, LoopInv, vars
  <1>3. PrintInv'
    BY DEF PrintInv, PrintExclusive, Printing
  <1>4. turn \in Turns /\ turn \notin Added /\ turn \in Stored
    BY <1>0 DEF Turns, Stored, Added
  <1>5. \A t \in Turns : /\ t[1] # h => n'[t[1]] = n[t[1]] /\ step'[t[1]] = step[t[1]]
                         /\ t[1] = h => (t[2] = n[h] + 1 <=> t = turn)
    BY DEF Turns
  <1>6. n'[h] = n[h] + 1 /\ step[h] = "add" /\ step'[h] # "add"
    OBVIOUS
  <1>7. Added' = Added \cup {turn}
    <2>1. \A t \in Turns : t[2] <= n'[t[1]] <=> t[2] <= n[t[1]] \/ t = turn
      BY <1>0, <1>5, <1>6 DEF Turns
    <2> QED
      BY <1>4, <2>1 DEF Added
  <1>8. Stored' = Stored
    <2>1. \A t \in Turns : (t[2] = n[t[1]] + 1 /\ step[t[1]] = "add")
              <=> (t[2] = n'[t[1]] + 1 /\ step'[t[1]] = "add") \/ t = turn
      BY <1>0, <1>5, <1>6
    <2> QED
      BY <1>4, <1>7, <2>1 DEF Stored
  <1>9. Cardinality(Added') = Cardinality(Added) + 1
    BY <1>4, <1>7, AddedSets, TurnSets
  <1>10. SumInv'
    BY <1>8, <1>9 DEF SumInv
  <1> QED
    BY <1>1, <1>2, <1>3, <1>10

LEMMA StepMInv == MInv /\ [MpNext]_allvars => MInv'
  <1> SUFFICES ASSUME MInv, [MpNext]_allvars
               PROVE  MInv'
    OBVIOUS
  <1>1. Bar!IInv'
    BY StepMaps, BarInvariant DEF MInv
  <1>2. Local /\ SumInv /\ Bar!IInv
    BY DEF MInv, Local
  <1>3. ASSUME NEW h \in Hart, HartStep(h)
        PROVE  Local' /\ SumInv'
    BY <1>1, <1>2, <1>3, InitTlsStep, WakeupStep, LockStep, UnlockStep, LoadSumStep,
       StoreSumStep, AtomicAddStep, CrossStep, CrossedStep DEF HartStep
  <1>4. ASSUME UNCHANGED allvars
        PROVE  Local' /\ SumInv'
    <2>1. Local'
      BY <1>2, <1>4 DEF allvars, own, vars, Local, Typing, PlaceInv, LoopInv, PrintInv,
                        PrintExclusive
    <2>2. SumInv'
      BY <1>2, <1>4, SumsStay DEF allvars, own
    <2> QED
      BY <2>1, <2>2
  <1>5. Local' /\ SumInv'
    BY <1>3, <1>4 DEF MpNext, AllEnded, Finished, allvars
  <1> QED
    BY <1>1, <1>5 DEF MInv, Local

THEOREM MpInvariance == MpSpec => []MInv
  BY InitMInv, StepMInv, PTL DEF MpSpec

-----------------------------------------------------------------------------
(* What the test promises.                                                 *)

\* Each shared variable of the test keeps its type; neither sum passes Adds * NCpu.
THEOREM MpTypeCorrect == MpSpec => []MpTypeOK
  <1>1. ASSUME MInv
        PROVE  MpTypeOK
    <2>1. Cardinality(Added) \in 0..(Adds * NCpu) /\ Cardinality(Stored) \in 0..(Adds * NCpu)
      BY AddedSets, TurnSets
    <2>2. Adds * NCpu \in Nat
      BY MpAssumption, NCpuType
    <2>3. loaded \in [Hart -> 0..(Adds * NCpu)] /\ sum \in 0..(Adds * NCpu)
      BY <1>1, <2>1, <2>2 DEF MInv, Typing, SumInv
    <2>4. TypeOK
      BY <1>1, BarNCpu DEF MInv, Typing, TypeOK, Bar!IInv, Bar!TypeOK
    <2> QED
      BY <1>1, <2>1, <2>3, <2>4
         DEF MInv, Typing, SumInv, MpTypeOK, Printing, Early, Adding, Late
  <1> QED
    BY <1>1, MpInvariance, PTL

\* print_lock keeps the messages of the harts apart.
THEOREM PrintsExclude == MpSpec => []PrintExclusive
  <1>1. MInv => PrintExclusive
    BY DEF MInv, PrintInv
  <1> QED
    BY <1>1, MpInvariance, PTL

\* Behind the barrier of finalize() all additions of all harts are in.
THEOREM SumsFinal == MpSpec => []SumsAreFinal
  <1>1. ASSUME MInv
        PROVE  SumsAreFinal
    <2> SUFFICES ASSUME NEW h \in Hart, step[h] \in Late
                 PROVE  /\ atomicSum = Adds * NCpu
                        /\ \A g \in Hart : step[g] \in {"barrier"} \cup Late
      BY DEF SumsAreFinal, Late
    <2>1. gen = 1
      BY <1>1 DEF MInv, PlaceInv, Bar!IInv, Bar!PcInv
    <2>2. \A g \in Hart : arrivals[g] # 0
      BY <1>1, <2>1 DEF MInv, Bar!IInv, Bar!TypeOK, Bar!PcInv
    <2>3. \A g \in Hart : step[g] \in {"barrier"} \cup Late
      BY <1>1, <2>2 DEF MInv, Typing, PlaceInv, LoopInv, Late
    <2>4. Added = Turns
      BY <1>1, <2>3 DEF MInv, PlaceInv, Added, Turns
    <2> QED
      BY <1>1, <2>3, <2>4, TurnsCount DEF MInv, SumInv
  <1> QED
    BY <1>1, MpInvariance, PTL

\* The hart that closes the barrier of finalize() is the only one that runs.
THEOREM MpCloserRunsAlone == MpSpec => []CloserIsAlone
  <1>1. ASSUME MInv, Bar!CloserIsAlone
        PROVE  CloserIsAlone
    <2>1. \A h \in Hart : pc[h] # "out" => Tls[h] = threadsense[h]
      BY <1>1 DEF MInv, PlaceInv, Early, Tls
    <2> QED
      BY <1>1, <2>1 DEF CloserIsAlone, Bar!CloserIsAlone
  <1>2. MpSpec => Bar!Spec
    <2>1. MpInit => Bar!Init
      BY DEF MpInit, Bar!Init, Tls
    <2>2. MInv => Typing
      BY DEF MInv
    <2> QED
      BY <2>1, <2>2, StepMaps, MpInvariance, PTL DEF MpSpec, Bar!Spec
  <1>3. Bar!Spec => []Bar!CloserIsAlone
    BY Bar!CloserRunsAlone, BarFinite, HartAssumption, RoundsAssumption
  <1> QED
    BY <1>1, <1>2, <1>3, MpInvariance, PTL

\* The barrier keeps its contract below the test.
THEOREM MpBarrierContract == MpSpec => BarrierContract
  <1>1. MpInit => Abstract!Init
    BY DEF MpInit, Abstract!Init
  <1>2. MInv /\ [MpNext]_allvars => [Abstract!Next]_(Abstract!vars)
    BY StepMaps, BarContract DEF MInv
  <1>3. MpSpec => Abstract!Init /\ [][Abstract!Next]_(Abstract!vars)
    BY <1>1, <1>2, MpInvariance, PTL DEF MpSpec
  <1> QED
    BY <1>3 DEF BarrierContract, Abstract!Spec
=============================================================================
