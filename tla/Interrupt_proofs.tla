-------------------------- MODULE Interrupt_proofs --------------------------
(***************************************************************************)
(* The interrupt path and the test on it, for every set of sources and any *)
(* number of rounds.  First RvTrap by itself, under any program; then the  *)
(* test takes only RvTrap's steps, so that RvTrap's theorems hold below    *)
(* it, and none of its checks fails.                                       *)
(***************************************************************************)
EXTENDS ExtIntrTest, TLAPS

-----------------------------------------------------------------------------
(* The inductive invariant, by topic.                                      *)

\* Boot goes through its stages in order, with every interrupt masked until the
\* machine vector and its save area are set.
BootStage ==
  /\ pc = "vectors" => mie = {} /\ mcause = "none"
  /\ pc = "init_timer" => /\ mie = {} /\ mcause = "none"
                          /\ {"stvec", "mtvec"} \subseteq vec
  /\ pc \notin {"vectors", "init_timer"} => {"stvec", "mtvec", "mscratch"} \subseteq vec
  /\ pc \notin BootPc \cup {"install"} => "tables" \in vec

\* Supervisor interrupts are enabled in the program only, so every trap returns
\* there; an illegal instruction comes from the program or a handler.
Nesting ==
  /\ sie => pc = "main"
  /\ epc = "main"
  /\ mcause = "ILL" => pc \in {"main", "custom", "ret"}

\* A timer interrupt in machine mode is one the supervisor can take too.
TimerPair ==
  /\ "MTIE" \in mie => "STIE" \in mie
  /\ mcause = "MTI" => "MTIE" \in mie

\* Nothing is enabled in the context that the program is not in.
OneContext == \A c \in {"M", "S"} : c # ctx => enable[c] = {}

\* SEIP stands for a source to claim, until the claim; after it, for the source
\* being served, and the illegal instruction that clears it is on its way.
SeipMeaning ==
  /\ "SEIP" \in mip => \/ Line(ctx)
                       \/ pc \in Clearing \cup {"complete", "reenable"}
                       \/ pc = "ret" /\ mcause = "ILL"
  /\ mcause = "MEI" => Line(ctx)
  /\ pc \in {"clear_sip", "custom"} /\ scause = "SEI" => Line(ctx)

\* IsExt masks MEIE and sets SEIP, and only a tick that is enabled takes that away.
MaskedPending ==
  (pc \notin {"vectors", "init_timer", "enable_timer", "init_eip"} /\ "MEIE" \notin mie)
    => \/ "SEIP" \in mip
       \/ "STIP" \in mip /\ "STIE" \in mie

\* What the gateway of the PLIC does with a raised source.
GatewayHolds == raised \subseteq pend \cup insvc

\* INTR_GEN bits appear beside the handler and disappear only by its own write, so
\* that the two loads agree on the claimed source unless it was raised in between.
LoadsSound ==
  /\ again => pc \in Clearing
  /\ pc \in {"read_bit", "withdraw"} => word \subseteq raised
  /\ pc \in {"read_word", "withdraw"} => bit \subseteq raised /\ bit \subseteq insvc
  /\ pc = "read_bit" /\ ~again => word \cap insvc = raised \cap insvc
  /\ pc = "read_word" /\ ~again => bit = raised \cap insvc
  /\ pc = "withdraw" /\ ~again => bit = word \cap insvc

IInv == /\ TypeOK /\ BootStage /\ Nesting /\ TimerPair /\ OneContext /\ SeipMeaning
        /\ MaskedPending /\ ClaimFinds /\ OneClaim /\ GatewayHolds /\ LoadsSound
-----------------------------------------------------------------------------

LEMMA InitIInv == Init => IInv
  <1> SUFFICES ASSUME Init
               PROVE  IInv
    OBVIOUS
  <1>1. TypeOK
    <2>1. /\ mIE \in BOOLEAN /\ sie \in BOOLEAN /\ spie \in BOOLEAN
          /\ again \in BOOLEAN /\ ready \in BOOLEAN
      BY Zenon DEF Init
    <2>2. due \in Int
      BY DEF Init
    <2>4. enable \in [{"M", "S"} -> SUBSET Src]
      BY DEF Init, NoneEnabled
    <2>3. /\ vec = {} /\ mie = {} /\ mip = {} /\ raised = {} /\ word = {} /\ bit = {}
          /\ pend = {} /\ insvc = {}
          /\ ctx \in Contexts /\ ext \in ExtHandlers
          /\ mcause = "none" /\ pc = "vectors" /\ scause = "none" /\ epc = "main"
      BY Zenon DEF Init
    <2> QED
      BY <2>1, <2>2, <2>3, <2>4, Zenon DEF TypeOK, BootPc
  <1>2. BootStage /\ Nesting /\ TimerPair
    BY DEF Init, BootStage, Nesting, TimerPair, BootPc
  <1>3. OneContext /\ SeipMeaning /\ MaskedPending /\ ClaimFinds /\ OneClaim /\ GatewayHolds
    BY DEF Init, NoneEnabled, OneContext, SeipMeaning, MaskedPending, ClaimFinds, OneClaim,
           GatewayHolds, Clearing
  <1>4. LoadsSound
    BY DEF Init, LoadsSound, Clearing
  <1> QED
    BY <1>1, <1>2, <1>3, <1>4 DEF IInv

LEMMA StepIInv == IInv /\ [Next]_vars => IInv'
  <1> SUFFICES ASSUME IInv, [Next]_vars
               PROVE  IInv'
    OBVIOUS
  <1> USE ConstAssumption DEF IInv, TypeOK, BootStage, Nesting, TimerPair, OneContext,
          SeipMeaning, MaskedPending, ClaimFinds, OneClaim, GatewayHolds, LoadsSound,
          BootPc, Clearing, HandlerPc, csrs, gen, route, plic, trap, sregs, Runs,
          Line, Claimable
  <1>1. ASSUME InitVectors
        PROVE  IInv'
    BY <1>1 DEF InitVectors
  <1>2. ASSUME InitTimer
        PROVE  IInv'
    BY <1>2 DEF InitTimer
  <1>3. ASSUME EnableTimer
        PROVE  IInv'
    BY <1>3 DEF EnableTimer
  <1>4. ASSUME InitEip
        PROVE  IInv'
    BY <1>4 DEF InitEip
  <1>5. ASSUME SetMie
        PROVE  IInv'
    BY <1>5 DEF SetMie
  <1>6. ASSUME EnterS
        PROVE  IInv'
    BY <1>6 DEF EnterS
  <1>7. ASSUME Install
        PROVE  IInv'
    BY <1>7 DEF Install
  <1>8. ASSUME NEW c \in {"MTI", "MEI"}, MTake(c)
        PROVE  IInv'
    BY <1>8 DEF MTake, MTakeable, MPending, MEnabled
  <1>9. ASSUME IsTimer
        PROVE  IInv'
    BY <1>9 DEF IsTimer
  <1>10. ASSUME IsExt
        PROVE  IInv'
    BY <1>10 DEF IsExt
  <1>11. ASSUME IsIllegal
        PROVE  IInv'
    BY <1>11 DEF IsIllegal
  <1>12. ASSUME NEW c \in {"SEI", "SSI", "STI"}, STake(c)
        PROVE  IInv'
    <2>1. pc = "main" /\ sie /\ mcause = "none" /\ insvc = {}
      BY <1>12 DEF STake, SInterrupt
    <2>2. c = "SEI" => Line(ctx)
      BY <1>12, <2>1 DEF STake, SInterrupt, STakeable, SPending
    <2>3. TypeOK' /\ BootStage' /\ Nesting' /\ TimerPair' /\ OneContext'
      BY <1>12, <2>1 DEF STake, EnterTrap
    <2>4. SeipMeaning'
      BY <1>12, <2>1, <2>2 DEF STake, EnterTrap
    <2>5. MaskedPending' /\ ClaimFinds' /\ OneClaim' /\ GatewayHolds' /\ LoadsSound'
      BY <1>12, <2>1 DEF STake, EnterTrap
    <2> QED
      BY <2>3, <2>4, <2>5
  <1>13. ASSUME ClearSip
        PROVE  IInv'
    BY <1>13 DEF ClearSip
  <1>14. ASSUME CustomDone
        PROVE  IInv'
    BY <1>14 DEF CustomDone
  <1>15. ASSUME CustomExtDone
        PROVE  IInv'
    BY <1>15 DEF CustomExtDone
  <1>16. ASSUME ExtClaim
        PROVE  IInv'
    BY <1>16 DEF ExtClaim
  <1>17. ASSUME ReadWord
        PROVE  IInv'
    BY <1>17 DEF ReadWord
  <1>32. ASSUME ReadBit
        PROVE  IInv'
    BY <1>32 DEF ReadBit
  <1>31. ASSUME ExtWithdraw
        PROVE  IInv'
    BY <1>31 DEF ExtWithdraw
  <1>18. ASSUME ExtComplete
        PROVE  IInv'
    BY <1>18 DEF ExtComplete
  <1>19. ASSUME Reenable
        PROVE  IInv'
    BY <1>19 DEF Reenable
  <1>20. ASSUME Sret
        PROVE  IInv'
    BY <1>20 DEF Sret
  <1>21. ASSUME NEW b \in BOOLEAN, IntrWrite(b)
        PROVE  IInv'
    BY <1>21 DEF IntrWrite, ProgramRuns
  <1>22. ASSUME NEW b \in {"SEIE", "SSIE"}, EnableSie(b)
        PROVE  IInv'
    BY <1>22 DEF EnableSie, ProgramRuns
  <1>23. ASSUME RaiseSoft
        PROVE  IInv'
    BY <1>23 DEF RaiseSoft, ProgramRuns
  <1>24. ASSUME NEW h \in ExtHandlers, RegisterExt(h)
        PROVE  IInv'
    BY <1>24 DEF RegisterExt, ProgramRuns
  <1>25. ASSUME enable = NoneEnabled, NEW c \in Contexts, SetContext(c)
        PROVE  IInv'
    BY <1>25 DEF SetContext, Routing, ProgramRuns, NoneEnabled
  <1>33. ASSUME ~Line(ctx), PlicInit
        PROVE  IInv'
    BY <1>33 DEF PlicInit, Routing, ProgramRuns, NoneEnabled
  <1>34. ASSUME NEW I \in SUBSET Src, PlicEnable(I)
        PROVE  IInv'
    BY <1>34 DEF PlicEnable, Routing, ProgramRuns
  <1>35. ASSUME NEW i \in Src \ pend, PlicDisable(i)
        PROVE  IInv'
    BY <1>35 DEF PlicDisable, Routing, ProgramRuns
  <1>26. ASSUME Yield
        PROVE  IInv'
    BY <1>26 DEF Yield, EnterTrap, ProgramRuns
  <1>27. ASSUME TouchMstatus
        PROVE  IInv'
    BY <1>27 DEF TouchMstatus, ProgramRuns
  <1>28. ASSUME Tick
        PROVE  IInv'
    BY <1>28 DEF Tick
  <1>29. ASSUME NEW i \in Src, Raise(i)
        PROVE  IInv'
    <2>1. TypeOK'
      <3>1. again' \in BOOLEAN
        BY <1>29, Zenon DEF Raise
      <3> QED
        BY <1>29, <3>1 DEF Raise
    <2>2. BootStage' /\ Nesting' /\ TimerPair' /\ OneContext'
      BY <1>29 DEF Raise
    <2>3. SeipMeaning'
      <3>1. Line(ctx) => Line(ctx)'
        BY <1>29 DEF Raise
      <3>2. UNCHANGED <<mip, pc, mcause, scause>>
        BY <1>29 DEF Raise
      <3> HIDE DEF Line
      <3> QED
        BY <3>1, <3>2
    <2>4. MaskedPending' /\ ClaimFinds' /\ OneClaim' /\ GatewayHolds'
      BY <1>29 DEF Raise
    <2>5. LoadsSound'
      <3>1. UNCHANGED <<word, bit, insvc, pc>> /\ raised' = raised \cup {i}
        BY <1>29 DEF Raise
      <3>2. CASE i \in insvc /\ pc \in Clearing
        <4>1. again'
          BY <1>29, <3>2, Zenon DEF Raise
        <4> QED
          BY <3>1, <3>2, <4>1
      <3>3. CASE ~(i \in insvc /\ pc \in Clearing)
        <4>1. again' = again
          BY <1>29, <3>3 DEF Raise
        <4> QED
          BY <3>1, <3>3, <4>1
      <3> QED
        BY <3>2, <3>3
    <2> QED
      BY <2>1, <2>2, <2>3, <2>4, <2>5
  <1>30. CASE UNCHANGED vars
    BY <1>30 DEF vars
  <1> QED
    BY <1>1, <1>2, <1>3, <1>4, <1>5, <1>6, <1>7, <1>8, <1>9, <1>10, <1>11, <1>12, <1>13, <1>14, <1>15, <1>16, <1>17, <1>18, <1>19, <1>20, <1>21, <1>22, <1>23, <1>24, <1>25, <1>26, <1>27, <1>28, <1>29, <1>30, <1>31,
       <1>32, <1>33, <1>34, <1>35
       DEF Next, Boot, Machine, Handler, Main, PlicCall, Devices

THEOREM Invariance == Spec => []IInv
  BY InitIInv, StepIInv, PTL DEF Spec

\* Every variable keeps its type.
THEOREM TypeCorrect == Spec => []TypeOK
  <1>1. IInv => TypeOK
    BY DEF IInv
  <1> QED
    BY <1>1, Invariance, PTL

\* No trap goes through an entry point, save area or handler table that the boot
\* code has not set up, whatever malloc() did to mstatus.MIE before.
THEOREM VectorsAlwaysReady == Spec => []VectorsReady
  <1>1. IInv => VectorsReady
    BY DEF IInv, TypeOK, BootStage, VectorsReady, BootPc, HandlerPc, Clearing
  <1> QED
    BY <1>1, Invariance, PTL

\* While MEIE is masked and do_ext_intr is registered, the instruction that sets it
\* again is being executed, is ahead in the handler that runs, or is ahead in the
\* handler of a supervisor interrupt that is pending.
THEOREM UnmaskIsAhead == Spec => []MaskedRecoverable
  <1>1. IInv => MaskedRecoverable
    BY DEF IInv, MaskedPending, SeipMeaning, MaskedRecoverable, HandlerPc, Clearing
  <1> QED
    BY <1>1, Invariance, PTL

\* do_ext_intr never reads an empty claim register.
THEOREM ClaimAlwaysFinds == Spec => []ClaimFinds
  <1>1. IInv => ClaimFinds
    BY DEF IInv
  <1> QED
    BY <1>1, Invariance, PTL

\* The PLIC serves one source at a time, and it is not pending meanwhile.
THEOREM ClaimsNeverOverlap == Spec => []OneClaim
  <1>1. IInv => OneClaim
    BY DEF IInv
  <1> QED
    BY <1>1, Invariance, PTL

-----------------------------------------------------------------------------
(* Refinement of IrqDelivery: requests of devices, the claim, the write of *)
(* INTR_GEN and the completion are its steps; all others leave the wanted  *)
(* sources and the claim alone.                                            *)

\* The initial states of RvTrap are initial states of IrqDelivery.
LEMMA InitDelivers == Init => Delivery!Init
  BY DEF Init, Delivery!Init, Wanted, Clearing

\* A step of RvTrap requests, claims, withdraws or completes, or changes neither
\* the wanted nor the claimed sources.
LEMMA StepDelivers == IInv /\ [Next]_vars => [Delivery!Next]_(Delivery!vars)
  <1> SUFFICES ASSUME IInv, [Next]_vars
               PROVE  Delivery!Next \/ UNCHANGED <<Wanted, insvc, pc = "complete", again>>
    BY DEF Delivery!vars
  <1> USE DEF Clearing
  <1>1. CASE ExtClaim
    <2>1. insvc = {} /\ pc = "custom"
      BY <1>1 DEF ExtClaim, IInv, OneClaim
    <2>2. CASE ~Line(ctx)
      BY <1>1, <2>1, <2>2 DEF ExtClaim, Wanted, gen
    <2>3. CASE Line(ctx)
      <3>1. PICK i \in Claimable(ctx) :
                 pend' = pend \ {i} /\ insvc' = insvc \cup {i} /\ pc' = "read"
        BY <1>1, <2>3 DEF ExtClaim
      <3>2. i \in Src /\ i \in pend /\ i \in Wanted
        BY <3>1 DEF IInv, TypeOK, Wanted, Claimable
      <3>3. raised' = raised /\ again' = again /\ insvc' = {i}
        BY <1>1, <2>1, <3>1 DEF ExtClaim, gen
      <3>4. Wanted' = Wanted
        BY <2>1, <3>1, <3>2, <3>3 DEF Wanted
      <3>5. Delivery!Claim(i)
        BY <2>1, <3>1, <3>2, <3>3, <3>4 DEF Delivery!Claim
      <3> QED
        BY <3>2, <3>5 DEF Delivery!Next
    <2> QED
      BY <2>2, <2>3
  <1>2. CASE ExtWithdraw
    <2>1. /\ pc = "withdraw" /\ pc' = "complete" /\ insvc' = insvc /\ pend' = pend
          /\ again' = FALSE /\ raised' = (word \ bit) \cup (bit \ word)
      BY <1>2 DEF ExtWithdraw
    <2>2. PICK i \in insvc : insvc = {i}
      BY <2>1 DEF IInv, OneClaim
    <2>3. i \in Src /\ i \notin pend
      BY <2>2 DEF IInv, TypeOK, OneClaim
    \* The bits lost by the write back are pending in the PLIC.
    <2>4. word \subseteq raised /\ bit \subseteq {i} /\ raised \subseteq pend \cup {i}
      BY <2>1, <2>2 DEF IInv, LoadsSound, GatewayHolds
    \* The bit is there afterwards only if just one of the two loads has seen it.
    <2>5. i \in raised' => again
      BY <2>1, <2>2, <2>4 DEF IInv, LoadsSound
    <2>6. Wanted = pend \cup {i} /\ Wanted' = raised' \cup pend
      BY <2>1, <2>2, <2>4 DEF Wanted
    <2>7. raised' \subseteq pend \cup {i}
      BY <2>1, <2>4
    <2>8. Wanted' = Wanted \ {i} \/ (again /\ Wanted' = Wanted)
      <3>1. CASE i \in raised'
        BY <2>5, <2>6, <2>7, <3>1
      <3>2. CASE i \notin raised'
        BY <2>3, <2>6, <2>7, <3>2
      <3> QED
        BY <3>1, <3>2
    <2>9. Delivery!Withdraw(i)
      BY <2>1, <2>2, <2>8 DEF Delivery!Withdraw
    <2> QED
      BY <2>3, <2>9 DEF Delivery!Next
  <1>3. CASE ExtComplete
    <2>1. /\ pc = "complete" /\ pc' = "reenable"
          /\ insvc' = {} /\ raised' = raised /\ pend' = pend \cup (insvc \cap raised)
          /\ again' = again
      BY <1>3 DEF ExtComplete, gen
    <2>2. Wanted' = Wanted
      BY <2>1 DEF Wanted
    <2> QED
      BY <2>1, <2>2 DEF Delivery!Next, Delivery!Complete
  <1>4. ASSUME NEW i \in Src, Raise(i)
        PROVE  Delivery!Next \/ UNCHANGED <<Wanted, insvc, pc = "complete", again>>
    <2>1. /\ raised' = raised \cup {i} /\ pc' = pc /\ insvc' = insvc
          /\ again' = (again \/ (i \in insvc /\ pc \in Clearing))
      BY <1>4 DEF Raise, sregs
    <2>2. pend' = IF i \in insvc THEN pend ELSE pend \cup {i}
      BY <1>4 DEF Raise
    <2>3. Wanted' = Wanted \cup {i}
      BY <2>1, <2>2 DEF Wanted
    <2>4. CASE i \in insvc /\ pc \in Clearing
      <3>1. Wanted' = Wanted /\ again' = TRUE /\ pc # "complete"
        BY <2>1, <2>3, <2>4 DEF Wanted
      <3>2. Delivery!Renew(i)
        BY <2>1, <2>4, <3>1 DEF Delivery!Renew
      <3> QED
        BY <3>2 DEF Delivery!Next
    <2>5. CASE ~(i \in insvc /\ pc \in Clearing)
      <3>1. again' = again
        BY <2>1, <2>5 DEF IInv, TypeOK
      <3>2. CASE i \in Wanted
        BY <2>1, <2>3, <3>1, <3>2
      <3>3. CASE i \notin Wanted
        BY <2>1, <2>3, <3>1, <3>3 DEF Delivery!Next, Delivery!Request
      <3> QED
        BY <3>2, <3>3
    <2> QED
      BY <2>4, <2>5
  <1>5. CASE Boot
    BY <1>5 DEF Boot, InitVectors, InitTimer, EnableTimer, InitEip, SetMie, EnterS, Install, plic, gen, Wanted
  <1>6. CASE Machine
    BY <1>6 DEF Machine, MTake, IsTimer, IsExt, IsIllegal, plic, gen, sregs, Wanted
  <1>7. ASSUME NEW c \in {"SEI", "SSI", "STI"}, STake(c)
        PROVE  UNCHANGED <<Wanted, insvc, pc = "complete", again>>
    <2>1. pc \notin Clearing \cup {"complete"}
      BY <1>7 DEF STake, SInterrupt, IInv, Nesting
    <2> QED
      BY <1>7, <2>1 DEF STake, EnterTrap, plic, gen, Wanted
  <1>8. CASE ClearSip \/ CustomDone \/ CustomExtDone \/ ReadWord \/ ReadBit \/ Reenable \/ Sret
    BY <1>8 DEF ClearSip, CustomDone, CustomExtDone, ReadWord, ReadBit, Reenable, Sret, plic, gen, Wanted, IInv, Nesting
  <1>9. CASE Main
    BY <1>9 DEF Main, IntrWrite, EnableSie, RaiseSoft, RegisterExt, PlicCall, Routing,
                PlicInit, PlicEnable, PlicDisable, SetContext, Yield,
                TouchMstatus, EnterTrap, ProgramRuns, plic, gen, sregs, Wanted
  <1>10. CASE Tick
    BY <1>10 DEF Tick, plic, gen, sregs, Wanted
  <1>11. CASE UNCHANGED vars
    BY <1>11 DEF vars, Wanted
  <1> QED
    BY <1>1, <1>2, <1>3, <1>4, <1>5, <1>6, <1>7, <1>8, <1>9, <1>10, <1>11
       DEF Next, Handler, Devices

\* RvTrap implements IrqDelivery.
THEOREM Implements == Spec => DeliverySpec
  <1>1. Spec => Delivery!Init /\ [][Delivery!Next]_(Delivery!vars)
    BY InitDelivers, StepDelivers, Invariance, PTL DEF Spec
  <1> QED
    BY <1>1 DEF DeliverySpec, Delivery!Spec

-----------------------------------------------------------------------------
(* The test: the inductive invariant, RvTrap's and more, by topic.         *)

Between     == {"csrs", "sstatus", "init", "begin", "enable", "begin_random"}
InRound     == {"asleep", "wait", "disable"}
RandomStage == {"enable_all", "hello", "await", "passed", "free"}

Quiet == raised = {} /\ pend = {} /\ insvc = {}

\* With the timer off, no tick stands in for the external interrupt that a masked
\* MEIE waits for.
NoTicks == "MTIE" \notin mie /\ "STIE" \notin mie /\ "STIP" \notin mip

\* Once set, SEIE and SIE stay set for the test's program; handlers return to it.
Unmasked ==
  /\ step \notin {"csrs", "free"} =>
       pc \notin BootPc \cup {"install"} /\ "SEIE" \in mie
  /\ step \notin {"csrs", "sstatus", "free"} =>
       (pc = "main" => sie) /\ (pc \in HandlerPc => spie)

\* random_claim is set with the last stage, and a round belongs to a call.  Before that
\* stage no source is raised under the handler.
Stages == /\ random <=> step \in RandomStage
          /\ step \in {"begin", "enable", "request"} \cup InRound => stage \in 1..Len(Rounds)
          /\ ~random => ~again

OnlyOrigin == [c \in {"M", "S"} |-> IF c = ctx THEN {origin} ELSE {}]

\* The next source is announced and enabled, but not requested yet.
Announced ==
  step = "request" =>
    /\ origin \in Src /\ should = origin
    /\ Quiet /\ ready /\ enable = OnlyOrigin

\* A round has requested one source and enabled it where it is requested; the
\* source is pending or in service until the handler takes back should_claim.
OneRequest ==
  step \in InRound =>
    /\ origin \in Src /\ ready /\ enable = OnlyOrigin
    /\ should = NoClaim => Quiet
    /\ should # NoClaim => /\ should = origin
                           /\ pend \cup insvc = {origin}
                           /\ pc = "complete" => raised = {}
    /\ step = "disable" => should = NoClaim

\* Nothing is left over between two rounds.
CleanRounds ==
  /\ step \in Between => should = NoClaim /\ Quiet /\ enable = NoneEnabled
  /\ step \in {"begin", "enable", "begin_random"} => ready
  /\ step = "enable_all" => ctx = "S"

TestInv == /\ TestTypeOK /\ IInv /\ step # "failed"
           /\ NoTicks /\ Unmasked /\ Stages /\ Announced /\ OneRequest /\ CleanRounds
-----------------------------------------------------------------------------

LEMMA RoundsTypes ==
  /\ Len(Rounds) = 4
  /\ \A n \in 1..4 : Rounds[n].context \in Contexts /\ Rounds[n].wfi \in BOOLEAN
  <1>1. Len(Rounds) = 4
    BY DEF Rounds
  <1>2. /\ Rounds[1] = Round("S", FALSE) /\ Rounds[2] = Round("S", TRUE)
        /\ Rounds[3] = Round("M", FALSE) /\ Rounds[4] = Round("M", TRUE)
    BY DEF Rounds
  <1>3. \A n \in 1..4 : n = 1 \/ n = 2 \/ n = 3 \/ n = 4
    OBVIOUS
  <1>4. ASSUME NEW n \in 1..4
        PROVE  Rounds[n].context \in {"M", "S"} /\ Rounds[n].wfi \in BOOLEAN
    <2>1. \/ Rounds[n] = Round("S", FALSE) \/ Rounds[n] = Round("S", TRUE)
          \/ Rounds[n] = Round("M", FALSE) \/ Rounds[n] = Round("M", TRUE)
      BY <1>2, <1>3, Zenon
    <2>2. PICK c \in {"M", "S"}, w \in BOOLEAN : Rounds[n] = Round(c, w)
      BY <2>1, Zenon
    <2>3. Rounds[n].context = c /\ Rounds[n].wfi = w
      BY <2>2 DEF Round
    <2> QED
      BY <2>3
  <1> QED
    BY <1>1, <1>4, TestAssumption

\* Each step of the test is one of RvTrap, or leaves the interrupt path alone.
LEMMA StepMaps == TestInv /\ [TestNext]_allvars => [Next]_vars
  <1> SUFFICES ASSUME TestInv, [TestNext]_allvars
               PROVE  [Next]_vars
    OBVIOUS
  <1>1. CASE Program
    <2>1. CASE CsrsSie \/ CsrsSstatus \/ HelloYield
      BY <2>1 DEF CsrsSie, CsrsSstatus, HelloYield, Next, Main
    <2>2. CASE WaitEnds \/ Passed
      BY <2>2 DEF WaitEnds, Passed
    <2>3. CASE InitPlic
      <3>1. ~Line(ctx)
        BY <2>3 DEF InitPlic, TestInv, CleanRounds, Between, Quiet, Line, Claimable
      <3> QED
        BY <2>3, <3>1 DEF InitPlic, Next, Main, PlicCall
    <2>4. CASE Begin
      <3>1. Rounds[stage].context \in Contexts
        BY <2>4, RoundsTypes DEF Begin, From, TestInv, Stages
      <3>2. enable = NoneEnabled
        BY <2>4 DEF Begin, From, TestInv, CleanRounds, Between
      <3> QED
        BY <2>4, <3>1, <3>2 DEF Begin, Next, Main, PlicCall
    <2>5. ASSUME NEW i \in Src, Announce(i)
          PROVE  Next
      BY <2>5 DEF Announce, Next, Main, PlicCall
    <2>6. CASE Request
      <3>1. should \in Src
        BY <2>6 DEF Request, TestInv, Announced
      <3> QED
        BY <2>6, <3>1 DEF Request, Next, Devices
    <2>7. CASE Disable
      <3>1. origin \in Src \ pend
        BY <2>7 DEF Disable, TestInv, OneRequest, InRound, Quiet
      <3> QED
        BY <2>7, <3>1 DEF Disable, Next, Main, PlicCall
    <2>8. CASE BeginRandom
      <3>1. enable = NoneEnabled
        BY <2>8 DEF BeginRandom, From, TestInv, CleanRounds, Between
      <3> QED
        BY <2>8, <3>1, TestAssumption DEF BeginRandom, Next, Main, PlicCall
    <2>9. CASE EnableAll
      BY <2>9 DEF EnableAll, Next, Main, PlicCall
    <2> QED
      BY <1>1, <2>1, <2>2, <2>3, <2>4, <2>5, <2>6, <2>7, <2>8, <2>9 DEF Program
  <1>2. CASE Free
    BY <1>2 DEF Free, Next
  <1>3. CASE BootStep \/ MachineStep
    BY <1>3 DEF BootStep, MachineStep, Next, Machine
  <1>4. CASE Trap
    BY <1>4 DEF Trap, Next
  <1>5. CASE HandlerStep
    BY <1>5 DEF HandlerStep, Claimed, Completed, Next, Handler
  <1>6. ASSUME NEW i \in Src, Generate(i)
        PROVE  Next
    BY <1>6 DEF Generate, Next, Devices
  <1>7. CASE UNCHANGED allvars
    BY <1>7 DEF allvars
  <1> QED
    BY <1>1, <1>2, <1>3, <1>4, <1>5, <1>6, <1>7 DEF TestNext, Hart

LEMMA InitTestInv == TestInit => TestInv
  <1> SUFFICES ASSUME TestInit
               PROVE  TestInv
    OBVIOUS
  <1> USE TestAssumption
  <1>1. IInv
    BY InitIInv DEF TestInit
  <1>2. TestTypeOK
    <2>1. random \in BOOLEAN
      BY DEF TestInit
    <2> QED
      BY <1>1, <2>1, RoundsTypes DEF TestInit, TestTypeOK, IInv
  <1>3. NoTicks /\ Unmasked /\ Stages /\ Announced /\ OneRequest
    BY DEF TestInit, Init, NoTicks, Unmasked, Stages, Announced, OneRequest, InRound, RandomStage
  <1>4. CleanRounds
    BY DEF TestInit, Init, CleanRounds, Between, Quiet
  <1> QED
    BY <1>1, <1>2, <1>3, <1>4 DEF TestInv, TestInit

\* The time-out in the test's busy loop, or after its wfi, never strikes: a source
\* that is still pending can be taken.
LEMMA NoTimeOut ==
  ASSUME TestInv, ProgramRuns, step = "wait", should # NoClaim
  PROVE  MTakeable # {}
  <1> SUFFICES ASSUME MTakeable = {}
               PROVE  FALSE
    OBVIOUS
  <1>1. pc = "main" /\ sie /\ "SEIE" \in mie
    BY DEF ProgramRuns, TestInv, Unmasked
  <1>2. Line(ctx)
    <2>1. origin \in pend /\ ready /\ enable = OnlyOrigin
      BY <1>1 DEF TestInv, IInv, OneClaim, OneRequest, InRound, Clearing
    <2>2. ctx \in {"M", "S"}
      BY TestAssumption DEF TestInv, IInv, TypeOK
    <2>3. origin \in enable[ctx]
      BY <2>1, <2>2 DEF OnlyOrigin
    <2> QED
      BY <2>1, <2>3 DEF Line, Claimable
  <1>3. SPending("SEI")
    <2>1. CASE ctx = "S"
      BY <1>2, <2>1 DEF SPending
    <2>2. CASE ctx = "M"
      <3>1. "MEIE" \notin mie
        BY <1>1, <1>2, <2>2 DEF MTakeable, MPending, MEnabled, BootPc
      <3>2. "SEIP" \in mip
        BY <1>1, <3>1 DEF TestInv, NoTicks, IInv, MaskedPending
      <3> QED
        BY <3>2 DEF SPending
    <2> QED
      BY <2>1, <2>2, TestAssumption DEF TestInv, IInv, TypeOK
  <1>4. SInterrupt("SEI")
    BY <1>1, <1>3 DEF SInterrupt, STakeable, SEnabled, Above, BootPc
  <1> QED
    BY <1>4 DEF ProgramRuns

LEMMA StepTestInv == TestInv /\ [TestNext]_allvars => TestInv'
  <1> SUFFICES ASSUME TestInv, [TestNext]_allvars
               PROVE  TestInv'
    OBVIOUS
  <1>0. IInv' /\ TypeOK /\ TypeOK'
    BY StepMaps, StepIInv DEF TestInv, IInv
  <1> USE TestAssumption, RoundsTypes
      DEF TestInv, TestTypeOK, NoTicks, Unmasked, Stages, Announced, OneRequest, OnlyOrigin,
          CleanRounds, Quiet,
          Between, InRound, RandomStage, own, csrs, gen, route, plic, trap, sregs, From,
          Runs, ProgramRuns, Clearing, NoneEnabled
  <1>1. CASE CsrsSie
    <2>1. TestTypeOK'
      BY <1>0, <1>1 DEF CsrsSie, EnableSie
    <2>2. NoTicks' /\ Unmasked'
      BY <1>0, <1>1 DEF CsrsSie, EnableSie, BootPc
    <2>3. Stages'
      BY <1>0, <1>1 DEF CsrsSie, EnableSie
    <2>4. Announced' /\ OneRequest'
      BY <1>0, <1>1 DEF CsrsSie, EnableSie
    <2>5. CleanRounds'
      BY <1>0, <1>1 DEF CsrsSie, EnableSie
    <2> QED
      BY <1>0, <1>1, <2>1, <2>2, <2>3, <2>4, <2>5 DEF CsrsSie, EnableSie
  <1>2. CASE CsrsSstatus
    BY <1>0, <1>2 DEF CsrsSstatus, IntrWrite, HandlerPc
  <1>3. CASE InitPlic
    BY <1>0, <1>3 DEF InitPlic, PlicInit, Routing
  <1>4. CASE Begin
    BY <1>0, <1>4 DEF Begin, SetContext, Routing
  <1>5. ASSUME NEW i \in Src, Announce(i)
        PROVE  TestInv'
    <2>1. TestTypeOK'
      BY <1>0, <1>5 DEF Announce, PlicEnable, Routing
    <2>2. NoTicks' /\ Unmasked'
      BY <1>0, <1>5 DEF Announce, PlicEnable, Routing, BootPc
    <2>3. Stages'
      BY <1>0, <1>5 DEF Announce, PlicEnable, Routing
    <2>4. Announced'
      <3>1. enable' = [enable EXCEPT ![ctx] = enable[ctx] \cup {i}] /\ ctx' = ctx /\ origin' = i
        BY <1>5 DEF Announce, PlicEnable
      <3>2. enable = [c \in {"M", "S"} |-> {}] /\ ctx \in {"M", "S"}
        BY <1>0, <1>5 DEF Announce, TypeOK
      <3> HIDE DEF TestInv
      <3>3. enable' = OnlyOrigin'
        BY <3>1, <3>2 DEF OnlyOrigin
      <3> QED
        BY <1>0, <1>5, <3>1, <3>3 DEF Announce, PlicEnable, Routing, TestInv
    <2>5. OneRequest' /\ CleanRounds'
      BY <1>0, <1>5 DEF Announce, PlicEnable, Routing
    <2> QED
      BY <1>0, <1>5, <2>1, <2>2, <2>3, <2>4, <2>5 DEF Announce
  <1>23. CASE Request
    <2>1. TestTypeOK'
      BY <1>0, <1>23 DEF Request, Raise, HandlerPc
    <2>2. NoTicks' /\ Unmasked'
      BY <1>0, <1>23 DEF Request, Raise, HandlerPc, BootPc
    <2>3. Stages'
      BY <1>0, <1>23 DEF Request, Raise, HandlerPc
    <2>4. OneRequest' /\ Announced'
      <3>1. enable' = enable /\ ctx' = ctx /\ ready' = ready
        BY <1>23 DEF Request, Raise
      <3>2. /\ pend' = {origin} /\ insvc' = {} /\ pc' = "main"
            /\ origin' = origin /\ should' = origin
        BY <1>23 DEF Request, Raise
      <3>3. step' \in {"asleep", "wait"} /\ should' # NoClaim
        BY <1>23 DEF Request
      <3> QED
        BY <1>23, <3>1, <3>2, <3>3 DEF Request
    <2>5. CleanRounds'
      BY <1>0, <1>23 DEF Request, Raise, HandlerPc
    <2> QED
      BY <1>0, <1>23, <2>1, <2>2, <2>3, <2>4, <2>5 DEF Request, Raise, HandlerPc
  <1>6. CASE WaitEnds
    BY <1>0, <1>6, NoTimeOut DEF WaitEnds, vars
  <1>7. CASE Disable
    <2>1. TestTypeOK'
      <3>1. origin \in Src /\ stage \in 1..4 /\ step = "disable"
        BY <1>7 DEF Disable
      <3>3. iter' \in 0..(Iter - 1) /\ stage' \in 1..(Len(Rounds) + 1)
        BY <1>7, <3>1 DEF Disable
      <3>4. step' \in {"enable", "begin", "init"}
        BY <1>7 DEF Disable
      <3> QED
        BY <1>0, <1>7, <3>3, <3>4 DEF Disable
    <2>2. NoTicks' /\ Unmasked'
      BY <1>0, <1>7 DEF Disable, PlicDisable, Routing, BootPc
    <2>3. Stages'
      BY <1>0, <1>7 DEF Disable, PlicDisable, Routing
    <2>4. Announced' /\ OneRequest'
      BY <1>0, <1>7 DEF Disable, PlicDisable, Routing
    <2>5. CleanRounds'
      <3>1. /\ enable = OnlyOrigin /\ ctx \in {"M", "S"}
            /\ enable' = [enable EXCEPT ![ctx] = (@ \ {origin}) \cup ({origin} \ @)]
        BY <1>0, <1>7 DEF Disable, PlicDisable, TypeOK
      <3> HIDE DEF TestInv
      <3>2. enable' = NoneEnabled
        BY <3>1
      <3>3. should' = NoClaim /\ Quiet' /\ ready'
        BY <1>7 DEF Disable, PlicDisable, Routing, TestInv
      <3>4. step' \in {"enable", "begin", "init"}
        BY <1>7 DEF Disable
      <3> QED
        BY <3>2, <3>3, <3>4
    <2> QED
      BY <1>0, <1>7, <2>1, <2>2, <2>3, <2>4, <2>5 DEF Disable
  <1>8. CASE BeginRandom
    BY <1>0, <1>8 DEF BeginRandom, SetContext, Routing
  <1>24. CASE EnableAll
    BY <1>0, <1>24 DEF EnableAll, PlicEnable, Routing
  <1>9. CASE HelloYield
    <2>1. TestTypeOK'
      BY <1>0, <1>9 DEF HelloYield, Yield, EnterTrap, HandlerPc
    <2>2. NoTicks' /\ Unmasked'
      BY <1>0, <1>9 DEF HelloYield, Yield, EnterTrap, HandlerPc, BootPc
    <2>3. Stages'
      BY <1>0, <1>9 DEF HelloYield, Yield, EnterTrap, HandlerPc
    <2>4. Announced' /\ OneRequest'
      BY <1>0, <1>9 DEF HelloYield, Yield, EnterTrap, HandlerPc
    <2>5. CleanRounds'
      BY <1>0, <1>9 DEF HelloYield, Yield, EnterTrap, HandlerPc
    <2> QED
      BY <1>0, <1>9, <2>1, <2>2, <2>3, <2>4, <2>5 DEF HelloYield, Yield, EnterTrap, HandlerPc
  <1>10. CASE Passed
    BY <1>0, <1>10 DEF Passed, vars
  <1>11. CASE Free
    BY <1>0, <1>11 DEF Free, tvars, Main, IntrWrite, EnableSie, RaiseSoft, RegisterExt, PlicCall,
       Routing, PlicInit, PlicEnable, PlicDisable, SetContext, Yield, EnterTrap, TouchMstatus
  <1>12. CASE BootStep
    BY <1>0, <1>12 DEF BootStep, tvars, Boot, InitVectors, InitTimer, EnableTimer, InitEip, SetMie,
       EnterS, Install, BootPc
  <1>13. ASSUME NEW c \in {"MTI", "MEI"}, MTake(c), Wake, UNCHANGED own
         PROVE  TestInv'
    BY <1>0, <1>13 DEF MTake, Wake
  <1>14. CASE (IsExt \/ IsIllegal) /\ UNCHANGED tvars
    BY <1>0, <1>14 DEF IsExt, IsIllegal, tvars
  <1>15. CASE Trap
    <2>1. TestTypeOK'
      BY <1>0, <1>15 DEF Trap, Wake, STake, SInterrupt, EnterTrap, HandlerPc
    <2>2. NoTicks' /\ Unmasked'
      BY <1>0, <1>15 DEF Trap, Wake, STake, SInterrupt, EnterTrap, HandlerPc, BootPc
    <2>3. Stages'
      BY <1>0, <1>15 DEF Trap, Wake, STake, SInterrupt, EnterTrap, HandlerPc
    <2>4. Announced' /\ OneRequest'
      BY <1>0, <1>15 DEF Trap, Wake, STake, SInterrupt, EnterTrap, HandlerPc
    <2>5. CleanRounds'
      BY <1>0, <1>15 DEF Trap, Wake, STake, SInterrupt, EnterTrap, HandlerPc
    <2> QED
      BY <1>0, <1>15, <2>1, <2>2, <2>3, <2>4, <2>5 DEF Trap, Wake, STake, SInterrupt, EnterTrap, HandlerPc
  <1>16. CASE Claimed
    <2>0. PICK i \in Claimable(ctx) :
               insvc' = insvc \cup {i} /\ pend' = pend \ {i} /\ pc' = "read"
      BY <1>0, <1>16 DEF Claimed, ExtClaim, IInv, ClaimFinds
    <2>7. i \in pend
      BY <2>0 DEF Claimable
    <2>8. /\ pc = "custom" /\ insvc = {}
          /\ UNCHANGED <<mie, mip, spie, raised, again, ctx, ready, enable,
                         stage, iter, should, origin, random>>
      BY <1>16 DEF Claimed, ExtClaim, IInv, OneClaim
    <2>6. step' = step
      <3>1. random \/ should = i
        BY <2>7, <2>8
      <3> QED
        BY <1>16, <2>0, <3>1 DEF Claimed
    <2>1. TestTypeOK'
      BY <1>0, <1>16, <2>6 DEF Claimed, ExtClaim, HandlerPc
    <2>2. NoTicks' /\ Unmasked'
      BY <2>0, <2>8, <2>6 DEF HandlerPc, BootPc
    <2>3. Stages'
      BY <2>8, <2>6
    <2>4. Announced' /\ OneRequest'
      <3>1. pend' \cup insvc' = pend \cup insvc /\ pend # {}
        BY <2>0, <2>7, <2>8
      <3> QED
        BY <2>0, <2>6, <2>8, <3>1
    <2>5. CleanRounds'
      BY <2>6, <2>7, <2>8
    <2> QED
      BY <1>0, <2>1, <2>2, <2>3, <2>4, <2>5, <2>6
  <1>17. CASE Completed
    <2>1. TestTypeOK'
      BY <1>0, <1>17 DEF Completed, ExtComplete, HandlerPc
    <2>7. /\ pc = "complete" /\ pc' = "reenable" /\ insvc # {}
          /\ insvc' = {} /\ pend' = pend \cup (insvc \cap raised)
          /\ step' \in {step, "failed"} /\ should' = NoClaim
          /\ UNCHANGED <<mie, mip, spie, raised, again, ctx, ready, enable,
                         stage, iter, origin, random>>
      BY <1>17 DEF Completed, ExtComplete, IInv, OneClaim
    <2>3. Stages'
      BY <1>0, <1>17 DEF Completed, ExtComplete, HandlerPc
    <2>4. Announced' /\ OneRequest'
      <3>1. step \in InRound => Quiet'
        BY <2>7 DEF IInv, OneClaim
      <3> QED
        BY <2>7, <3>1
    <2>5. CleanRounds'
      BY <1>0, <1>17 DEF Completed, ExtComplete, HandlerPc
    <2>6. step' # "failed"
      <3>1. insvc # {}
        BY <1>17 DEF Completed, ExtComplete, IInv, OneClaim
      <3>2. random \/ pend' = {}
        BY <1>17, <3>1 DEF Completed, ExtComplete, IInv, OneClaim, GatewayHolds
      <3> QED
        BY <1>17, <3>2 DEF Completed, Line, Claimable
    <2>2. NoTicks' /\ Unmasked'
      BY <2>7, <2>6 DEF HandlerPc, BootPc
    <2> QED
      BY <1>0, <2>1, <2>2, <2>3, <2>4, <2>5, <2>6
  <1>18. CASE ExtWithdraw /\ UNCHANGED tvars
    <2>1. TestTypeOK'
      BY <1>0, <1>18 DEF ExtWithdraw, tvars, HandlerPc, IInv, LoadsSound, OneClaim, GatewayHolds
    <2>2. NoTicks' /\ Unmasked'
      BY <1>0, <1>18 DEF ExtWithdraw, tvars, HandlerPc, IInv, LoadsSound, OneClaim, GatewayHolds, BootPc
    <2>3. Stages'
      BY <1>0, <1>18 DEF ExtWithdraw, tvars, HandlerPc, IInv, LoadsSound, OneClaim, GatewayHolds
    <2>4. Announced' /\ OneRequest'
      BY <1>0, <1>18 DEF ExtWithdraw, tvars, HandlerPc, IInv, LoadsSound, OneClaim, GatewayHolds
    <2>5. CleanRounds'
      BY <1>0, <1>18 DEF ExtWithdraw, tvars, HandlerPc, IInv, LoadsSound, OneClaim, GatewayHolds
    <2> QED
      BY <1>0, <1>18, <2>1, <2>2, <2>3, <2>4, <2>5 DEF ExtWithdraw, tvars, HandlerPc, IInv, LoadsSound, OneClaim, GatewayHolds
  <1>19. CASE (ClearSip \/ CustomDone \/ ReadWord \/ ReadBit \/ Reenable) /\ UNCHANGED tvars
    <2>1. TestTypeOK'
      BY <1>0, <1>19 DEF ClearSip, CustomDone, ReadWord, ReadBit, Reenable, tvars, HandlerPc
    <2>2. NoTicks' /\ Unmasked'
      BY <1>0, <1>19 DEF ClearSip, CustomDone, ReadWord, ReadBit, Reenable, tvars, HandlerPc, BootPc
    <2>3. Stages'
      BY <1>0, <1>19 DEF ClearSip, CustomDone, ReadWord, ReadBit, Reenable, tvars, HandlerPc
    <2>4. Announced' /\ OneRequest'
      BY <1>0, <1>19 DEF ClearSip, CustomDone, ReadWord, ReadBit, Reenable, tvars, HandlerPc
    <2>5. CleanRounds'
      BY <1>0, <1>19 DEF ClearSip, CustomDone, ReadWord, ReadBit, Reenable, tvars, HandlerPc
    <2> QED
      BY <1>0, <1>19, <2>1, <2>2, <2>3, <2>4, <2>5 DEF ClearSip, CustomDone, ReadWord, ReadBit, Reenable, tvars, HandlerPc
  <1>20. CASE Sret /\ UNCHANGED tvars
    <2>1. TestTypeOK'
      BY <1>0, <1>20 DEF Sret, tvars, HandlerPc, IInv, Nesting
    <2>2. NoTicks' /\ Unmasked'
      BY <1>0, <1>20 DEF Sret, tvars, HandlerPc, IInv, Nesting, BootPc
    <2>3. Stages'
      BY <1>0, <1>20 DEF Sret, tvars, HandlerPc, IInv, Nesting
    <2>4. Announced' /\ OneRequest'
      BY <1>0, <1>20 DEF Sret, tvars, HandlerPc, IInv, Nesting
    <2>5. CleanRounds'
      BY <1>0, <1>20 DEF Sret, tvars, HandlerPc, IInv, Nesting
    <2> QED
      BY <1>0, <1>20, <2>1, <2>2, <2>3, <2>4, <2>5 DEF Sret, tvars, HandlerPc, IInv, Nesting
  <1>21. ASSUME NEW i \in Src, Generate(i)
         PROVE  TestInv'
    BY <1>0, <1>21 DEF Generate, Raise, tvars
  <1>22. CASE UNCHANGED allvars
    BY <1>0, <1>22 DEF allvars, tvars, vars
  <1> QED
    BY <1>1, <1>2, <1>3, <1>4, <1>5, <1>6, <1>7, <1>8, <1>9, <1>10, <1>11, <1>12, <1>13, <1>14,
       <1>15, <1>16, <1>17, <1>18, <1>19, <1>20, <1>21, <1>22, <1>23, <1>24
       DEF TestNext, Program, Hart, MachineStep, HandlerStep

THEOREM TestInvariance == TestSpec => []TestInv
  BY InitTestInv, StepTestInv, PTL DEF TestSpec

\* The test's state keeps its types.
THEOREM TestTypeCorrect == TestSpec => []TestTypeOK
  <1>1. TestInv => TestTypeOK
    BY DEF TestInv
  <1> QED
    BY <1>1, TestInvariance, PTL

\* The handler claims what the program announced and finds it withdrawn after the
\* completion, and no round runs into its time-out.
THEOREM ChecksHold == TestSpec => []NoCheckFails
  <1>1. TestInv => NoCheckFails
    BY DEF TestInv, IInv, ClaimFinds, NoCheckFails
  <1> QED
    BY <1>1, TestInvariance, PTL

\* plic_disable's toggle has met the bit plic_enable set, and the source is quiet.
THEOREM RoundsStayClean == TestSpec => []RoundsAreClean
  <1>1. TestInv => RoundsAreClean
    BY DEF TestInv, CleanRounds, Between, Quiet, RoundsAreClean
  <1> QED
    BY <1>1, TestInvariance, PTL

\* The test's steps are steps of RvTrap, whose theorems thus hold below it.
THEOREM TestImplements == TestSpec => Spec
  <1>1. TestInit => Init
    BY DEF TestInit
  <1> QED
    BY <1>1, StepMaps, TestInvariance, PTL DEF TestSpec, Spec
=============================================================================
