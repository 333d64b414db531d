----------------------------- MODULE ExtIntrTest -----------------------------
(***************************************************************************)
(* The external interrupt test of amtest (extintr.c) on top of RvTrap: the *)
(* program that requests interrupts one by one and tells the handler which *)
(* to expect, in both PLIC contexts, busy waiting and with wfi, and then   *)
(* lets the random generator of the test bench raise them; the handler's   *)
(* own checks.  The test calls the PLIC driver without RvTrap's guards on  *)
(* PlicCall: that it keeps to them is a theorem (TestImplements).          *)
(*                                                                         *)
(* Instead of the test any other program may run, with do_ext_intr in its  *)
(* random_claim mode: it masks and unmasks, yields, enables and disables   *)
(* sources and changes context, and sources are raised at any time.        *)
(*                                                                         *)
(* The timer is off, as mainargs "e" runs the test.  A wfi is reached      *)
(* before the request made by the store in front of it reaches the hart.   *)
(***************************************************************************)
EXTENDS RvTrap, Sequences

CONSTANTS
  Iter,         \* MAX_RAND_ITER
  NoClaim       \* should_claim = -1

ASSUME TestAssumption == /\ Iter \in Nat \ {0} /\ NoClaim \notin Src
                         /\ Contexts = {"M", "S"} /\ ExtHandlers = {"claim"} /\ ~TimerOn

VARIABLES
  step,         \* where the test is, or "free" for any other program
  stage, iter,  \* which external_trigger call, and its loop counter
  should, origin,   \* should_claim and origin_claim
  random,       \* random_claim: the random stage has begun
  count         \* claim_count_all, of the random stage, up to Iter

own   == <<stage, iter, should, origin, random, count>>
tvars == <<step, own>>
allvars == <<vars, tvars>>

\* The calls of external_trigger in external_intr.
Round(c, w) == [context |-> c, wfi |-> w]
Rounds == <<Round("S", FALSE), Round("S", TRUE), Round("M", FALSE), Round("M", TRUE)>>

TestInit == /\ Init
            /\ step \in {"csrs", "free"} /\ stage = 1 /\ iter = 0
            /\ should = NoClaim /\ origin = NoClaim
            /\ random = (step = "free") /\ count = 0

From(a, b) == step = a /\ step' = b

-----------------------------------------------------------------------------
(* The program.                                                            *)

CsrsSie == /\ From("csrs", "sstatus") /\ EnableSie("SEIE")
           /\ UNCHANGED own
CsrsSstatus == /\ From("sstatus", "init") /\ IntrWrite(TRUE)
               /\ UNCHANGED own

\* plic_intr_init: before the first call of external_trigger and after the last.
InitPlic == /\ step = "init" /\ PlicInit
            /\ step' = IF stage <= Len(Rounds) THEN "begin" ELSE "begin_random"
            /\ UNCHANGED own

\* external_trigger begins.
Begin == /\ From("begin", "enable") /\ SetContext(Rounds[stage].context)
         /\ iter' = 0
         /\ UNCHANGED <<stage, should, origin, random, count>>

\* The next source is announced to the handler, and enabled.
Announce(i) == /\ From("enable", "request") /\ PlicEnable({i})
               /\ should' = i /\ origin' = i
               /\ UNCHANGED <<stage, iter, random, count>>

\* plic_set_intr; no one else writes INTR_GEN here, so its read and write are one step.
Request == /\ ProgramRuns /\ step = "request"
           /\ Raise(should)
           /\ step' = IF Rounds[stage].wfi THEN "asleep" ELSE "wait"
           /\ UNCHANGED own

\* The busy loop or the wfi is over when the handler has been.  A loop of 2000 rounds
\* outlasts every interrupt that can still be taken, and a wfi ends with one:
\* after that it is "external interrupt is not triggered!"
WaitEnds == /\ ProgramRuns /\ step = "wait"
            /\ should # NoClaim => MTakeable = {}
            /\ step' = IF should = NoClaim THEN "disable" ELSE "failed"
            /\ UNCHANGED <<vars, own>>

\* plic_disable(current_context, origin_claim); then the next iteration or round.
Disable == /\ step = "disable" /\ PlicDisable(origin)
           /\ IF iter + 1 < Iter
                THEN iter' = iter + 1 /\ step' = "enable" /\ UNCHANGED stage
                ELSE /\ iter' = 0 /\ stage' = stage + 1
                     /\ step' = IF stage < Len(Rounds) THEN "begin" ELSE "init"
           /\ UNCHANGED <<should, origin, random, count>>

\* random_trigger: every source may be raised from here on,
BeginRandom == /\ From("begin_random", "enable_all") /\ SetContext("S")
               /\ random' = TRUE /\ count' = 0
               /\ UNCHANGED <<stage, iter, should, origin>>

\* and is enabled next.
EnableAll == /\ From("enable_all", "hello") /\ PlicEnable(Src)
             /\ UNCHANGED own

\* One of hello_intr_n's yields.
HelloYield == /\ From("hello", "await") /\ Yield
              /\ UNCHANGED own
Passed == /\ ProgramRuns /\ count = Iter /\ From("await", "passed")
          /\ UNCHANGED <<vars, own>>

\* Any other program.
Free == step = "free" /\ Main /\ UNCHANGED tvars

Program == \/ CsrsSie \/ CsrsSstatus \/ InitPlic \/ Begin
           \/ (\E i \in Src : Announce(i)) \/ Request \/ WaitEnds \/ Disable
           \/ BeginRandom \/ EnableAll \/ HelloYield \/ Passed

-----------------------------------------------------------------------------
(* do_ext_intr, with its checks.                                           *)

\* The claim has to be the one the program announced.
Claimed == /\ ExtClaim
           /\ step' = IF random \/ should \in insvc' THEN step ELSE "failed"
           /\ count' = IF step # "free" /\ random /\ count < Iter THEN count + 1 ELSE count
           /\ UNCHANGED <<stage, iter, should, origin, random>>

\* A second claim has to find nothing (no generator runs then).
Completed == /\ ExtComplete
             /\ step' = IF random \/ ~Line(ctx)' THEN step ELSE "failed"
             /\ should' = NoClaim
             /\ UNCHANGED <<stage, iter, origin, random, count>>

\* Traps wake the hart; everything else below the test leaves it alone.
Wake == step' = IF step = "asleep" THEN "wait" ELSE step

MachineStep == \/ (\E c \in {"MTI", "MEI"} : MTake(c)) /\ Wake /\ UNCHANGED own
               \/ (IsExt \/ IsIllegal) /\ UNCHANGED tvars

Trap == (\E c \in {"SEI", "SSI", "STI"} : STake(c)) /\ Wake /\ UNCHANGED own

BootStep == Boot /\ UNCHANGED tvars

HandlerStep == \/ Claimed \/ Completed
               \/ /\ ClearSip \/ CustomDone \/ ReadWord \/ ReadBit \/ ExtWithdraw \/ Reenable \/ Sret
                  /\ UNCHANGED tvars

\* The random generator; in the test, it stops after Iter claims (bound).
Generate(i) == /\ random /\ count < Iter
               /\ Raise(i)
               /\ UNCHANGED tvars

Hart == BootStep \/ MachineStep \/ Trap \/ HandlerStep

TestNext == \/ step # "failed" /\ (Program \/ Free \/ Hart)
            \/ \E i \in Src : Generate(i)

TestSpec == TestInit /\ [][TestNext]_allvars

(***************************************************************************)
(* The hart does not stop, and the generator goes on raising while the     *)
(* test counts.  A free program does not mask interrupts for ever.         *)
(***************************************************************************)
TestFairSpec ==
  /\ TestSpec
  /\ WF_allvars(BootStep) /\ WF_allvars(MachineStep)
  /\ WF_allvars(Trap) /\ WF_allvars(HandlerStep)
  /\ WF_allvars(Program)
  /\ WF_allvars(step = "await" /\ \E i \in Src : Generate(i))
  /\ SF_allvars(step = "free" /\ IntrWrite(TRUE) /\ UNCHANGED tvars)
  /\ SF_allvars(step = "free" /\ EnableSie("SEIE") /\ UNCHANGED tvars)

-----------------------------------------------------------------------------
(* Properties.                                                             *)

TestTypeOK == /\ TypeOK
              /\ step \in {"csrs", "sstatus", "init", "begin", "enable", "request", "asleep",
                           "wait", "disable", "begin_random", "enable_all", "hello", "await", "passed", "failed", "free"}
              /\ stage \in 1..(Len(Rounds) + 1) /\ iter \in 0..(Iter - 1)
              /\ should \in Src \cup {NoClaim} /\ origin \in Src \cup {NoClaim}
              /\ random \in BOOLEAN /\ count \in 0..Iter

\* None of the test's checks fails: the handler claims what the program announced,
\* finds the source withdrawn after its completion, and comes before the time-out
\* (extintr.c:76, :84, :94 and :148).
NoCheckFails == step # "failed" /\ pc # "halt"

\* Each round leaves nothing behind for the next: plic_disable, which toggles, has
\* met the bit that plic_enable set, and the source is quiet.
RoundsAreClean == step \in {"init", "begin", "enable", "begin_random"} =>
                    /\ enable = NoneEnabled
                    /\ raised = {} /\ pend = {} /\ insvc = {}

\* The test comes to its end: "external interrupt test passed!!!"
TestPasses == step = "csrs" ~> step = "passed"
=============================================================================
