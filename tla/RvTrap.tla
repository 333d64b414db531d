------------------------------- MODULE RvTrap -------------------------------
(***************************************************************************)
(* The interrupt path of the riscv64-xs port: CLINT timer and PLIC line,   *)
(* the machine-mode vector (mtime.S), the supervisor trap entry (trap.S)   *)
(* and the handlers of cte.c, the boot order of _cte_init and              *)
(* __am_init_cte64, and the second-level external handler of the amtest    *)
(* suite (extintr.c).                                                      *)
(*                                                                         *)
(* One hart.  The devices run beside it: time passes and sources are       *)
(* raised between any two steps.  Between two of its own supervisor steps  *)
(* the hart may enter machine mode, which nothing in supervisor mode can   *)
(* mask.  The machine-mode vector itself runs to its mret undisturbed      *)
(* (mstatus.MIE is clear there); entry and body are two steps, so that the *)
(* devices may move between them.                                          *)
(***************************************************************************)
EXTENDS Integers

CONSTANTS
  Src,          \* interrupt sources wired to the PLIC
  Contexts,     \* PLIC contexts the program enables them for, of "M" and "S"
  TimerOn,      \* ~g_config_disable_timer
  Inc,          \* TIME_INC, in model ticks
  MaxLag,       \* bound: how far mtime may run past mtimecmp
  ExtHandlers,  \* second-level external handlers the program registers:
                \* "claim" (do_ext_intr), "ignore" (simple_trap), "none" (NULL)
  KlibLock      \* does supervisor code call klib's lock() and release()?

ASSUME ConstAssumption ==
  /\ Contexts \subseteq {"M", "S"}
  /\ TimerOn \in BOOLEAN
  /\ Inc \in Nat \ {0}
  /\ MaxLag \in Nat
  /\ ExtHandlers \subseteq {"claim", "ignore", "none"}
  /\ KlibLock \in BOOLEAN

VARIABLES
  vec,          \* entry points set up so far
  mIE,          \* mstatus.MIE, looked at only in the machine-mode boot code
  mie,          \* mie: enabled interrupts
  mip,          \* the writable bits of mip
  due,          \* mtimecmp - mtime; MTIP is pending when it is not positive
  raised,       \* sources whose INTR_GEN bit is set
  word, bit,    \* the two loads of INTR_GEN in CLEAR_INTR: the word, and the
                \* claimed source's bit of it
  again,        \* history: the claimed source was raised anew before the write
  pend,         \* sources pending in the PLIC
  insvc,        \* sources claimed and not completed
  ctx,          \* current_context of the program's PLIC calls
  ready,        \* plic_intr_init has put all priorities above the thresholds
  enable,       \* the enable words of the PLIC, per context
  mcause,       \* machine trap in progress, or "none"
  pc,           \* where the code below machine mode is
  scause,       \* supervisor trap in progress, or "none"
  epc,          \* where the supervisor trap returns to
  sie,          \* sstatus.SIE
  spie,         \* SPIE in the saved frame
  ext           \* custom_external_handler

csrs  == <<mIE, mie, mip>>
gen   == <<raised, word, bit, again>>
route == <<ctx, ready, enable>>
plic  == <<gen, pend, insvc, route>>
trap  == <<scause, epc, spie>>
sregs == <<pc, scause, epc, sie, spie, ext>>
vars  == <<vec, mIE, mie, mip, due, raised, word, bit, again, pend, insvc, ctx, ready, enable,
           mcause, pc, scause, epc, sie, spie, ext>>

BootPc    == {"vectors", "init_timer", "enable_timer", "init_eip", "set_mie", "enter_s"}
Clearing  == {"read", "read_bit", "read_word", "withdraw"}     \* in plic_clear_intr
HandlerPc == {"clear_sip", "custom", "complete", "reenable", "ret"} \cup Clearing

NoneEnabled == [c \in {"M", "S"} |-> {}]

-----------------------------------------------------------------------------
(* Interrupt conditions.                                                   *)

\* What the claim register of context c offers: enabled pending sources.
Claimable(c) == IF ready THEN pend \cap enable[c] ELSE {}
Line(c) == Claimable(c) # {}

MPending == (IF due <= 0 THEN {"MTI"} ELSE {}) \cup
            (IF Line("M") THEN {"MEI"} ELSE {})

MEnabled == (IF "MTIE" \in mie THEN {"MTI"} ELSE {}) \cup
            (IF "MEIE" \in mie THEN {"MEI"} ELSE {})

\* Machine interrupts cannot be masked from supervisor mode.
MTakeable == IF pc \in BootPc /\ ~mIE THEN {} ELSE MPending \cap MEnabled

\* The PLIC's supervisor context drives SEIP beside the writable bit.
SPending(c) == CASE c = "SEI" -> "SEIP" \in mip \/ Line("S")
                 [] c = "SSI" -> "SSIP" \in mip
                 [] c = "STI" -> "STIP" \in mip

SEnabled(c) == CASE c = "SEI" -> "SEIE" \in mie
                 [] c = "SSI" -> "SSIE" \in mie
                 [] c = "STI" -> "STIE" \in mie

Above(c) == CASE c = "SEI" -> {} [] c = "SSI" -> {"SEI"} [] c = "STI" -> {"SEI", "SSI"}

STakeable(c) == /\ SPending(c) /\ SEnabled(c)
                /\ \A d \in Above(c) : ~(SPending(d) /\ SEnabled(d))

\* Supervisor interrupt c is taken now, if no machine interrupt is.
SInterrupt(c) == pc \notin BootPc \cup {"halt"} /\ sie /\ STakeable(c)

\* The code below machine mode executes its next instruction.
Runs == mcause = "none"

\* The program below the handlers does: after an sret or a CSR write, a
\* takeable supervisor interrupt comes before the next instruction.
ProgramRuns == /\ Runs /\ pc = "main"
               /\ \A c \in {"SEI", "SSI", "STI"} : ~SInterrupt(c)

-----------------------------------------------------------------------------
(* Boot: _cte_init and __am_init_cte64, in machine mode up to sret.        *)

\* malloc() before _cte_init leaves mstatus.MIE set: release() sets it always.
Init == /\ vec = {} /\ mie = {} /\ mip = {}
        /\ mIE \in BOOLEAN
        /\ due = 0
        /\ raised = {} /\ word = {} /\ bit = {} /\ again = FALSE
        /\ pend = {} /\ insvc = {}
        /\ ctx \in Contexts /\ ready = FALSE /\ enable = NoneEnabled
        /\ mcause = "none" /\ pc = "vectors" /\ scause = "none"
        /\ epc = "main" /\ sie = FALSE /\ spie = FALSE
        /\ ext \in ExtHandlers

InitVectors == /\ Runs /\ pc = "vectors"
               /\ vec' = vec \cup {"stvec", "mtvec"}
               /\ pc' = "init_timer"
               /\ UNCHANGED <<csrs, due, plic, mcause, trap, sie, ext>>

InitTimer == /\ Runs /\ pc = "init_timer"
             /\ due' = Inc
             /\ vec' = vec \cup {"mscratch"}
             /\ pc' = "enable_timer"
             /\ UNCHANGED <<csrs, plic, mcause, trap, sie, ext>>
\* Mutation of EnableTimer: the mask leaves STIE out.
EnableTimerNoStie ==
  /\ Runs /\ pc = "enable_timer"
  /\ mie' = IF TimerOn THEN mie \cup {"MTIE", "SSIE"} ELSE mie
  /\ pc' = "init_eip"
  /\ UNCHANGED <<vec, mIE, mip, due, plic, mcause, trap, sie, ext>>

EnableTimer == /\ Runs /\ pc = "enable_timer"
               /\ mie' = IF TimerOn THEN mie \cup {"MTIE", "STIE", "SSIE"} ELSE mie
               /\ pc' = "init_eip"
               /\ UNCHANGED <<vec, mIE, mip, due, plic, mcause, trap, sie, ext>>

InitEip == /\ Runs /\ pc = "init_eip"
           /\ mie' = mie \cup {"MEIE"}
           /\ pc' = "set_mie"
           /\ UNCHANGED <<vec, mIE, mip, due, plic, mcause, trap, sie, ext>>

SetMie == /\ Runs /\ pc = "set_mie"
          /\ mIE' = TRUE
          /\ pc' = "enter_s"
          /\ UNCHANGED <<vec, mie, mip, due, plic, mcause, trap, sie, ext>>
\* Mutation of EnterS: SPIE is set in the sstatus written before the sret.
EnterSUnmasked ==
  /\ Runs /\ pc = "enter_s"
  /\ sie' = TRUE
  /\ pc' = "install"
  /\ UNCHANGED <<vec, csrs, due, plic, mcause, trap, ext>>

\* csrw sstatus, SPP(S) clears SPIE, so the sret enters with SIE clear.
EnterS == /\ Runs /\ pc = "enter_s"
          /\ sie' = FALSE
          /\ pc' = "install"
          /\ UNCHANGED <<vec, csrs, due, plic, mcause, trap, ext>>

Install == /\ Runs /\ pc = "install"
           /\ vec' = vec \cup {"tables"}
           /\ pc' = "main"
           /\ UNCHANGED <<csrs, due, plic, mcause, trap, sie, ext>>

Boot == \/ InitVectors \/ InitTimer \/ EnableTimer \/ InitEip \/ SetMie \/ EnterS \/ Install

-----------------------------------------------------------------------------
(* The machine-mode vector, mtime.S.                                       *)

\* The external interrupt has the higher priority.
MTake(c) == /\ Runs /\ c \in MTakeable
            /\ c = "MTI" => "MEI" \notin MTakeable
            /\ mcause' = c
            /\ UNCHANGED <<vec, csrs, due, plic, sregs>>


\* csrw mip, 32 sets STIP and writes zero to SEIP and SSIP.
IsTimer == /\ mcause = "MTI"
           /\ due' = due + Inc
           /\ mip' = {"STIP"}
           /\ mcause' = "none"
           /\ UNCHANGED <<vec, mIE, mie, plic, sregs>>
\* Mutation of IsExt: MEIE is masked but the request is not passed on.
IsExtDrops ==
  /\ mcause = "MEI"
  /\ mie' = mie \ {"MEIE"}
  /\ mcause' = "none"
  /\ UNCHANGED <<vec, mIE, mip, due, plic, sregs>>

\* Everything that is neither a timer interrupt nor an illegal instruction.
IsExt == /\ mcause = "MEI"
         /\ mie' = mie \ {"MEIE"}
         /\ mip' = mip \cup {"SEIP"}
         /\ mcause' = "none"
         /\ UNCHANGED <<vec, mIE, due, plic, sregs>>
\* Mutation of IsIllegal: only the timer bit is cleared.
IsIllegalKeepsSeip ==
  /\ mcause = "ILL"
  /\ mie' = mie \cup {"MEIE"}
  /\ mip' = mip \ {"STIP"}
  /\ mcause' = "none"
  /\ UNCHANGED <<vec, mIE, due, plic, sregs>>

\* Mutation of IsIllegal: MEIE is not set again.
IsIllegalKeepsMask ==
  /\ mcause = "ILL"
  /\ mip' = mip \ {"SEIP", "STIP"}
  /\ mcause' = "none"
  /\ UNCHANGED <<vec, mIE, mie, due, plic, sregs>>

\* Every illegal instruction is taken for the request to unmask MEIE.
IsIllegal == /\ mcause = "ILL"
             /\ mie' = mie \cup {"MEIE"}
             /\ mip' = mip \ {"SEIP", "STIP"}
             /\ mcause' = "none"
             /\ UNCHANGED <<vec, mIE, due, plic, sregs>>

Machine == \/ \E c \in {"MTI", "MEI"} : MTake(c)
           \/ IsTimer \/ IsExt \/ IsIllegal

-----------------------------------------------------------------------------
(* Supervisor traps: trap.S, __am_irq_handle and the default handlers.     *)


\* The hardware latches cause, return address and SIE, and clears SIE.
EnterTrap(c, entry) == /\ scause' = c
                       /\ epc' = pc
                       /\ spie' = sie
                       /\ sie' = FALSE
                       /\ pc' = entry

\* A pending machine interrupt is taken before a supervisor one.
STake(c) == /\ Runs /\ SInterrupt(c) /\ MTakeable = {}
            /\ EnterTrap(c, "clear_sip")
            /\ UNCHANGED <<vec, csrs, due, plic, mcause, ext>>

\* csrwi sip, 0: of the three bits only SSIP is writable from here.
ClearSip == /\ Runs /\ pc = "clear_sip"
            /\ mip' = mip \ {"SSIP"}
            /\ pc' = "custom"
            /\ UNCHANGED <<vec, mIE, mie, due, plic, mcause, trap, sie, ext>>

\* The second-level software and timer handlers only print; csrs mie, 0 follows.
CustomDone == /\ Runs /\ pc = "custom" /\ scause \in {"SSI", "STI"}
              /\ pc' = "reenable"
              /\ UNCHANGED <<vec, csrs, due, plic, mcause, trap, sie, ext>>

\* An external handler that does not claim leaves everything as it is.
CustomExtDone == /\ Runs /\ pc = "custom" /\ scause = "SEI"
                 /\ ext # "claim"
                 /\ pc' = "ret"
                 /\ UNCHANGED <<vec, csrs, due, plic, mcause, trap, sie, ext>>

\* do_ext_intr reads the claim register; zero means "ERROR: no claim?".
ExtClaim == /\ Runs /\ pc = "custom" /\ scause = "SEI"
            /\ ext = "claim"
            /\ IF ~Line(ctx)
                 THEN pc' = "halt" /\ UNCHANGED <<pend, insvc>>
                 ELSE \E i \in Claimable(ctx) : /\ pend' = pend \ {i}
                                                /\ insvc' = insvc \cup {i}
                                                /\ pc' = "read"
            /\ UNCHANGED <<vec, csrs, due, gen, route, mcause, trap, sie, ext>>

\* plic_clear_intr: CLEAR_INTR loads INTR_GEN twice, as both operands of its ^, in
\* either order.  One load is the word, with the bits of the other sources too,
ReadWord == /\ Runs /\ pc \in {"read", "read_word"}
            /\ word' = raised
            /\ pc' = IF pc = "read" THEN "read_bit" ELSE "withdraw"
            /\ UNCHANGED <<vec, csrs, due, raised, bit, again, pend, insvc, route,
                           mcause, trap, sie, ext>>

\* and the other is masked down to the bit of the claimed source.
ReadBit == /\ Runs /\ pc \in {"read", "read_bit"}
           /\ bit' = raised \cap insvc
           /\ pc' = IF pc = "read" THEN "read_word" ELSE "withdraw"
           /\ UNCHANGED <<vec, csrs, due, raised, word, again, pend, insvc, route,
                          mcause, trap, sie, ext>>
\* Mutation of ExtWithdraw: the word is written back as it was read.
ExtWithdrawForgotten ==
  /\ Runs /\ pc = "withdraw"
  /\ raised' = word
  /\ word' = {} /\ bit' = {} /\ again' = FALSE
  /\ pc' = "complete"
  /\ UNCHANGED <<vec, csrs, due, pend, insvc, route, mcause, trap, sie, ext>>

\* The word is written back without the bit.  Bits set since the word was read are
\* lost; the claimed source's bit stays, or comes back, when just one load saw it.
\* word and bit are dead from here on.
ExtWithdraw == /\ Runs /\ pc = "withdraw"
               /\ raised' = (word \ bit) \cup (bit \ word)
               /\ word' = {} /\ bit' = {} /\ again' = FALSE
               /\ pc' = "complete"
               /\ UNCHANGED <<vec, csrs, due, pend, insvc, route, mcause, trap, sie, ext>>

\* plic_clear_claim: the gateway samples the line again.
ExtComplete == /\ Runs /\ pc = "complete"
               /\ insvc' = {}
               /\ pend' = pend \cup (insvc \cap raised)
               /\ pc' = "reenable"
               /\ UNCHANGED <<vec, csrs, due, gen, route, mcause, trap, sie, ext>>
\* Mutation of Reenable: the handler forgets csrs mie, 0.
ReenableForgotten ==
  /\ Runs /\ pc = "reenable"
  /\ pc' = "ret"
  /\ UNCHANGED <<vec, csrs, due, plic, mcause, trap, sie, ext>>

\* csrs mie, 0 is illegal here and enters machine mode.
Reenable == /\ Runs /\ pc = "reenable"
            /\ mcause' = "ILL"
            /\ pc' = "ret"
            /\ UNCHANGED <<vec, csrs, due, plic, trap, sie, ext>>

\* The frame's sstatus comes back, then sret.
Sret == /\ Runs /\ pc = "ret"
        /\ sie' = spie
        /\ scause' = "none"
        /\ pc' = epc
        /\ UNCHANGED <<vec, csrs, due, plic, mcause, epc, spie, ext>>

Handler == \/ ClearSip \/ CustomDone \/ CustomExtDone
           \/ ExtClaim \/ ReadWord \/ ReadBit \/ ExtWithdraw \/ ExtComplete
           \/ Reenable \/ Sret

-----------------------------------------------------------------------------
(* The program below the handlers.                                         *)

IntrWrite(b) == /\ ProgramRuns
                /\ sie' = b
                /\ UNCHANGED <<vec, csrs, due, plic, mcause, pc, trap, ext>>

\* csrs sie, 1<<9 (extintr.c) and csrs sie, 1<<1 (soft_intr.c).
EnableSie(b) == /\ ProgramRuns
                /\ mie' = mie \cup {b}
                /\ UNCHANGED <<vec, mIE, mip, due, plic, mcause, sregs>>

\* csrw sip, 2 (soft_intr.c).
RaiseSoft == /\ ProgramRuns
             /\ mip' = mip \cup {"SSIP"}
             /\ UNCHANGED <<vec, mIE, mie, due, plic, mcause, sregs>>

\* seip_handler_reg
RegisterExt(h) == /\ ProgramRuns
                  /\ ext' = h
                  /\ UNCHANGED <<vec, csrs, due, plic, mcause, pc, trap, sie>>

Routing == /\ ProgramRuns
           /\ UNCHANGED <<vec, csrs, due, gen, pend, insvc, mcause, sregs>>

\* plic_intr_init: priorities above the thresholds, nothing enabled.
PlicInit == /\ Routing
            /\ ready' = TRUE /\ enable' = NoneEnabled
            /\ UNCHANGED ctx

\* external_trigger and random_trigger choose the context of the calls to come.
SetContext(c) == /\ Routing
                 /\ ctx' = c
                 /\ UNCHANGED <<ready, enable>>

\* plic_enable of one source; random_trigger stores whole words of ones.
PlicEnable(I) == /\ Routing
                 /\ enable' = [enable EXCEPT ![ctx] = @ \cup I]
                 /\ UNCHANGED <<ctx, ready>>
\* Mutation of PlicDisable: the enable word is always that of context S.
PlicDisableInS(i) ==
  /\ Routing
  /\ enable' = [enable EXCEPT !["S"] = (@ \ {i}) \cup ({i} \ @)]
  /\ UNCHANGED <<ctx, ready>>

\* plic_disable toggles the bit.
PlicDisable(i) == /\ Routing
                  /\ enable' = [enable EXCEPT ![ctx] = (@ \ {i}) \cup ({i} \ @)]
                  /\ UNCHANGED <<ctx, ready>>

\* The ecall of _yield is delegated; the handler steps sepc over it.
Yield == /\ ProgramRuns
         /\ EnterTrap("ECALL", "ret")
         /\ UNCHANGED <<vec, csrs, due, plic, mcause, ext>>

\* lock() and release() touch mstatus, which is illegal in supervisor mode;
\* malloc or atomic_printf may be called by the program and by its handlers.
TouchMstatus == /\ KlibLock
                /\ ProgramRuns \/ (Runs /\ pc = "custom")
                /\ mcause' = "ILL"
                /\ UNCHANGED <<vec, csrs, due, plic, sregs>>

\* The driver's users keep to this: what may be asking for an interrupt is not
\* disabled, and the context is changed while nothing is enabled.
PlicCall == \/ ~Line(ctx) /\ PlicInit
            \/ \E I \in SUBSET Src : PlicEnable(I)
            \/ \E i \in Src \ pend : PlicDisable(i)
            \/ enable = NoneEnabled /\ \E c \in Contexts : SetContext(c)

Main == \/ \E b \in BOOLEAN : IntrWrite(b)
        \/ \E b \in {"SEIE", "SSIE"} : EnableSie(b)
        \/ \E h \in ExtHandlers : RegisterExt(h)
        \/ PlicCall
        \/ RaiseSoft \/ Yield \/ TouchMstatus

-----------------------------------------------------------------------------
(* The devices.                                                            *)

\* mtime advances; MaxLag bounds how late the hart may be.
Tick == /\ TimerOn /\ due > -MaxLag
        /\ due' = due - 1
        /\ UNCHANGED <<vec, csrs, plic, mcause, sregs>>

\* plic_set_intr, or the random generator of the test bench: the gateway
\* forwards the request, which then no longer needs the INTR_GEN bit, unless the
\* source is in service.
Raise(i) == /\ i \notin raised
            /\ raised' = raised \cup {i}
            /\ pend' = IF i \in insvc THEN pend ELSE pend \cup {i}
            /\ again' = (again \/ (i \in insvc /\ pc \in Clearing))
            /\ UNCHANGED <<vec, csrs, due, word, bit, insvc, route, mcause, sregs>>

Devices == Tick \/ \E i \in Src : Raise(i)

Next == \/ Boot \/ Machine
        \/ \E c \in {"SEI", "SSI", "STI"} : STake(c)
        \/ Handler \/ Main \/ Devices

Spec == Init /\ [][Next]_vars

(***************************************************************************)
(* The hart does not stop, and a pending and enabled interrupt is taken.   *)
(* The program masks interrupts only for a while and enables the external  *)
(* one; it may lose the hart to an interrupt each time it is about to, so  *)
(* strong fairness is what "does not mask them for ever" means.            *)
(***************************************************************************)
HartFairness == /\ WF_vars(Boot) /\ WF_vars(Machine) /\ WF_vars(Handler)
                /\ WF_vars(\E c \in {"SEI", "SSI", "STI"} : STake(c))
ProgramFairness == SF_vars(IntrWrite(TRUE)) /\ SF_vars(EnableSie("SEIE"))

FairSpec == Spec /\ HartFairness /\ ProgramFairness

-----------------------------------------------------------------------------
(* Properties.                                                             *)

TypeOK == /\ vec \subseteq {"stvec", "mtvec", "mscratch", "tables"}
          /\ mIE \in BOOLEAN
          /\ mie \subseteq {"MTIE", "MEIE", "STIE", "SSIE", "SEIE"}
          /\ mip \subseteq {"STIP", "SSIP", "SEIP"}
          /\ due \in Int
          /\ raised \subseteq Src /\ word \subseteq Src /\ bit \subseteq Src
          /\ again \in BOOLEAN /\ ready \in BOOLEAN
          /\ enable \in [{"M", "S"} -> SUBSET Src]
          /\ pend \subseteq Src /\ insvc \subseteq Src
          /\ ctx \in Contexts
          /\ mcause \in {"none", "MTI", "MEI", "ILL"}
          /\ pc \in BootPc \cup HandlerPc \cup {"install", "main", "halt"}
          /\ scause \in {"none", "SEI", "SSI", "STI", "ECALL"}
          /\ epc \in BootPc \cup HandlerPc \cup {"install", "main", "halt"}
          /\ sie \in BOOLEAN /\ spie \in BOOLEAN
          /\ ext \in ExtHandlers

\* No trap is taken through an entry point that boot has not set up yet: the
\* machine vector needs mtvec and mscratch (mtime.S loads its save area from
\* there), the supervisor entry needs stvec and the handler tables, which
\* _cte_init fills only after it has already entered supervisor mode.
VectorsReady == /\ mcause # "none" => {"mtvec", "mscratch"} \subseteq vec
                /\ pc \in HandlerPc => {"stvec", "tables"} \subseteq vec

\* While machine mode has masked external interrupts (MEIE is clear after boot)
\* and do_ext_intr is registered, what sets MEIE again is under way or pending:
\* the illegal instruction itself; a handler that still has it ahead, which the
\* software, the timer and the claiming external handler do; or a pending
\* supervisor interrupt with such a handler.  That is SEIP, and then there is a
\* source to claim, or a tick, which has wiped SEIP out of mip but is enabled.
\* An external handler that does not claim has no such instruction, so nothing is
\* promised while one of those is registered.
MaskedRecoverable ==
  (/\ pc \notin {"vectors", "init_timer", "enable_timer", "init_eip"}
   /\ "MEIE" \notin mie /\ ext = "claim")
    => \/ mcause = "ILL"
       \/ pc \in HandlerPc \ {"ret"}
       \/ "SEIP" \in mip /\ Line(ctx)
       \/ "STIP" \in mip /\ "STIE" \in mie

\* do_ext_intr always finds a source to claim (extintr.c halts otherwise), even
\* though SEIP outlives the claim until the next illegal instruction.
ClaimFinds == pc # "halt"

\* At most one source is in service, only between claim and completion, and it
\* is not pending again before it is completed.
OneClaim == /\ insvc # {} <=> pc \in Clearing \cup {"complete"}
            /\ \A i, j \in insvc : i = j
            /\ insvc \cap pend = {}

\* With the timer off, as the external interrupt test runs, a request of an enabled
\* source reaches the handler: plic_set_intr is followed by a claim.
Delivered == Line(ctx) ~> (insvc # {})

\* Machine mode masks external interrupts only for a while: with the timer off and
\* do_ext_intr registered, MEIE is set again each time IsExt has cleared it.
MaskingEnds == (pc \notin BootPc /\ "MEIE" \notin mie) ~> ("MEIE" \in mie)

\* Once the devices are quiet, the program gets the hart back again and again:
\* no interrupt level is left asserted by the handlers.
ProgramResumes == (<>[](raised = {})) => []<>ProgramRuns

\* The default external handler clears the request it was entered for, so that
\* the program can go on (docs/interrupt_handle_reg.md:31 and :33).
HandlerClears == []<>ProgramRuns

\* A tick that machine mode has passed on stays pending until supervisor mode
\* handles it (docs/interrupt_handle_reg.md:13).
TickIsHandled ==
  [][("STIP" \in mip /\ "STIP" \notin mip') => scause = "STI"]_vars

\* Interrupts are delivered as the abstract specification says, although clearing
\* one INTR_GEN bit may wipe out others, or set that bit: a source has a request
\* while its bit is set, while it is pending in the PLIC, and after its claim until
\* withdrawal.
Wanted == raised \cup pend \cup (IF pc \in Clearing THEN insvc ELSE {})
Delivery == INSTANCE IrqDelivery WITH wanted <- Wanted, withdrawn <- pc = "complete"
DeliverySpec == Delivery!Spec
=============================================================================
