------------------------------ MODULE NativeCte ------------------------------
(***************************************************************************)
(* Traps of the native port (cte.c) on one processor, on top of NativeVme: *)
(* a signal saves the context it meets on a stack, irq_handle lets the     *)
(* program's handler choose the context to go on with, __am_switch puts    *)
(* that context's address space in force, and iret, a signal once more,    *)
(* restores it.  While user code runs, the processor's physical memory is  *)
(* protected (__am_pmem_protect).                                          *)
(*                                                                         *)
(* A context runs on the stack of a thread: the boot thread, a kernel      *)
(* thread (_kcontext) or the process of a space (_ucontext), which has one *)
(* kernel stack.  A handler may trap again, so that a stack can hold more  *)
(* than one context; what the handler computes is left open.               *)
(*                                                                         *)
(* Two things are the program's duty, as the code does not see to them: it *)
(* calls _map, and returns from its handler, with interrupts off.          *)
(*                                                                         *)
(* Instead, __am_switch and _map may be called in any order, without traps.*)
(***************************************************************************)
EXTENDS NativeVme, Sequences, SequencesExt

CONSTANTS
  Boot, KThread,   \* the thread that runs main, and those _kcontext makes
  CteVa, CteNodes, \* bound: pages and nodes that _map gets below traps
  MaxDepth         \* bound: contexts on one stack

ASSUME CteAssumption == /\ \E c \in Cpu : Cpu = {c}
                        /\ Boot \notin KThread /\ Nil \notin KThread \cup {Boot}
                        /\ Space \cap (KThread \cup {Boot}) = {}
                        /\ CteVa \subseteq Va /\ CteNodes \in Nat /\ MaxDepth \in Nat \ {0}

VARIABLES
  traps,        \* does the program use traps?
  run,          \* the thread on whose stack, or in whose user code, the processor is
  user,         \* it executes user code
  off,          \* SIGVTALRM and SIGUSR1 are blocked
  ksp,          \* thiscpu->ksp, as the thread whose kernel stack it ends
  frames,       \* per thread: the contexts saved on its kernel stack
  locked,       \* physical memory is PROT_NONE
  target        \* thread whose context irq_handle returns to, or Nil

cvars == <<run, user, off, ksp, frames, locked, target>>
allvars == <<vars, traps, cvars>>

Thread == Space \cup KThread \cup {Boot}
This   == CHOOSE c \in Cpu : TRUE

\* A saved context: the fields of _Context that traps look at.
Context(u, o, h, k) == [user |-> u, off |-> o, head |-> h, ksp |-> k]

\* _cte_init has installed the signal handlers, with interrupts off.
CteInit == /\ Init
           /\ traps \in BOOLEAN
           /\ run = Boot /\ user = FALSE /\ off = TRUE
           /\ ksp = Nil
           /\ frames = [t \in Thread |-> <<>>]
           /\ locked = FALSE
           /\ target = Nil

-----------------------------------------------------------------------------
(* What kernel code does: the program, or a handler above saved contexts.  *)

KernelRuns == traps /\ ~user /\ target = Nil /\ pc[This] = "idle"

InitVme    == KernelRuns /\ VmeInit /\ UNCHANGED <<traps, cvars>>
NewSpace(s) == KernelRuns /\ Protect(s) /\ UNCHANGED <<traps, cvars>>
MapPage(s, v, p) == /\ KernelRuns /\ off /\ used < CteNodes
                    /\ Map(This, s, v, p)
                    /\ UNCHANGED <<traps, cvars>>

SetOff(b) == /\ KernelRuns
             /\ off' = b
             /\ UNCHANGED <<vars, traps, run, user, ksp, frames, locked, target>>

\* _ucontext, on an empty kernel stack.
UContext(s) == /\ KernelRuns /\ s \in heads /\ frames[s] = <<>> /\ run # s
               /\ frames' = [frames EXCEPT ![s] = <<Context(TRUE, FALSE, s, s)>>]
               /\ UNCHANGED <<vars, traps, run, user, off, ksp, locked, target>>

\* _kcontext leaves ksp as it finds it.
KContext(k) == /\ KernelRuns /\ frames[k] = <<>> /\ run # k
               /\ frames' = [frames EXCEPT ![k] = <<Context(FALSE, FALSE, Nil, Nil)>>]
               /\ UNCHANGED <<vars, traps, run, user, off, ksp, locked, target>>

Kernel == \/ InitVme
          \/ \E s \in Space : NewSpace(s) \/ UContext(s)
          \/ \E s \in heads, v \in CteVa, p \in Pa : MapPage(s, v, p)
          \/ \E k \in KThread : KContext(k)
          \/ \E b \in BOOLEAN : SetOff(b)

-----------------------------------------------------------------------------
(* Traps: sig_handler, setup_stack and the beginning of irq_handle.        *)

\* A context of user code goes to the end of the kernel stack, one of kernel code
\* below what is on the stack in use.
Save(c) == IF user
             THEN /\ run' = ksp
                  /\ frames' = [frames EXCEPT ![ksp] = <<c>>]
             ELSE /\ run' = run
                  /\ frames' = [frames EXCEPT ![run] = Append(@, c)]

\* The signal leaves its handler with interrupts blocked.
Enter == /\ traps /\ target = Nil /\ pc[This] = "idle"
         /\ Len(frames[run]) < MaxDepth
         /\ Save(Context(user, off, vmHead[This], ksp))
         /\ locked' = (locked /\ ~user)
         /\ user' = FALSE /\ off' = TRUE
         /\ UNCHANGED <<vars, traps, ksp, target>>

\* _yield, a system call or a page fault.
Fault == Enter
\* SIGVTALRM or SIGUSR1.  One that meets a shared library is refused, and changes
\* nothing.
Interrupt == ~off /\ Enter

-----------------------------------------------------------------------------
(* The rest of irq_handle, and iret.                                       *)

\* The handler returns a context, this thread's latest or another's.
Choose(t) == /\ KernelRuns /\ off
             /\ frames[run] # <<>> /\ frames[t] # <<>>
             /\ target' = t
             /\ UNCHANGED <<vars, traps, run, user, off, ksp, frames, locked>>

Chosen == Last(frames[target])

\* __am_switch
SwitchSpace == /\ target # Nil
               /\ Switch(This, Chosen.head)
               /\ UNCHANGED <<traps, cvars>>

\* Mutation of Iret: ksp is not restored.
IretKeepsKsp ==
  /\ target # Nil /\ pc[This] = "idle"
  /\ enabled => Chosen.head = vmHead[This]
  /\ run' = target /\ target' = Nil
  /\ user' = Chosen.user /\ off' = Chosen.off /\ UNCHANGED ksp
  /\ frames' = [frames EXCEPT ![target] = Front(@)]
  /\ locked' = (locked \/ (Chosen.user /\ enabled /\ vmHead[This] # Nil))
  /\ UNCHANGED <<vars, traps>>

\* Mutation of Iret: memory is protected by what the processor leaves, not by what
\* it returns to.
IretForgetsProtect ==
  /\ target # Nil /\ pc[This] = "idle"
  /\ enabled => Chosen.head = vmHead[This]
  /\ run' = target /\ target' = Nil
  /\ user' = Chosen.user /\ off' = Chosen.off /\ ksp' = Chosen.ksp
  /\ frames' = [frames EXCEPT ![target] = Front(@)]
  /\ UNCHANGED <<vars, traps, locked>>

\* The magic call restores the context and takes it off the stack.
Iret == /\ target # Nil /\ pc[This] = "idle"
        /\ enabled => Chosen.head = vmHead[This]
        /\ run' = target /\ target' = Nil
        /\ user' = Chosen.user /\ off' = Chosen.off /\ ksp' = Chosen.ksp
        /\ frames' = [frames EXCEPT ![target] = Front(@)]
        /\ locked' = (locked \/ (Chosen.user /\ enabled /\ vmHead[This] # Nil))
        /\ UNCHANGED <<vars, traps>>

Leave == SwitchSpace \/ Iret

-----------------------------------------------------------------------------

VmeStep == Working(This) /\ UNCHANGED <<traps, cvars>>

CteNext == \/ Kernel \/ Fault \/ Interrupt
           \/ \E t \in Thread : Choose(t)
           \/ Leave
           \/ traps /\ VmeStep
           \/ ~traps /\ Next /\ UNCHANGED <<traps, cvars>>

CteSpec == CteInit /\ [][CteNext]_allvars

\* _map and irq_handle run to their end.
CteFairSpec == /\ CteSpec
               /\ WF_allvars(VmeStep) /\ WF_allvars(Leave)

-----------------------------------------------------------------------------
(* Properties.                                                             *)

CteTypeOK == /\ TypeOK
             /\ traps \in BOOLEAN /\ user \in BOOLEAN /\ off \in BOOLEAN /\ locked \in BOOLEAN
             /\ run \in Thread /\ ksp \in Thread \cup {Nil} /\ target \in Thread \cup {Nil}
             /\ \A t \in Thread : /\ Len(frames[t]) \in 0..MaxDepth
                                  /\ Range(frames[t]) \subseteq
                                       [user : BOOLEAN, off : BOOLEAN,
                                        head : heads \cup {Nil}, ksp : Thread \cup {Nil}]

\* The space a thread's code has to run in.
Home(t) == IF t \in Space THEN t ELSE Nil

\* Whoever runs, runs in its own space; user code, moreover, with a kernel stack of its
\* own that is empty, so that the next trap overwrites no saved context, and with
\* interrupts on.
RunsAtHome ==
  traps /\ target = Nil /\ pc[This] = "idle" =>
    /\ vmHead[This] = Home(run)
    /\ user => ksp = run /\ frames[run] = <<>> /\ ~off

\* User code never runs with the physical memory open, nor kernel code with it shut.
UserIsWalled == user <=> locked

\* A handler that has chosen a context gets there: the switch ends, and the context
\* is still there.
TrapReturns == target # Nil ~> target = Nil
=============================================================================
