------------------------- MODULE NativePort_proofs -------------------------
(***************************************************************************)
(* The rest of the native port, and the keyboard of NOOP, each for every   *)
(* value of its constants: traps and the contexts they save, on top of     *)
(* NativeVme_proofs; the audio ring, whose lost updates never drive count  *)
(* out of its range; the key queue under its mutex; the keyboard on a      *)
(* serial line.  At the end, the port as the runs put it together.         *)
(***************************************************************************)
EXTENDS MCNativeCte, NativeVme_proofs, SequenceTheorems, FiniteSetTheorems, TLAPS

-----------------------------------------------------------------------------
(* Traps.  Whatever they do to the lists, they do by the operations below. *)

LEMMA OneCpu == OneProcessor
  BY CteAssumption DEF OneProcessor

LEMMA ThisIsTheCpu == This \in Cpu /\ \A c \in Cpu : c = This
  BY CteAssumption DEF This

\* What __am_switch and _map do to the state that traps look at.
CpuInv ==
  /\ enabled \in BOOLEAN /\ heads \subseteq Space /\ (~enabled => heads = {})
  /\ pc \in [Cpu -> {"idle", "unmap", "enforce"} \cup Insertion]
  /\ vmHead \in [Cpu -> heads \cup {Nil}] /\ head \in [Cpu -> Space \cup {Nil}]
  /\ pc[This] \in {"unmap", "enforce"} => head[This] \in heads \cup {Nil}

\* A context on the stack of t belongs into t's space; one of user code lies at the end
\* of the kernel stack, and remembers that stack and interrupts on.
Saved == [user : BOOLEAN, off : BOOLEAN, head : Space \cup {Nil}, ksp : Thread \cup {Nil}]
RightContext(t, i, c) ==
  /\ c.head = Home(t) /\ (t \in Space => t \in heads)
  /\ c.user => i = 1 /\ t \in Space /\ c.ksp = t /\ ~c.off
FramesInv == /\ frames \in [Thread -> Seq(Saved)]
             /\ \A t \in Thread : \A i \in 1..Len(frames[t]) : RightContext(t, i, frames[t][i])

\* Until a handler has chosen, the processor stays in the space of the thread; from then on
\* there is a context to go to.
CteInv ==
  /\ CpuInv /\ FramesInv
  /\ traps \in BOOLEAN /\ user \in BOOLEAN /\ off \in BOOLEAN /\ locked \in BOOLEAN
  /\ run \in Thread /\ ksp \in Thread \cup {Nil} /\ target \in Thread \cup {Nil}
  /\ traps /\ target = Nil => pc[This] \in {"idle"} \cup Insertion /\ vmHead[This] = Home(run)
  /\ target # Nil => /\ traps /\ ~user /\ frames[target] # <<>>
                     /\ pc[This] \in {"idle", "unmap", "enforce"}
  /\ user => /\ traps /\ target = Nil /\ pc[This] = "idle"
             /\ run \in Space /\ ksp = run /\ frames[run] = <<>> /\ ~off
  /\ UserIsWalled

LEMMA CteInitInv == CteInit => CteInv
  <1> SUFFICES ASSUME CteInit
               PROVE  CteInv
    OBVIOUS
  <1>1. CpuInv
    BY ThisIsTheCpu DEF CteInit, Init, CpuInv
  <1>2. FramesInv
    <2>1. <<>> \in Seq(Saved) /\ Len(<<>>) = 0
      OBVIOUS
    <2> QED
      BY <2>1 DEF CteInit, FramesInv
  <1>3. Boot \in Thread /\ Home(Boot) = Nil
    BY CteAssumption DEF Thread, Home
  <1>4. pc[This] = "idle" /\ vmHead[This] = Nil
    BY ThisIsTheCpu DEF CteInit, Init
  <1> QED
    BY <1>1, <1>2, <1>3, <1>4 DEF CteInit, CteInv, UserIsWalled

\* The context irq_handle goes on with.
LEMMA ChosenContext ==
  ASSUME CteInv, target # Nil
  PROVE  /\ Chosen \in Saved /\ Chosen.head = Home(target) /\ Chosen.head \in heads \cup {Nil}
         /\ Chosen.user => /\ target \in Space /\ Chosen.ksp = target /\ ~Chosen.off
                           /\ Len(frames[target]) = 1
  <1>1. target \in Thread /\ frames[target] \in Seq(Saved) /\ frames[target] # <<>>
    BY DEF CteInv, FramesInv
  <1>2. Len(frames[target]) \in 1..Len(frames[target]) /\ Chosen \in Saved
    BY <1>1, EmptySeq, ElementOfSeq DEF Chosen, Last
  <1>3. RightContext(target, Len(frames[target]), Chosen)
    BY <1>1, <1>2 DEF CteInv, FramesInv, Chosen, Last
  <1> QED
    BY <1>2, <1>3 DEF RightContext, Home

LEMMA CteStepIsStep ==
  ASSUME CteInv, [CteNext]_allvars
  PROVE  [Next]_vars
  <1>1. CASE Kernel
    <2>1. CASE InitVme
      BY <2>1 DEF InitVme, Next
    <2>2. ASSUME NEW s \in Space, NewSpace(s)
          PROVE  [Next]_vars
      BY <2>2 DEF NewSpace, Next
    <2>3. ASSUME NEW s \in heads, NEW v \in CteVa, NEW p \in Pa, MapPage(s, v, p)
          PROVE  [Next]_vars
      BY <2>3, ThisIsTheCpu, CteAssumption DEF MapPage, Next
    <2> QED
      BY <1>1, <2>1, <2>2, <2>3 DEF Kernel, UContext, KContext, SetOff
  <1>2. CASE Fault \/ Interrupt \/ \E t \in Thread : Choose(t)
    BY <1>2 DEF Fault, Interrupt, Enter, Choose
  <1>3. CASE Leave
    <2>1. CASE Iret
      BY <2>1 DEF Iret
    <2>2. CASE SwitchSpace
      <3>1. Chosen.head \in heads \cup {Nil}
        BY <2>2, ChosenContext DEF SwitchSpace
      <3> QED
        BY <2>2, <3>1, ThisIsTheCpu DEF SwitchSpace, Next
    <2> QED
      BY <1>3, <2>1, <2>2 DEF Leave
  <1>4. CASE VmeStep
    BY <1>4, ThisIsTheCpu DEF VmeStep, Next
  <1> QED
    BY <1>1, <1>2, <1>3, <1>4 DEF CteNext, allvars, vars

\* _map and __am_switch keep to themselves.
LEMMA WorkingStep ==
  ASSUME CpuInv, Working(This)
  PROVE  /\ CpuInv' /\ UNCHANGED <<enabled, heads>>
         /\ pc[This] \in Insertion => pc'[This] \in {"idle"} \cup Insertion /\ vmHead' = vmHead
         /\ pc[This] \notin Insertion => /\ pc[This] \in {"unmap", "enforce"}
                                         /\ pc'[This] \in {"idle", "unmap", "enforce"}
  <1> DEFINE c == This
  <1>0. c \in Cpu
    BY ThisIsTheCpu
  <1> HIDE DEF c
  <1>1. /\ UNCHANGED <<enabled, heads, head>>
        /\ \E p \in {"idle", "unmap", "enforce"} \cup Insertion : pc' = [pc EXCEPT ![c] = p]
        /\ pc[c] \in Insertion => pc'[c] \in {"idle"} \cup Insertion /\ vmHead' = vmHead
        /\ pc[c] \notin Insertion => /\ pc[c] \in {"unmap", "enforce"}
                                     /\ pc'[c] \in {"idle", "unmap", "enforce"}
        /\ vmHead' = vmHead \/ (pc[c] = "enforce" /\ vmHead' = [vmHead EXCEPT ![c] = head[c]])
    <2>1. CASE Unmap(c) \/ UnmapDone(c) \/ Enforce(c) \/ EnforceDone(c)
      BY <1>0, <2>1 DEF Unmap, UnmapDone, Enforce, EnforceDone, At, CpuInv, Insertion
    <2>2. CASE Find(c) \/ NotFound(c) \/ Link(c)
      BY <1>0, <2>2 DEF Find, NotFound, Link, At, CpuInv, Insertion
    <2> QED
      BY <2>1, <2>2 DEF Working, c
  <1>2. vmHead' \in [Cpu -> heads' \cup {Nil}]
    BY <1>0, <1>1 DEF CpuInv, c
  <1>3. pc' \in [Cpu -> {"idle", "unmap", "enforce"} \cup Insertion]
    BY <1>0, <1>1 DEF CpuInv
  <1>4. pc'[c] \in {"unmap", "enforce"} => head'[c] \in heads' \cup {Nil}
    BY <1>1 DEF CpuInv, c, Insertion
  <1> QED
    BY <1>1, <1>2, <1>3, <1>4 DEF CpuInv, c

LEMMA CpuStep ==
  ASSUME CpuInv, [Next]_vars
  PROVE  CpuInv' /\ heads \subseteq heads'
  <1> DEFINE c == This
  <1>0. c \in Cpu /\ \A d \in Cpu : d = c
    BY ThisIsTheCpu
  <1>1. CASE VmeInit
    BY <1>1 DEF VmeInit, CpuInv
  <1>2. ASSUME NEW s \in Space, Protect(s)
        PROVE  CpuInv' /\ heads \subseteq heads'
    BY <1>2 DEF Protect, CpuInv
  <1>3. ASSUME NEW h \in heads \cup {Nil}, Switch(c, h)
        PROVE  CpuInv' /\ heads \subseteq heads'
    BY <1>0, <1>3 DEF Switch, At, CpuInv
  <1>4. ASSUME NEW s \in heads, NEW v \in Va, NEW p \in Pa, Map(c, s, v, p)
        PROVE  CpuInv' /\ heads \subseteq heads'
    BY <1>0, <1>4 DEF Map, At, CpuInv, Insertion
  <1>5. CASE Working(c)
    BY <1>5, WorkingStep
  <1>6. CASE UNCHANGED vars
    BY <1>6 DEF vars, CpuInv
  <1> QED
    BY <1>0, <1>1, <1>2, <1>3, <1>4, <1>5, <1>6 DEF Next

LEMMA FramesStay ==
  ASSUME FramesInv, UNCHANGED frames, heads \subseteq heads'
  PROVE  FramesInv'
  BY DEF FramesInv, RightContext

\* A stack that is empty gets a context.
LEMMA FirstContext ==
  ASSUME FramesInv, NEW t \in Thread, NEW c \in Saved, RightContext(t, 1, c),
         frames' = [frames EXCEPT ![t] = <<c>>], UNCHANGED heads
  PROVE  FramesInv'
  <1>1. <<c>> \in Seq(Saved) /\ Len(<<c>>) = 1 /\ <<c>>[1] = c
    OBVIOUS
  <1>2. frames' \in [Thread -> Seq(Saved)]
    BY <1>1 DEF FramesInv
  <1>3. ASSUME NEW u \in Thread, NEW i \in 1..Len(frames'[u])
        PROVE  RightContext(u, i, frames[u][i])'
    <2>1. CASE u = t
      <3>1. i = 1 /\ frames'[u][i] = c
        BY <1>1, <1>3, <2>1 DEF FramesInv
      <3> QED
        BY <2>1, <3>1 DEF RightContext
    <2>2. CASE u # t
      BY <1>3, <2>2 DEF FramesInv, RightContext
    <2> QED
      BY <2>1, <2>2
  <1> QED
    BY <1>2, <1>3 DEF FramesInv

\* A context of kernel code goes on top.
LEMMA NextContext ==
  ASSUME FramesInv, NEW t \in Thread, NEW c \in Saved,
         \A i \in Nat : RightContext(t, i, c),
         frames' = [frames EXCEPT ![t] = Append(@, c)], UNCHANGED heads
  PROVE  FramesInv' /\ frames'[t] # <<>>
  <1>1. /\ Append(frames[t], c) \in Seq(Saved) /\ Append(frames[t], c) # <<>>
        /\ Len(Append(frames[t], c)) = Len(frames[t]) + 1
        /\ \A i \in 1..Len(frames[t]) : Append(frames[t], c)[i] = frames[t][i]
        /\ Append(frames[t], c)[Len(frames[t]) + 1] = c
    BY AppendProperties DEF FramesInv
  <1>2. frames' \in [Thread -> Seq(Saved)] /\ frames'[t] = Append(frames[t], c)
    BY <1>1 DEF FramesInv
  <1>3. ASSUME NEW u \in Thread, NEW i \in 1..Len(frames'[u])
        PROVE  RightContext(u, i, frames[u][i])'
    <2>1. CASE u = t
      <3>1. Len(frames[t]) \in Nat
        BY DEF FramesInv
      <3>2. CASE i <= Len(frames[t])
        BY <1>1, <1>2, <1>3, <2>1, <3>1, <3>2 DEF FramesInv, RightContext
      <3>3. CASE i = Len(frames[t]) + 1
        <4>1. frames'[u][i] = c /\ i \in Nat
          BY <1>1, <1>2, <2>1, <3>1, <3>3
        <4>2. RightContext(t, i, c)
          BY <4>1
        <4> QED
          BY <2>1, <4>1, <4>2 DEF RightContext
      <3> QED
        BY <1>1, <1>2, <2>1, <3>1, <3>2, <3>3
    <2>2. CASE u # t
      BY <1>3, <2>2 DEF FramesInv, RightContext
    <2> QED
      BY <2>1, <2>2
  <1> QED
    BY <1>1, <1>2, <1>3 DEF FramesInv

\* iret takes the last context off.
LEMMA LastContext ==
  ASSUME FramesInv, NEW t \in Thread, frames[t] # <<>>,
         frames' = [frames EXCEPT ![t] = Front(@)], UNCHANGED heads
  PROVE  FramesInv' /\ (Len(frames[t]) = 1 => frames'[t] = <<>>)
  <1> DEFINE n == Len(frames[t])
  <1>1. frames[t] \in Seq(Saved) /\ n \in Nat \ {0} /\ \A i \in 1..n : frames[t][i] \in Saved
    BY EmptySeq, ElementOfSeq DEF FramesInv
  <1>2. /\ Front(frames[t]) \in Seq(Saved) /\ Len(Front(frames[t])) = n - 1
        /\ \A i \in 1..(n - 1) : Front(frames[t])[i] = frames[t][i]
    <2>1. \A i \in 1..(n - 1) : frames[t][i] \in Saved
      BY <1>1
    <2> QED
      BY <1>1, <2>1, SubSeqProperties DEF Front
  <1>3. frames' \in [Thread -> Seq(Saved)] /\ frames'[t] = Front(frames[t])
    BY <1>2 DEF FramesInv
  <1>4. ASSUME NEW u \in Thread, NEW i \in 1..Len(frames'[u])
        PROVE  RightContext(u, i, frames[u][i])'
    <2>1. CASE u = t
      BY <1>1, <1>2, <1>3, <1>4, <2>1 DEF FramesInv, RightContext
    <2>2. CASE u # t
      BY <1>4, <2>2 DEF FramesInv, RightContext
    <2> QED
      BY <2>1, <2>2
  <1>5. n = 1 => frames'[t] = <<>>
    BY <1>2, <1>3, EmptySeq
  <1> QED
    BY <1>3, <1>4, <1>5 DEF FramesInv

LEMMA EnterStep ==
  ASSUME CteInv, Enter
  PROVE  CteInv'
  <1> DEFINE c == Context(user, off, vmHead[This], ksp)
  <1>1. /\ traps /\ target = Nil /\ pc[This] = "idle" /\ Save(c)
        /\ locked' = (locked /\ ~user) /\ ~user' /\ off' /\ UNCHANGED <<vars, traps, ksp, target>>
    BY DEF Enter
  <1>2. CpuInv' /\ UNCHANGED <<heads, pc, vmHead>>
    BY <1>1 DEF CteInv, CpuInv, vars
  <1>3. vmHead[This] = Home(run) /\ vmHead[This] \in heads \cup {Nil}
    BY <1>1, ThisIsTheCpu DEF CteInv, CpuInv
  <1>4. c \in Saved /\ c.user = user /\ c.off = off /\ c.head = vmHead[This] /\ c.ksp = ksp
    BY <1>3 DEF CteInv, CpuInv, Context, Saved
  <1>5. run \in Space => run \in heads
    BY <1>3, NilIsNoNode DEF Home
  <1>6. FramesInv' /\ run' = run
    <2>1. CASE user
      <3>1. run' = run /\ ksp = run /\ run \in Thread /\ frames' = [frames EXCEPT ![run] = <<c>>]
        BY <1>1, <2>1 DEF Save, CteInv
      <3>2. RightContext(run, 1, c)
        BY <1>3, <1>4, <1>5, <2>1, <3>1 DEF CteInv, RightContext
      <3> QED
        BY <1>2, <1>4, <3>1, <3>2, FirstContext DEF CteInv
    <2>2. CASE ~user
      <3>1. run' = run /\ run \in Thread /\ frames' = [frames EXCEPT ![run] = Append(@, c)]
        BY <1>1, <2>2 DEF Save, CteInv
      <3>2. \A i \in Nat : RightContext(run, i, c)
        BY <1>3, <1>4, <1>5, <2>2 DEF RightContext
      <3> QED
        BY <1>2, <1>4, <3>1, <3>2, NextContext DEF CteInv
    <2> QED
      BY <2>1, <2>2
  <1>7. user' = FALSE /\ off' = TRUE /\ locked' = FALSE
    BY DEF Enter, CteInv, UserIsWalled
  <1>8. Home(run)' = Home(run) /\ vmHead[This]' = vmHead[This]
    BY <1>2, <1>6 DEF Home
  <1> QED
    BY <1>1, <1>2, <1>3, <1>6, <1>7, <1>8 DEF CteInv, UserIsWalled

LEMMA IretStep ==
  ASSUME CteInv, Iret
  PROVE  CteInv'
  <1>1. /\ target # Nil /\ pc[This] = "idle" /\ (enabled => Chosen.head = vmHead[This])
        /\ run' = target /\ target' = Nil
        /\ user' = Chosen.user /\ off' = Chosen.off /\ ksp' = Chosen.ksp
        /\ frames' = [frames EXCEPT ![target] = Front(@)]
        /\ locked' = (locked \/ (Chosen.user /\ enabled /\ vmHead[This] # Nil))
        /\ UNCHANGED <<vars, traps>>
    BY DEF Iret
  <1>2. /\ Chosen \in Saved /\ Chosen.head = Home(target) /\ Chosen.head \in heads \cup {Nil}
        /\ Chosen.user => /\ target \in Space /\ Chosen.ksp = target /\ ~Chosen.off
                          /\ Len(frames[target]) = 1
    BY <1>1, ChosenContext
  <1>3. CpuInv' /\ UNCHANGED <<enabled, heads, pc, vmHead>>
    BY <1>1 DEF CteInv, CpuInv, vars
  <1>4. vmHead[This] = Home(target)
    <2>1. CASE enabled
      BY <1>1, <1>2, <2>1
    <2>2. CASE ~enabled
      BY <1>2, <2>2, ThisIsTheCpu DEF CteInv, CpuInv
    <2> QED
      BY <2>1, <2>2 DEF CteInv, CpuInv
  <1>5. /\ target \in Thread /\ traps /\ ~user /\ ~locked /\ frames[target] # <<>>
    BY <1>1 DEF CteInv, UserIsWalled
  <1>6. FramesInv' /\ (Len(frames[target]) = 1 => frames'[target] = <<>>)
    BY <1>1, <1>3, <1>5, LastContext DEF CteInv
  <1>7. Chosen.user => enabled /\ vmHead[This] # Nil
    BY <1>2, <1>4, NilIsNoNode DEF Home, CteInv, CpuInv
  <1>8. /\ user' \in BOOLEAN /\ off' \in BOOLEAN /\ ksp' \in Thread \cup {Nil}
        /\ run' \in Thread /\ target' \in Thread \cup {Nil}
    BY <1>1, <1>2, <1>5 DEF Saved
  <1>9. locked' \in BOOLEAN /\ (user' <=> locked')
    BY <1>1, <1>2, <1>5, <1>7, <1>8
  <1>10. user' => /\ traps' /\ target' = Nil /\ pc'[This] = "idle"
                  /\ run' \in Space /\ ksp' = run' /\ frames'[run'] = <<>> /\ ~off'
    BY <1>1, <1>2, <1>3, <1>5, <1>6
  <1> QED
    BY <1>1, <1>3, <1>4, <1>5, <1>6, <1>8, <1>9, <1>10 DEF CteInv, UserIsWalled, Home

LEMMA CteStepInv ==
  ASSUME CteInv, [CteNext]_allvars
  PROVE  CteInv'
  <1>0. CpuInv' /\ heads \subseteq heads'
    BY CteStepIsStep, CpuStep DEF CteInv
  <1>1. CASE InitVme \/ \E s \in Space : NewSpace(s)
    <2>1. UNCHANGED <<pc, vmHead, traps, cvars>>
      BY <1>1 DEF InitVme, NewSpace, VmeInit, Protect
    <2> QED
      BY <1>0, <2>1, FramesStay DEF CteInv, cvars, UserIsWalled, Home
  <1>2. ASSUME NEW s \in heads, NEW v \in CteVa, NEW p \in Pa, MapPage(s, v, p)
        PROVE  CteInv'
    <2>1. /\ traps /\ ~user /\ target = Nil /\ pc'[This] = "find" /\ UNCHANGED <<vmHead, traps, cvars>>
      BY <1>2, ThisIsTheCpu DEF MapPage, KernelRuns, Map, At, CteInv, CpuInv
    <2> QED
      BY <1>0, <2>1, FramesStay DEF CteInv, cvars, UserIsWalled, Home, Insertion
  <1>3. ASSUME NEW b \in BOOLEAN, SetOff(b)
        PROVE  CteInv'
    BY <1>0, <1>3, FramesStay DEF SetOff, KernelRuns, CteInv, vars, UserIsWalled, Home
  <1>4. ASSUME NEW s \in Space, UContext(s)
        PROVE  CteInv'
    <2> DEFINE c == Context(TRUE, FALSE, s, s)
    <2>1. /\ KernelRuns /\ s \in heads /\ frames[s] = <<>> /\ frames' = [frames EXCEPT ![s] = <<c>>]
          /\ UNCHANGED <<vars, traps, run, user, off, ksp, locked, target>>
      BY <1>4 DEF UContext
    <2>2. s \in Thread /\ c \in Saved /\ RightContext(s, 1, c)
      BY <2>1 DEF Thread, Context, Saved, RightContext, Home
    <2>3. FramesInv'
      BY <2>1, <2>2, FirstContext DEF CteInv, vars
    <2> QED
      BY <1>0, <2>1, <2>3 DEF CteInv, KernelRuns, vars, UserIsWalled, Home
  <1>5. ASSUME NEW kt \in KThread, KContext(kt)
        PROVE  CteInv'
    <2> DEFINE c == Context(FALSE, FALSE, Nil, Nil)
    <2>1. /\ KernelRuns /\ frames[kt] = <<>> /\ frames' = [frames EXCEPT ![kt] = <<c>>]
          /\ UNCHANGED <<vars, traps, run, user, off, ksp, locked, target>>
      BY <1>5 DEF KContext
    <2>2. kt \in Thread /\ c \in Saved /\ RightContext(kt, 1, c)
      BY CteAssumption DEF Thread, Context, Saved, RightContext, Home
    <2>3. FramesInv'
      BY <2>1, <2>2, FirstContext DEF CteInv, vars
    <2> QED
      BY <1>0, <2>1, <2>3 DEF CteInv, KernelRuns, vars, UserIsWalled, Home
  <1>6. CASE Fault \/ Interrupt
    BY <1>6, EnterStep DEF Fault, Interrupt
  <1>7. ASSUME NEW t \in Thread, Choose(t)
        PROVE  CteInv'
    <2>1. t # Nil
      BY CteAssumption, NilIsNoNode DEF Thread
    <2> QED
      BY <1>0, <1>7, <2>1, FramesStay DEF Choose, KernelRuns, CteInv, vars, UserIsWalled, Home
  <1>8. CASE SwitchSpace
    <2>1. /\ target # Nil /\ pc'[This] = "unmap" /\ UNCHANGED <<vmHead, traps, cvars>>
      BY <1>8, ThisIsTheCpu DEF SwitchSpace, Switch, At, CteInv, CpuInv
    <2> QED
      BY <1>0, <2>1, FramesStay DEF CteInv, cvars, UserIsWalled, Home
  <1>9. CASE Iret
    BY <1>9, IretStep
  <1>10. CASE traps /\ VmeStep
    <2>1. UNCHANGED <<traps, cvars>>
      BY <1>10 DEF VmeStep
    <2>2. /\ pc[This] \in Insertion => pc'[This] \in {"idle"} \cup Insertion /\ vmHead' = vmHead
          /\ pc[This] \notin Insertion => /\ pc[This] \in {"unmap", "enforce"}
                                          /\ pc'[This] \in {"idle", "unmap", "enforce"}
      BY <1>10, WorkingStep DEF VmeStep, CteInv
    <2> QED
      BY <1>0, <2>1, <2>2, FramesStay DEF CteInv, cvars, UserIsWalled, Home, Insertion
  <1>11. CASE ~traps /\ Next /\ UNCHANGED <<traps, cvars>>
    BY <1>0, <1>11, FramesStay DEF CteInv, cvars, UserIsWalled
  <1>12. CASE UNCHANGED allvars
    BY <1>0, <1>12, FramesStay DEF CteInv, allvars, vars, cvars, UserIsWalled, Home
  <1> QED
    BY <1>1, <1>2, <1>3, <1>4, <1>5, <1>6, <1>7, <1>8, <1>9, <1>10, <1>11, <1>12
       DEF CteNext, Kernel, Leave

THEOREM CteInvariance == CteSpec => []CteInv
  BY CteInitInv, CteStepInv, PTL DEF CteSpec

\* No stack gets deeper than the bound.
DepthInv == \A t \in Thread : Len(frames[t]) <= MaxDepth
CteTypes == CteInv /\ VmeTypes /\ DepthInv

LEMMA StepDepth ==
  ASSUME CteInv, DepthInv, [CteNext]_allvars
  PROVE  DepthInv'
  <1>1. frames \in [Thread -> Seq(Saved)] /\ run \in Thread
    BY DEF CteInv, FramesInv
  <1>2. CASE UNCHANGED frames
    BY <1>2 DEF DepthInv
  <1>3. ASSUME NEW t \in Thread, NEW c, frames' = [frames EXCEPT ![t] = <<c>>]
        PROVE  DepthInv'
    <2>1. Len(<<c>>) = 1 /\ 1 <= MaxDepth
      BY CteAssumption
    <2> QED
      BY <1>1, <1>3, <2>1 DEF DepthInv
  <1>4. CASE Enter
    <2>1. CASE user
      <3>1. \E c : frames' = [frames EXCEPT ![ksp] = <<c>>]
        BY <1>4, <2>1 DEF Enter, Save
      <3>2. ksp \in Thread
        BY <2>1 DEF CteInv
      <3> QED
        BY <1>3, <3>1, <3>2
    <2>2. CASE ~user
      <3>1. PICK c : frames' = [frames EXCEPT ![run] = Append(@, c)]
        BY <1>4, <2>2 DEF Enter, Save
      <3>2. Len(frames[run]) < MaxDepth /\ Len(frames[run]) \in Nat
        BY <1>1, <1>4 DEF Enter
      <3>3. Len(Append(frames[run], c)) = Len(frames[run]) + 1
        BY <1>1, AppendProperties
      <3>4. Len(Append(frames[run], c)) <= MaxDepth
        BY <3>2, <3>3, CteAssumption
      <3> QED
        BY <1>1, <3>1, <3>4 DEF DepthInv
    <2> QED
      BY <2>1, <2>2
  <1>5. CASE Iret
    <2>1. /\ frames' = [frames EXCEPT ![target] = Front(@)]
          /\ target \in Thread /\ frames[target] \in Seq(Saved) /\ frames[target] # <<>>
      BY <1>1, <1>5 DEF Iret, CteInv
    <2> DEFINE n == Len(frames[target])
    <2>2. n \in Nat \ {0} /\ \A i \in 1..(n - 1) : frames[target][i] \in Saved
      BY <2>1, EmptySeq, ElementOfSeq
    <2>3. Len(Front(frames[target])) = n - 1
      BY <2>1, <2>2, SubSeqProperties DEF Front
    <2>4. Len(Front(frames[target])) <= MaxDepth
      BY <2>1, <2>2, <2>3, CteAssumption DEF DepthInv
    <2> QED
      BY <1>1, <2>1, <2>4 DEF DepthInv
  <1>6. CASE Kernel
    <2>1. UNCHANGED frames \/ \E t \in Thread : \E c : frames' = [frames EXCEPT ![t] = <<c>>]
      BY <1>6 DEF Kernel, InitVme, NewSpace, MapPage, SetOff, UContext, KContext, cvars, Thread
    <2> QED
      BY <1>2, <1>3, <2>1
  <1> QED
    BY <1>2, <1>4, <1>5, <1>6
       DEF CteNext, Fault, Interrupt, Choose, Leave, SwitchSpace, VmeStep, cvars, allvars

LEMMA TypesFollow == CteTypes => CteTypeOK
  <1> SUFFICES ASSUME CteTypes, NEW t \in Thread
               PROVE  /\ Len(frames[t]) \in 0..MaxDepth
                      /\ Range(frames[t]) \subseteq
                           [user : BOOLEAN, off : BOOLEAN,
                            head : heads \cup {Nil}, ksp : Thread \cup {Nil}]
    BY DEF CteTypes, CteTypeOK, CteInv, VmeTypes
  <1>1. frames[t] \in Seq(Saved)
    BY DEF CteTypes, CteInv, FramesInv
  <1>2. Len(frames[t]) \in 0..MaxDepth
    BY <1>1, CteAssumption DEF CteTypes, DepthInv
  <1>3. ASSUME NEW i \in 1..Len(frames[t])
        PROVE  frames[t][i] \in [user : BOOLEAN, off : BOOLEAN,
                                 head : heads \cup {Nil}, ksp : Thread \cup {Nil}]
    <2>1. frames[t][i] \in Saved
      BY <1>1, <1>3, ElementOfSeq
    <2>2. frames[t][i].head \in heads \cup {Nil}
      BY DEF CteTypes, CteInv, FramesInv, RightContext, Home
    <2> QED
      BY <2>1, <2>2 DEF Saved
  <1>4. Range(frames[t]) = {frames[t][i] : i \in 1..Len(frames[t])}
    BY <1>1 DEF Range
  <1> QED
    BY <1>2, <1>3, <1>4

\* Contexts, stacks and the state of the lists below keep their types.
THEOREM CteTypeCorrect == CteSpec => []CteTypeOK
  <1>1. CteInit => CteTypes
    <2>1. CteInit => DepthInv
      BY CteAssumption DEF CteInit, DepthInv
    <2> QED
      BY <2>1, CteInitInv, InitVmeTypes DEF CteInit, CteTypes
  <1>2. CteTypes /\ [CteNext]_allvars => CteTypes'
    BY CteStepInv, CteStepIsStep, StepVmeTypes, StepDepth DEF CteTypes
  <1> QED
    BY <1>1, <1>2, TypesFollow, PTL DEF CteSpec

\* Whoever runs, runs in its own space, and user code always with an empty kernel stack of
\* its own and interrupts on, however traps nest and handlers choose.
THEOREM EachAtHome == CteSpec => []RunsAtHome
  <1>1. CteInv => RunsAtHome
    BY DEF CteInv, RunsAtHome
  <1> QED
    BY <1>1, CteInvariance, PTL

\* Physical memory is closed exactly while user code runs.
THEOREM WallHolds == CteSpec => []UserIsWalled
  <1>1. CteInv => UserIsWalled
    BY DEF CteInv
  <1> QED
    BY <1>1, CteInvariance, PTL

\* What traps do to spaces is a behaviour of the virtual memory below.
THEOREM CteImplementsVme == CteSpec => Spec
  <1>1. CteInit => Init
    BY DEF CteInit
  <1>2. CteInv /\ [CteNext]_allvars => [Next]_vars
    BY CteStepIsStep
  <1> QED
    BY <1>1, <1>2, CteInvariance, PTL DEF CteSpec, Spec

\* ... so that the mappings are those of the current space under traps as well.
THEOREM TrapsKeepMappings ==
  ASSUME ~Remap
  PROVE  CteSpec => [](NoStale /\ Enforced)
  BY OneCpu, CteImplementsVme, NothingIsStale, SpaceIsInForce, PTL

\* ... and the spaces stay independent of each other.
THEOREM TrapsKeepSpaces ==
  ASSUME ~Remap
  PROVE  CteSpec => SpacesSpec
  BY CteImplementsVme, ListsImplement, PTL

-----------------------------------------------------------------------------
(* AudioRing: the program stores no less in count than count is at that    *)
(* moment, the player no more.                                             *)

Holding == {"copy", "load", "store"}   \* a length has been fixed

\* What the program knows of count: there is room for its write.
WriterInv ==
  /\ prog = "free" /\ wait => count + asked <= Size
  /\ prog \in Holding => /\ nwrite \in 0..asked
                         /\ count + nwrite <= Size
                         /\ wait => nwrite = asked
                         /\ nwrite + fed <= Total
  /\ prog = "store" \/ (prog = "copy" /\ ~native) => count <= wreg /\ wreg + nwrite <= Size
  /\ prog \in Holding \cup {"free", "wait"} => asked + fed <= Total

\* What the player knows of it: its data are there.
PlayerInv ==
  /\ ~native => play = "idle"
  /\ spilled > 0 => native /\ len < Size
  /\ play \in Holding => nread <= count
  /\ play = "store" => nread <= preg /\ preg <= count

AudioInv == AudioTypeOK /\ CountInRange /\ WriterInv /\ PlayerInv

LEMMA MovedRange ==
  ASSUME NEW p \in 0..(Size - 1), NEW n \in 0..Size
  PROVE  Moved(p, n) \in 0..(Size - 1)
  BY AudioAssumption DEF Moved

LEMMA TakeOutTypes ==
  ASSUME AudioTypeOK, NEW n \in 0..Size, TakeOut(n)
  PROVE  /\ heard' \in Nat /\ spilled' \in Nat /\ Gone' \in 0..Total
         /\ garbled' \in BOOLEAN /\ sbufTail' \in 0..(Size - 1)
         /\ spilled' > 0 => spilled > 0 \/ n > len
  <1> DEFINE right == /\ ~garbled
                      /\ \A d \in 0..(n - 1) : sbuf[(sbufTail + d) % Size] = Gone + d + 1
  <1>1. sbufTail' \in 0..(Size - 1) /\ garbled' \in BOOLEAN
    BY MovedRange DEF TakeOut, AudioTypeOK
  <1>2. ASSUME right, n # 0
        PROVE  Gone + n \in 0..Total
    <2>1. n - 1 \in 0..(n - 1) /\ (sbufTail + (n - 1)) % Size \in 0..(Size - 1)
      BY <1>2, AudioAssumption DEF AudioTypeOK
    <2>2. sbuf[(sbufTail + (n - 1)) % Size] = Gone + (n - 1) + 1
      BY <1>2, <2>1
    <2>3. sbuf[(sbufTail + (n - 1)) % Size] \in 0..Total
      BY <2>1 DEF AudioTypeOK
    <2> QED
      BY <2>2, <2>3 DEF AudioTypeOK
  <1>3. /\ heard' = IF right THEN heard + Least(n, len) ELSE heard
        /\ spilled' = IF right THEN spilled + (n - Least(n, len)) ELSE spilled
    BY DEF TakeOut
  <1>4. len \in Nat /\ Least(n, len) \in 0..n /\ (n <= len => Least(n, len) = n)
    BY AudioAssumption DEF AudioTypeOK, Least
  <1> HIDE DEF right
  <1>5. CASE right
    <2>1. heard' = heard + Least(n, len) /\ spilled' = spilled + (n - Least(n, len))
      BY <1>3, <1>5
    <2>2. n # 0 => Gone + n \in 0..Total
      BY <1>2, <1>5
    <2> DEFINE l == Least(n, len)
    <2>3. l \in 0..n /\ (n <= len => l = n) /\ heard' = heard + l /\ spilled' = spilled + (n - l)
      BY <1>4, <2>1
    <2>4. heard \in Nat /\ spilled \in Nat /\ heard + spilled \in 0..Total /\ len \in Nat
      BY <1>4 DEF AudioTypeOK, Gone
    <2>5. n # 0 => heard + spilled + n \in 0..Total
      BY <2>2 DEF Gone
    <2> HIDE DEF l
    <2>6. heard' \in Nat /\ spilled' \in Nat /\ heard' + spilled' \in 0..Total
      BY <2>3, <2>4, <2>5
    <2>7. spilled' > 0 => spilled > 0 \/ n > len
      BY <2>3, <2>4
    <2> QED
      BY <1>1, <2>6, <2>7 DEF Gone
  <1>6. CASE ~right
    BY <1>1, <1>3, <1>6 DEF AudioTypeOK, Gone
  <1> QED
    BY <1>5, <1>6

LEMMA InitAudioInv == AudioInit => AudioInv
  <1> SUFFICES ASSUME AudioInit
               PROVE  AudioInv
    OBVIOUS
  <1>1. AudioTypeOK
    <2>1. 0 \in 0..(Size - 1) /\ 0 \in 0..Total
      BY AudioAssumption
    <2>2. sbuf \in [0..(Size - 1) -> 0..Total]
      BY <2>1 DEF AudioInit
    <2>3. sbufHead \in 0..(Size - 1) /\ sbufTail \in 0..(Size - 1) /\ count \in Int
      BY <2>1 DEF AudioInit
    <2>4. /\ asked \in 0..Total /\ nwrite \in Int /\ wreg \in Int /\ fed \in 0..Total
          /\ nread \in Int /\ preg \in Int
          /\ heard \in Nat /\ spilled \in Nat /\ Gone \in 0..Total
      BY <2>1, AudioAssumption DEF AudioInit, Gone
    <2>5. garbled \in BOOLEAN /\ lost \in BOOLEAN
      BY DEF AudioInit
    <2>6. native \in Native /\ wait \in BOOLEAN /\ len \in PlayLen
      BY DEF AudioInit
    <2> QED
      BY <2>2, <2>3, <2>4, <2>5, <2>6 DEF AudioInit, AudioTypeOK
  <1>2. CountInRange /\ WriterInv /\ PlayerInv
    BY AudioAssumption DEF AudioInit, CountInRange, WriterInv, PlayerInv, Holding
  <1> QED
    BY <1>1, <1>2 DEF AudioInv

LEMMA StepAudioInv == AudioInv /\ [AudioNext]_audioVars => AudioInv'
  <1> SUFFICES ASSUME AudioInv, [AudioNext]_audioVars
               PROVE  AudioInv'
    OBVIOUS
  <1> USE AudioAssumption
      DEF AudioInv, AudioTypeOK, CountInRange, WriterInv, PlayerInv, Holding, at, ring, writer, player,
          sound, fixed, Least, Gone
  <1>1. CASE Submit
    BY <1>1 DEF Submit
  <1>2. CASE Wait
    BY <1>2 DEF Wait
  <1>3. CASE ReadFree
    BY <1>3 DEF ReadFree
  <1>4. CASE CopyIn
    <2>1. sbufHead' \in 0..(Size - 1)
      BY <1>4, MovedRange DEF CopyIn
    <2>2. sbuf' \in [0..(Size - 1) -> 0..Total]
      <3>1. \A i \in 0..(Size - 1) : LET d == (i - sbufHead) % Size
                                     IN  d < nwrite => fed + d + 1 \in 0..Total
        BY <1>4 DEF CopyIn
      <3> QED
        BY <1>4, <3>1 DEF CopyIn
    <2> QED
      BY <1>4, <2>1, <2>2 DEF CopyIn
  <1>5. CASE LoadCount
    BY <1>5 DEF LoadCount
  <1>6. CASE StoreCount
    BY <1>6 DEF StoreCount
  <1>7. CASE Finish
    BY <1>7 DEF Finish
  <1>8. CASE ReadCount
    <2>1. /\ UNCHANGED <<fixed, ring, writer, preg, heard, spilled, garbled, lost>>
          /\ play' \in {"short", "copy"}
          /\ nread' \in 0..Size
          /\ play' = "copy" => nread' <= count
      BY <1>8 DEF ReadCount
    <2>2. AudioTypeOK'
      BY <2>1
    <2>3. CountInRange' /\ WriterInv'
      BY <2>1
    <2>4. PlayerInv'
      BY <1>8, <2>1 DEF ReadCount
    <2> QED
      BY <2>2, <2>3, <2>4
  <1>9. CASE ReadShort
    BY <1>9 DEF ReadShort
  <1>10. CASE CopyOut
    <2>1. /\ heard' \in Nat /\ spilled' \in Nat /\ Gone' \in 0..Total
          /\ garbled' \in BOOLEAN /\ sbufTail' \in 0..(Size - 1)
          /\ spilled' > 0 => spilled > 0 \/ nread > len
      BY <1>10, TakeOutTypes DEF CopyOut
    <2>2. /\ UNCHANGED <<native, wait, len, sbuf, sbufHead, count, prog, asked, nwrite, wreg, fed,
                         nread, preg, lost>>
          /\ play = "copy" /\ play' = "load"
      BY <1>10 DEF CopyOut
    <2>3. AudioTypeOK'
      BY <2>1, <2>2
    <2>4. CountInRange' /\ WriterInv'
      BY <2>2
    <2>5. spilled' > 0 => native /\ len < Size
      BY <2>1, <2>2
    <2>6. PlayerInv'
      BY <2>2, <2>5
    <2> QED
      BY <2>3, <2>4, <2>6
  <1>11. CASE LoadPlayed
    BY <1>11 DEF LoadPlayed
  <1>12. CASE StorePlayed
    BY <1>12 DEF StorePlayed
  <1>13. CASE DevicePlays
    <2>1. Least(count, len) \in 0..count
      OBVIOUS
    <2>3. Least(count, len) <= len
      OBVIOUS
    <2>2. /\ heard' \in Nat /\ spilled' \in Nat /\ Gone' \in 0..Total
          /\ garbled' \in BOOLEAN /\ sbufTail' \in 0..(Size - 1)
          /\ spilled' > 0 => spilled > 0 \/ Least(count, len) > len
      BY <1>13, <2>1, TakeOutTypes DEF DevicePlays
    <2>4. /\ UNCHANGED <<native, wait, len, sbuf, sbufHead, prog, asked, nwrite, wreg, fed,
                         play, nread, preg, lost>>
          /\ ~native /\ count' = count - Least(count, len)
      BY <1>13 DEF DevicePlays
    <2>5. spilled' > 0 => native /\ len < Size
      BY <2>2, <2>3, <2>4
    <2>9. count' \in Int
      BY <2>1, <2>4
    <2>6. AudioTypeOK'
      BY <2>2, <2>4, <2>9 DEF AudioTypeOK
    <2>7. CountInRange' /\ WriterInv'
      BY <2>1, <2>4
    <2>8. PlayerInv'
      BY <2>4, <2>5
    <2> QED
      BY <2>6, <2>7, <2>8
  <1>14. CASE UNCHANGED audioVars
    BY <1>14 DEF audioVars
  <1> QED
    BY <1>1, <1>2, <1>3, <1>4, <1>5, <1>6, <1>7, <1>8, <1>9, <1>10, <1>11, <1>12, <1>13, <1>14
       DEF AudioNext, Program, Player

THEOREM AudioInvariance == AudioSpec => []AudioInv
  BY InitAudioInv, StepAudioInv, PTL DEF AudioSpec

\* The positions stay in the buffer.
THEOREM AudioTypeCorrect == AudioSpec => []AudioTypeOK
  <1>1. AudioInv => AudioTypeOK
    BY DEF AudioInv
  <1> QED
    BY <1>1, AudioInvariance, PTL

\* However the updates meet, count and the lengths copied stay in range.
THEOREM CountStays == AudioSpec => []CountInRange
  <1>1. AudioInv => CountInRange
    BY DEF AudioInv
  <1> QED
    BY <1>1, AudioInvariance, PTL

\* The room waited for is still there when the write is made.
THEOREM WaitEnough == AudioSpec => []WaitSuffices
  <1>1. AudioInv => WaitSuffices
    BY DEF AudioInv, WriterInv, WaitSuffices, Holding
  <1> QED
    BY <1>1, AudioInvariance, PTL

-----------------------------------------------------------------------------
(* What the buffer holds, as long as no update of count has been lost.     *)

Cell(i)  == IF i < Size THEN i ELSE i - Size
Position == 0..(Size - 1)

\* Units that are in the buffer's memory, or have been; units taken that count still has.
Written == IF prog \in {"load", "store"} THEN fed + nwrite ELSE fed
Taken   == IF play \in {"load", "store"} THEN nread ELSE 0

\* From sbufTail on lie the units behind the last one that left, up to sbufHead.
RingInv == /\ ~garbled
           /\ count = fed - Gone + Taken
           /\ sbufHead = Cell(sbufTail + (Written - Gone))
           /\ \A d \in Position :
                d < Written - Gone => sbuf[Cell(sbufTail + d)] = Gone + d + 1
           /\ prog = "end" => fed = Total /\ count = 0

StreamInv == AudioInv /\ (~lost => RingInv)

LEMMA SlotIsMod ==
  ASSUME NEW i \in 0..(2 * Size - 1)
  PROVE  i % Size = Cell(i) /\ Cell(i) \in Position
  <1>1. CASE i < Size
    BY <1>1, AudioAssumption DEF Cell, Position
  <1>2. CASE i >= Size
    BY <1>2, AudioAssumption DEF Cell, Position
  <1> QED
    BY <1>1, <1>2, AudioAssumption

LEMMA ModBelow ==
  ASSUME NEW i \in Position, NEW j \in Position
  PROVE  (i - j) % Size = IF j <= i THEN i - j ELSE i - j + Size
  <1>1. CASE j <= i
    BY <1>1, AudioAssumption DEF Position
  <1>2. CASE j > i
    BY <1>2, AudioAssumption DEF Position
  <1> QED
    BY <1>1, <1>2 DEF Position

\* No more is in the buffer than fits, and no less than count says.
LEMMA Fits ==
  ASSUME AudioInv, RingInv
  PROVE  Written - Gone \in 0..Size /\ Written - Gone >= count - Taken
  BY AudioAssumption
     DEF AudioInv, AudioTypeOK, CountInRange, WriterInv, PlayerInv, Holding, RingInv, Written, Taken

\* A copy of the next units behind the last one extends the contents.
LEMMA CopyInStep ==
  ASSUME AudioInv, RingInv, CopyIn
  PROVE  RingInv'
  <1> USE AudioAssumption
  <1> DEFINE n == fed - Gone
  <1>1. /\ Written = fed /\ Written' = fed + nwrite /\ Taken' = Taken
        /\ fed \in Nat /\ Gone \in Nat
        /\ UNCHANGED <<garbled, count, fed, Gone, sbufTail, nwrite>> /\ prog' # "end"
    BY DEF AudioInv, AudioTypeOK, CopyIn, at, player, sound, fixed, Written, Taken, Gone
  <1>2. n \in 0..Size /\ nwrite \in 0..Size /\ n + nwrite <= Size
    <2>1. nwrite \in 0..Size /\ count + nwrite <= Size /\ count \in 0..Size
      BY DEF CopyIn, at, AudioInv, CountInRange, WriterInv, Holding
    <2>2. count = n + Taken /\ Taken \in 0..count
      BY <2>1 DEF AudioInv, CountInRange, PlayerInv, Holding, RingInv, Taken
    <2>3. n + nwrite <= Size
      BY <1>1, <2>1, <2>2
    <2> QED
      BY <1>1, <2>1, <2>2, <2>3
  <1>3. sbufTail \in Position /\ sbufHead \in Position /\ sbufHead = Cell(sbufTail + n)
    BY <1>1 DEF AudioInv, AudioTypeOK, RingInv, Position
  <1>4. sbufHead' = Cell(sbufTail + (n + nwrite))
    <2>1. sbufHead' = IF nwrite + sbufHead < Size THEN sbufHead + nwrite
                                                  ELSE nwrite - (Size - sbufHead)
      BY DEF CopyIn, Moved
    <2> HIDE DEF n
    <2> QED
      BY <1>2, <1>3, <2>1 DEF Cell, Position
  <1>5. ASSUME NEW d \in Position, d < n + nwrite
        PROVE  sbuf'[Cell(sbufTail + d)] = Gone + d + 1
    <2> DEFINE i == Cell(sbufTail + d)
               e == (i - sbufHead) % Size
    <2>1. i \in Position
      BY <1>3 DEF Cell, Position
    <2>2. sbuf'[i] = IF e < nwrite THEN fed + e + 1 ELSE sbuf[i]
      BY <2>1 DEF CopyIn, Position
    <2>3. e = IF d >= n THEN d - n ELSE d - n + Size
      <3>1. e = IF sbufHead <= i THEN i - sbufHead ELSE i - sbufHead + Size
        BY <1>3, <2>1, ModBelow
      <3> QED
        BY <1>2, <1>3, <3>1 DEF Cell, Position
    <2>4. CASE d >= n
      BY <1>1, <1>2, <1>5, <2>2, <2>3, <2>4 DEF Position
    <2>5. CASE d < n
      <3>1. sbuf'[i] = sbuf[i]
        BY <1>2, <2>2, <2>3, <2>5 DEF Position
      <3> QED
        BY <1>1, <2>5, <3>1 DEF RingInv
    <2> QED
      BY <1>2, <2>4, <2>5 DEF Position
  <1>6. Written' - Gone' = n + nwrite
    BY <1>1, <1>2
  <1> QED
    BY <1>1, <1>4, <1>5, <1>6 DEF RingInv

\* What is taken out is right, and the rest stays.
LEMMA TakeOutStep ==
  ASSUME AudioInv, RingInv, NEW n \in 0..(Written - Gone), TakeOut(n), UNCHANGED <<sbuf, sbufHead, writer>>
  PROVE  /\ ~garbled' /\ Gone' = Gone + n
         /\ sbufHead' = Cell(sbufTail' + (Written' - Gone'))
         /\ \A d \in Position :
              d < Written' - Gone' => sbuf'[Cell(sbufTail' + d)] = Gone' + d + 1
  <1> USE AudioAssumption
  <1> DEFINE m == Written - Gone
  <1>1. m \in 0..Size /\ n \in 0..Size /\ Gone \in Nat /\ sbufTail \in Position
    BY Fits DEF AudioInv, AudioTypeOK, Position
  <1>2. \A d \in 0..(n - 1) : sbuf[(sbufTail + d) % Size] = Gone + d + 1
    <2> SUFFICES ASSUME NEW d \in 0..(n - 1)
                 PROVE  sbuf[(sbufTail + d) % Size] = Gone + d + 1
      OBVIOUS
    <2>1. (sbufTail + d) % Size = Cell(sbufTail + d)
      BY <1>1, SlotIsMod DEF Position
    <2>2. d \in Position /\ d < m
      BY <1>1 DEF Position
    <2> QED
      BY <2>1, <2>2 DEF RingInv
  <1>3. ~garbled' /\ Gone' = Gone + n
    <2>1. ~garbled' /\ heard' = heard + Least(n, len) /\ spilled' = spilled + (n - Least(n, len))
      BY <1>2 DEF TakeOut, RingInv
    <2>2. Least(n, len) \in Int /\ heard \in Nat /\ spilled \in Nat
      BY <1>1 DEF AudioInv, AudioTypeOK, Least
    <2> QED
      BY <1>1, <2>1, <2>2 DEF Gone
  <1>4. Written' = Written
    BY DEF writer, Written
  <1>5. sbufTail' = Cell(sbufTail + n)
    BY <1>1 DEF TakeOut, Moved, Cell, Position
  <1>6. Written' - Gone' = m - n
    BY <1>1, <1>3, <1>4 DEF AudioInv, AudioTypeOK, CountInRange, Written
  <1>7. sbufHead' = Cell(sbufTail' + (m - n))
    BY <1>1, <1>5 DEF RingInv, Cell, Position
  <1>8. ASSUME NEW d \in Position, d < m - n
        PROVE  sbuf'[Cell(sbufTail' + d)] = Gone' + d + 1
    <2>1. Cell(sbufTail' + d) = Cell(sbufTail + (n + d))
      BY <1>1, <1>5, <1>8 DEF Cell, Position
    <2>2. n + d \in Position /\ n + d < m
      BY <1>1, <1>8 DEF Position
    <2> QED
      BY <1>1, <1>3, <2>1, <2>2 DEF RingInv, Position
  <1> QED
    BY <1>3, <1>6, <1>7, <1>8

LEMMA InitStream == AudioInit => RingInv
  BY AudioAssumption DEF AudioInit, RingInv, Written, Taken, Cell, Position, Gone

LEMMA StepStream == StreamInv /\ [AudioNext]_audioVars => StreamInv'
  <1> SUFFICES ASSUME AudioInv, AudioInv', ~lost => RingInv, [AudioNext]_audioVars, ~lost'
               PROVE  RingInv'
    BY StepAudioInv DEF StreamInv
  <1> USE AudioAssumption DEF sound, Gone
  <1>1. ~lost
    BY DEF AudioNext, Program, Submit, Wait, ReadFree, CopyIn, LoadCount, StoreCount, Finish,
           Player, ReadCount, ReadShort, CopyOut, LoadPlayed, StorePlayed, DevicePlays,
           AudioInv, AudioTypeOK, audioVars
  <1>2. RingInv
    BY <1>1
  <1>3. fed \in Nat /\ Gone \in Nat /\ count \in 0..Size /\ nwrite \in 0..Size /\ nread \in 0..Size
    BY DEF AudioInv, AudioTypeOK, CountInRange
  \* Steps that move neither data nor count.
  <1>4. ASSUME UNCHANGED <<ring, Gone, garbled>>, Written' = Written, fed' = fed, Taken' = Taken,
               prog' = "end" => fed = Total /\ count = 0
        PROVE  RingInv'
    BY <1>2, <1>4 DEF RingInv, ring
  <1>5. CASE Submit \/ Wait \/ ReadFree
    <2>1. /\ UNCHANGED <<ring, fed, player>> /\ prog' # "end"
          /\ prog \notin {"load", "store"} /\ prog' \notin {"load", "store"}
      BY <1>5 DEF Submit, Wait, ReadFree, at, writer
    <2> QED
      BY <1>4, <2>1 DEF Written, Taken, player
  <1>6. CASE CopyIn
    BY <1>2, <1>6, CopyInStep
  <1>7. CASE LoadCount
    BY <1>4, <1>7 DEF LoadCount, at, ring, player, Written, Taken
  <1>8. CASE StoreCount
    <2>1. count' = count + nwrite
      BY <1>8, <1>3 DEF StoreCount, AudioInv, AudioTypeOK
    <2>2. /\ Written = fed + nwrite /\ fed' = fed + nwrite /\ Written' = fed'
          /\ Taken' = Taken /\ prog' # "end"
          /\ UNCHANGED <<sbuf, sbufHead, sbufTail, Gone, garbled>>
      BY <1>8 DEF StoreCount, at, player, Written, Taken
    <2>3. count' = fed' - Gone' + Taken'
      BY <1>2, <1>3, <2>1, <2>2 DEF RingInv, Taken
    <2> QED
      BY <1>2, <2>2, <2>3 DEF RingInv
  <1>9. CASE Finish
    BY <1>4, <1>9 DEF Finish, at, ring, player, Written, Taken
  <1>10. CASE ReadCount \/ ReadShort
    <2>1. /\ UNCHANGED <<ring, writer, Gone, garbled>>
          /\ play \notin {"load", "store"} /\ play' \notin {"load", "store"}
      BY <1>10 DEF ReadCount, ReadShort
    <2> QED
      BY <1>2, <1>4, <2>1 DEF RingInv, Written, Taken, ring, writer
  <1>11. CASE CopyOut
    <2>1. nread \in 0..(Written - Gone)
      <3>1. play = "copy" /\ Taken = 0 /\ nread <= count
        BY <1>11 DEF CopyOut, Taken, AudioInv, PlayerInv, Holding
      <3> QED
        BY <1>2, <1>3, <3>1, Fits
    <2>2. /\ TakeOut(nread) /\ UNCHANGED <<sbuf, sbufHead, count, writer, nread>>
          /\ Taken = 0 /\ Taken' = nread /\ fed' = fed /\ prog' = prog
      BY <1>11 DEF CopyOut, Taken, writer
    <2>3. /\ ~garbled' /\ Gone' = Gone + nread
          /\ sbufHead' = Cell(sbufTail' + (Written' - Gone'))
          /\ \A d \in Position :
               d < Written' - Gone' => sbuf'[Cell(sbufTail' + d)] = Gone' + d + 1
      BY <1>2, <2>1, <2>2, TakeOutStep
    <2>4. count' = fed' - Gone' + Taken'
      BY <1>2, <1>3, <2>2, <2>3 DEF RingInv
    <2> QED
      BY <1>2, <2>2, <2>3, <2>4 DEF RingInv
  <1>12. CASE LoadPlayed
    <2>1. UNCHANGED <<ring, writer, Gone, garbled>> /\ Taken' = Taken
      BY <1>12 DEF LoadPlayed, Taken
    <2> QED
      BY <1>2, <1>4, <2>1 DEF RingInv, Written, ring, writer
  <1>13. CASE StorePlayed
    <2>1. /\ count' = count - nread /\ Taken = nread /\ Taken' = 0 /\ nread <= count
          /\ UNCHANGED <<sbuf, sbufHead, sbufTail, writer, Gone, garbled>>
      BY <1>13, <1>3 DEF StorePlayed, Taken, AudioInv, AudioTypeOK, PlayerInv, Holding
    <2>2. Written' = Written /\ fed' = fed /\ prog' = prog
      BY <2>1 DEF Written, writer
    <2>3. count' = fed' - Gone' + Taken'
      BY <1>2, <1>3, <2>1, <2>2 DEF RingInv
    <2>4. prog' = "end" => fed' = Total /\ count' = 0
      BY <1>2, <1>3, <2>1, <2>2 DEF RingInv
    <2> QED
      BY <1>2, <2>1, <2>2, <2>3, <2>4 DEF RingInv
  <1>14. CASE DevicePlays
    <2> DEFINE n == Least(count, len)
    <2>1. n \in 0..count /\ Taken = 0
      BY <1>14, <1>3 DEF DevicePlays, Least, Taken, AudioInv, AudioTypeOK, PlayerInv
    <2>2. n \in 0..(Written - Gone)
      BY <1>2, <1>3, <2>1, Fits
    <2>3. /\ TakeOut(n) /\ UNCHANGED <<sbuf, sbufHead, writer>>
          /\ count' = count - n /\ Taken' = 0 /\ fed' = fed /\ prog' = prog
      BY <1>14, <2>1 DEF DevicePlays, Taken, writer
    <2>4. /\ ~garbled' /\ Gone' = Gone + n
          /\ sbufHead' = Cell(sbufTail' + (Written' - Gone'))
          /\ \A d \in Position :
               d < Written' - Gone' => sbuf'[Cell(sbufTail' + d)] = Gone' + d + 1
      BY <1>2, <2>2, <2>3, TakeOutStep
    <2> HIDE DEF n
    <2>5. count' = fed' - Gone' + Taken'
      BY <1>2, <1>3, <2>1, <2>3, <2>4 DEF RingInv
    <2>6. prog' = "end" => fed' = Total /\ count' = 0
      BY <1>2, <1>3, <2>1, <2>3 DEF RingInv
    <2> QED
      BY <2>4, <2>5, <2>6 DEF RingInv
  <1>15. CASE UNCHANGED audioVars
    BY <1>2, <1>15 DEF RingInv, Written, Taken, audioVars, fixed, ring, writer, player
  <1> QED
    BY <1>5, <1>6, <1>7, <1>8, <1>9, <1>10, <1>11, <1>12, <1>13, <1>14, <1>15
       DEF AudioNext, Program, Player

THEOREM StreamInvariance == AudioSpec => []StreamInv
  <1>1. AudioInit => StreamInv
    BY InitAudioInv, InitStream DEF StreamInv
  <1> QED
    BY <1>1, StepStream, PTL DEF AudioSpec

\* Without a lost update every unit leaves the buffer once and in order, for any buffer,
\* any lengths, and with SDL's callback at any moment; and what is not heard then has
\* gone behind a stream shorter than the buffer.
THEOREM StreamInOrder == AudioSpec => []PlaysInOrder
  <1>1. StreamInv => PlaysInOrder
    <2>0. AudioInv => (spilled > 0 => native /\ len < Size)
      BY DEF AudioInv, PlayerInv
    <2> SUFFICES ASSUME AudioInv, RingInv, prog = "end"
                 PROVE  heard + spilled = Total
      BY <2>0 DEF StreamInv, PlaysInOrder, RingInv
    <2>1. count = 0 /\ fed = Total /\ count = fed - Gone + Taken
      BY DEF RingInv
    <2>2. Taken = 0
      BY <2>1 DEF AudioInv, CountInRange, PlayerInv, Holding, Taken
    <2> QED
      BY <2>1, <2>2, AudioAssumption DEF AudioInv, AudioTypeOK, Gone
  <1> QED
    BY <1>1, StreamInvariance, PTL

-----------------------------------------------------------------------------
(* NativeKbd: what the mutex covers, and what the slots hold.              *)

Wrap(i) == IF i < QueueLen THEN i ELSE i - QueueLen

\* Whoever is between lock and unlock holds the mutex; the thread is started once.
MutexInv ==
  /\ thread \in {"write", "advance", "unlock"} <=> mutex = "thread"
  /\ reader \in {"test", "advance", "unlock"} <=> mutex = "reader"
  /\ initFlag = 1 => thread = "none"

\* The event half put is in the rear slot, the one half taken is the front's.
SlotInv ==
  /\ thread \in {"lock", "write", "advance"} => queued < MaxEvents
  /\ thread = "advance" => queue[keyR] = queued + 1
  /\ reader = "advance" => keyF # keyR /\ k = queue[keyF]

KbdInv == KbdTypeOK /\ MutexInv /\ SlotInv

LEMMA WrapIsMod ==
  ASSUME NEW i \in 0..(2 * QueueLen - 1)
  PROVE  i % QueueLen = Wrap(i) /\ Wrap(i) \in Slot
  <1>1. CASE i < QueueLen
    BY <1>1, QueueAssumption DEF Wrap, Slot
  <1>2. CASE i >= QueueLen
    BY <1>2, QueueAssumption DEF Wrap, Slot
  <1> QED
    BY <1>1, <1>2, QueueAssumption

LEMMA AfterIs ==
  ASSUME NEW i \in Slot
  PROVE  After(i) = Wrap(i + 1) /\ After(i) \in Slot
  BY WrapIsMod, QueueAssumption DEF After, Slot

LEMMA InitKbdInv == KbdInit => KbdInv
  <1> SUFFICES ASSUME KbdInit
               PROVE  KbdInv
    OBVIOUS
  <1> USE QueueAssumption
  <1>1. queue \in [Slot -> 0..MaxEvents] /\ keyF \in Slot /\ keyR \in Slot
    BY DEF KbdInit, Slot
  <1>2. initFlag \in {1, 2} /\ (initFlag = 1 => thread = "none") /\ thread \in {"none", "wait"}
    BY DEF KbdInit
  <1>3. merged \in BOOLEAN /\ lapped \in BOOLEAN /\ signal \in BOOLEAN /\ polls \in Polls
    BY Zenon DEF KbdInit
  <1> QED
    BY <1>1, <1>2, <1>3 DEF KbdInit, KbdInv, KbdTypeOK, MutexInv, SlotInv

LEMMA StepKbdInv == KbdInv /\ [KbdNext]_kbdVars => KbdInv'
  <1> SUFFICES ASSUME KbdInv, [KbdNext]_kbdVars
               PROVE  KbdInv'
    OBVIOUS
  <1> USE QueueAssumption DEF KbdInv, KbdTypeOK, MutexInv, SlotInv, moves, reads, history
  <1>1. CASE KeyEvent
    BY <1>1 DEF KeyEvent
  <1>2. CASE ThreadLocks
    BY <1>2 DEF ThreadLocks
  <1>3. CASE WriteSlot
    BY <1>3 DEF WriteSlot
  <1>4. CASE AdvanceRear
    BY <1>4, AfterIs DEF AdvanceRear
  <1>5. CASE ThreadUnlocks
    BY <1>5 DEF ThreadUnlocks
  <1>6. CASE Kill
    BY <1>6 DEF Kill
  <1>7. CASE Call
    BY <1>7 DEF Call
  <1>8. CASE ReaderLocks
    BY <1>8 DEF ReaderLocks
  <1>9. CASE ReadSlot
    BY <1>9 DEF ReadSlot
  <1>10. CASE FindNone
    BY <1>10 DEF FindNone
  <1>11. CASE AdvanceFront
    BY <1>11, AfterIs DEF AdvanceFront
  <1>12. CASE ReaderUnlocks
    BY <1>12 DEF ReaderUnlocks
  <1>13. CASE UNCHANGED kbdVars
    BY <1>13 DEF kbdVars
  <1> QED
    BY <1>1, <1>2, <1>3, <1>4, <1>5, <1>6, <1>7, <1>8, <1>9, <1>10, <1>11, <1>12, <1>13
       DEF KbdNext, EventThread, Reader

THEOREM KbdInvariance == KbdSpec => []KbdInv
  BY InitKbdInv, StepKbdInv, PTL DEF KbdSpec

\* The queue's indices, threads and mutex keep their types.
THEOREM KbdTypeCorrect == KbdSpec => []KbdTypeOK
  <1>1. KbdInv => KbdTypeOK
    BY DEF KbdInv
  <1> QED
    BY <1>1, KbdInvariance, PTL

-----------------------------------------------------------------------------
(* The ring implements KeyQueue: an event goes in when the rear moves, and *)
(* comes out when the front does.                                          *)

\* The contents of a ring q between front f and rear r.
Between(f, r) == (r + QueueLen - f) % QueueLen

LEMMA BetweenIs ==
  ASSUME NEW f \in Slot, NEW r \in Slot
  PROVE  /\ Between(f, r) = IF f <= r THEN r - f ELSE r - f + QueueLen
         /\ Between(f, r) \in 0..(QueueLen - 1)
         /\ r = Wrap(f + Between(f, r))
  <1>1. r + QueueLen - f \in 0..(2 * QueueLen - 1)
    BY QueueAssumption DEF Slot
  <1>2. Between(f, r) = Wrap(r + QueueLen - f)
    BY <1>1, WrapIsMod DEF Between
  <1> QED
    BY <1>2, QueueAssumption DEF Wrap, Slot

\* The first n slots from the front f of a ring q on, as a sequence.
FromFront(q, f, n) == [i \in 1..n |-> q[(f + i - 1) % QueueLen]]

LEMMA FromFrontIs ==
  ASSUME NEW f \in Slot, NEW n \in 0..(QueueLen - 1), NEW q \in [Slot -> Nat]
  PROVE  /\ FromFront(q, f, n) \in Seq(Nat) /\ Len(FromFront(q, f, n)) = n
         /\ \A i \in 1..n : /\ Wrap(f + i - 1) \in Slot
                           /\ FromFront(q, f, n)[i] = q[Wrap(f + i - 1)]
  <1> DEFINE c == FromFront(q, f, n)
  <1>1. ASSUME NEW i \in 1..n
        PROVE  (f + i - 1) % QueueLen = Wrap(f + i - 1) /\ Wrap(f + i - 1) \in Slot
    <2>1. f + i - 1 \in 0..(2 * QueueLen - 1)
      BY QueueAssumption DEF Slot
    <2> QED
      BY <2>1, WrapIsMod
  <1>2. \A i \in 1..n : q[(f + i - 1) % QueueLen] \in Nat
    BY <1>1
  <1>3. n \in Nat /\ c \in [1..n -> Nat]
    BY <1>2, QueueAssumption DEF FromFront
  <1>4. c \in Seq(Nat) /\ Len(c) = n
    BY <1>3
  <1> QED
    BY <1>1, <1>4 DEF FromFront

LEMMA InitQueues == KbdInit => Abstract!Init
  <1> SUFFICES ASSUME KbdInit
               PROVE  Content = <<>> /\ queued = 0 /\ got = 0
    BY DEF Abstract!Init
  <1>1. Unread = 0
    BY BetweenIs, QueueAssumption DEF KbdInit, Unread, Between, Slot
  <1>2. Content = <<>>
    BY <1>1 DEF Content
  <1> QED
    BY <1>2 DEF KbdInit

LEMMA StepQueues == KbdInv /\ [KbdNext]_kbdVars => [Abstract!Next]_(Abstract!vars)
  <1> SUFFICES ASSUME KbdInv, [KbdNext]_kbdVars
               PROVE  Abstract!Next \/ UNCHANGED <<Content, queued, got>>
    BY DEF Abstract!vars
  <1> DEFINE U == Between(keyF, keyR)
  <1>1. /\ keyF \in Slot /\ keyR \in Slot /\ queue \in [Slot -> Nat]
        /\ queued \in Nat /\ got \in Nat /\ k \in Nat
    BY QueueAssumption DEF KbdInv, KbdTypeOK
  <1>2. /\ U \in 0..(QueueLen - 1) /\ keyR = Wrap(keyF + U)
        /\ U = IF keyF <= keyR THEN keyR - keyF ELSE keyR - keyF + QueueLen
    BY <1>1, BetweenIs
  <1>3. Content = FromFront(queue, keyF, U)
    BY DEF Content, Unread, Between, FromFront
  <1> HIDE DEF U
  <1>4. /\ Content \in Seq(Nat) /\ Len(Content) = U
        /\ \A i \in 1..U : /\ Wrap(keyF + i - 1) \in Slot
                          /\ Content[i] = queue[Wrap(keyF + i - 1)]
    BY <1>1, <1>2, <1>3, FromFrontIs
  \* Steps that leave the ring's contents and indices alone.
  <1>5. ASSUME UNCHANGED <<queue, keyF, keyR, queued, got>>
        PROVE  UNCHANGED <<Content, queued, got>>
    BY <1>5 DEF Content, Unread
  <1>6. CASE WriteSlot
    <2>1. /\ queue' = [queue EXCEPT ![keyR] = queued + 1]
          /\ UNCHANGED <<keyF, keyR, queued, got>>
      BY <1>6 DEF WriteSlot, history
    <2>2. ASSUME NEW i \in 1..U
          PROVE  queue'[(keyF + i - 1) % QueueLen] = queue[(keyF + i - 1) % QueueLen]
      <3>1. keyF + i - 1 \in 0..(2 * QueueLen - 1)
        BY <1>1, <1>2, QueueAssumption DEF Slot
      <3>2. (keyF + i - 1) % QueueLen = Wrap(keyF + i - 1)
        BY <3>1, WrapIsMod
      <3>3. Wrap(keyF + i - 1) # keyR
        BY <1>1, <1>2, QueueAssumption DEF Wrap, Slot
      <3> QED
        BY <1>1, <1>4, <2>1, <3>2, <3>3
    <2>3. Content' = [i \in 1..U |-> queue'[(keyF + i - 1) % QueueLen]]
      BY <2>1 DEF Content, Unread, U, Between
    <2> QED
      BY <1>3, <2>1, <2>2, <2>3 DEF FromFront
  <1>7. CASE AdvanceRear
    <2> DEFINE V == Between(keyF, keyR')
    <2>1. /\ keyR' = Wrap(keyR + 1) /\ keyR' \in Slot /\ queued' = queued + 1
          /\ UNCHANGED <<queue, keyF, got>> /\ queue[keyR] = queued + 1
      BY <1>1, <1>7, AfterIs DEF AdvanceRear, moves, KbdInv, SlotInv
    <2>3. Content' = FromFront(queue, keyF, V)
      BY <2>1 DEF Content, Unread, Between, FromFront
    <2>0. /\ V \in 0..(QueueLen - 1)
          /\ V = IF keyF <= keyR' THEN keyR' - keyF ELSE keyR' - keyF + QueueLen
      BY <1>1, <2>1, BetweenIs
    <2> HIDE DEF V
    <2>2. V \in 0..(QueueLen - 1) /\ V = IF U = QueueLen - 1 THEN 0 ELSE U + 1
      BY <1>1, <1>2, <2>0, <2>1, QueueAssumption DEF Wrap, Slot
    <2>4. /\ Content' \in Seq(Nat) /\ Len(Content') = V
          /\ \A i \in 1..V : Content'[i] = queue[Wrap(keyF + i - 1)]
      BY <1>1, <2>2, <2>3, FromFrontIs, SMTT(20)
    <2>5. CASE U = QueueLen - 1
      <3>1. Content' = <<>>
        BY <2>2, <2>3, <2>5 DEF FromFront
      <3> QED
        BY <1>4, <2>1, <2>5, <3>1 DEF Abstract!Next, Abstract!Put
    <2>6. CASE U # QueueLen - 1
      <3>1. V = U + 1
        BY <2>2, <2>6
      <3>2. Append(Content, queued + 1) \in Seq(Nat) /\ Len(Append(Content, queued + 1)) = U + 1
        BY <1>1, <1>4
      <3>3. ASSUME NEW i \in 1..V
            PROVE  Content'[i] = Append(Content, queued + 1)[i]
        <4>1. CASE i = U + 1
          <5>1. Content'[i] = queue[keyR]
            BY <1>1, <1>2, <2>4, <4>1, QueueAssumption DEF Slot
          <5> QED
            BY <1>1, <1>4, <2>1, <4>1, <5>1
        <4>2. CASE i # U + 1
          <5>1. i \in 1..U
            BY <1>2, <3>1, <4>2
          <5> QED
            BY <1>1, <1>4, <2>4, <5>1
        <4> QED
          BY <4>1, <4>2
      <3>4. Content' = Append(Content, queued')
        BY <2>1, <2>4, <3>1, <3>2, <3>3, SeqEqual
      <3> QED
        BY <1>4, <2>1, <2>6, <3>4 DEF Abstract!Next, Abstract!Put
    <2> QED
      BY <2>5, <2>6
  <1>8. CASE AdvanceFront
    <2> DEFINE V == Between(keyF', keyR)
    <2>1. /\ keyF' = Wrap(keyF + 1) /\ keyF' \in Slot /\ got' = queue[keyF]
          /\ UNCHANGED <<queue, keyR, queued>> /\ keyF # keyR
      BY <1>1, <1>8, AfterIs DEF AdvanceFront, reads, KbdInv, SlotInv
    <2>3. Content' = FromFront(queue, keyF', V)
      BY <2>1 DEF Content, Unread, Between, FromFront
    <2>0. /\ V \in 0..(QueueLen - 1)
          /\ V = IF keyF' <= keyR THEN keyR - keyF' ELSE keyR - keyF' + QueueLen
      BY <1>1, <2>1, BetweenIs
    <2> HIDE DEF V
    <2>2. V \in 0..(QueueLen - 1) /\ U = V + 1
      BY <1>1, <1>2, <2>0, <2>1, QueueAssumption DEF Wrap, Slot
    <2>4. /\ Content' \in Seq(Nat) /\ Len(Content') = V
          /\ \A i \in 1..V : Content'[i] = queue[Wrap(keyF' + i - 1)]
      BY <1>1, <2>1, <2>2, <2>3, FromFrontIs
    <2>5. Content # <<>> /\ Head(Content) = queue[keyF]
      <3>1. Content[1] = queue[Wrap(keyF)] /\ Wrap(keyF) = keyF
        <4>1. 1 \in 1..U /\ keyF + 1 - 1 = keyF /\ keyF < QueueLen
          BY <1>1, <2>2, QueueAssumption DEF Slot
        <4> QED
          BY <1>1, <1>4, <4>1 DEF Wrap
      <3> QED
        BY <1>4, <2>2, <3>1
    <2>6. Tail(Content) \in Seq(Nat) /\ Len(Tail(Content)) = V
      BY <1>4, <2>2, <2>5
    <2>7. ASSUME NEW i \in 1..V
          PROVE  Content'[i] = Tail(Content)[i]
      <3>1. Tail(Content)[i] = Content[i + 1] /\ i + 1 \in 1..U
        BY <1>4, <2>2, <2>5, <2>6
      <3>2. Wrap(keyF' + i - 1) = Wrap(keyF + (i + 1) - 1)
        BY <1>1, <1>2, <2>1, <2>2, QueueAssumption DEF Wrap, Slot
      <3> QED
        BY <1>4, <2>4, <3>1, <3>2
    <2>8. Content' = Tail(Content)
      BY <2>4, <2>6, <2>7, SeqEqual
    <2> QED
      BY <2>1, <2>5, <2>8 DEF Abstract!Next, Abstract!Get
  <1>9. CASE KeyEvent \/ ThreadLocks \/ ThreadUnlocks \/ Kill
    BY <1>5, <1>9 DEF KeyEvent, ThreadLocks, ThreadUnlocks, Kill, history
  <1>10. CASE Call \/ ReaderLocks \/ ReadSlot \/ FindNone \/ ReaderUnlocks
    BY <1>5, <1>10 DEF Call, ReaderLocks, ReadSlot, FindNone, ReaderUnlocks, history
  <1>11. CASE UNCHANGED kbdVars
    BY <1>5, <1>11 DEF kbdVars, history
  <1> QED
    BY <1>6, <1>7, <1>8, <1>9, <1>10, <1>11 DEF KbdNext, EventThread, Reader

\* NativeKbd implements KeyQueue: events come out once and in order, also when the thread
\* writes while the program reads, and while the ring is overrun.
THEOREM KeysInOrder == KbdSpec => QueueSpec
  <1>1. KbdSpec => Abstract!Init /\ [][Abstract!Next]_(Abstract!vars)
    BY InitQueues, StepQueues, KbdInvariance, PTL DEF KbdSpec
  <1> QED
    BY <1>1 DEF QueueSpec, Abstract!Spec

-----------------------------------------------------------------------------
(* NoopKbd: the program's table of keys follows the driver.                *)

\* A makecode is put off for a key only.
LineInv == /\ LineTypeOK /\ OneKeyDown
           /\ lastRelease => lastKey # None

LEMMA InitLineInv == LineInit => LineInv
  <1> SUFFICES ASSUME LineInit
               PROVE  LineInv
    OBVIOUS
  <1>1. fifo \in Seq(Key \cup Other \cup High) /\ Len(fifo) <= FifoLen
    BY LineAssumption DEF LineInit
  <1>2. age \in 0..(Timeout + 1)
    BY LineAssumption DEF LineInit
  <1>3. ~lastRelease /\ lastRelease \in BOOLEAN /\ halted \in BOOLEAN
    BY DEF LineInit
  <1> QED
    BY <1>1, <1>2, <1>3 DEF LineInit, LineInv, LineTypeOK, OneKeyDown

\* What getchar takes from the buffer leaves it one.
LEMMA CharTypes ==
  ASSUME LineTypeOK, NEW c, Char(c)
  PROVE  /\ fifo' \in Seq(Key \cup Other \cup High)
         /\ Len(fifo') <= FifoLen
  BY LineAssumption DEF LineTypeOK, Char

LEMMA StepLineInv == LineInv /\ [LineNext]_lineVars => LineInv'
  <1> SUFFICES ASSUME LineInv, [LineNext]_lineVars
               PROVE  LineInv'
    OBVIOUS
  <1> USE LineAssumption DEF LineInv, LineTypeOK, OneKeyDown, Calling, driver
  <1>1. CASE Deferred
    <2>1. lastKey \in Key /\ down = {}
      BY <1>1 DEF Deferred
    <2>0. pressed' \in Seq(Key)
      BY <1>1, <2>1 DEF Deferred, GoesDown
    <2>2. down' = {lastKey} /\ lastRelease' = FALSE /\ age' = 0 /\ UNCHANGED <<fifo, lastKey, halted>>
      BY <1>1, <2>1 DEF Deferred, GoesDown
    <2>3. LineTypeOK'
      <3>1. lastRelease' \in BOOLEAN /\ halted' \in BOOLEAN
        BY <2>2, Zenon
      <3>2. age' \in 0..(Timeout + 1)
        BY <2>2
      <3>3. fifo' \in Seq(Key \cup Other \cup High) /\ Len(fifo') <= FifoLen
        BY <2>2
      <3>4. lastKey' \in Key \cup {None} /\ down' \subseteq Key
        BY <2>1, <2>2
      <3> QED
        BY <2>0, <3>1, <3>2, <3>3, <3>4
    <2>4. OneKeyDown' /\ ~lastRelease'
      BY <2>1, <2>2
    <2> QED
      BY <2>3, <2>4
  <1>2. ASSUME NEW c \in Chars, Press(c)
        PROVE  LineInv'
    <2>1. fifo' \in Seq(Key \cup Other \cup High) /\ Len(fifo') <= FifoLen
      BY <1>2, CharTypes DEF Press
    <2>2. lastKey' = c /\ c \in Key /\ ~lastRelease /\ UNCHANGED halted
      BY <1>2 DEF Press
    <2>0. pressed' \in Seq(Key)
      BY <1>2, <2>2 DEF Press, GoesDown, ComesUp
    <2>3. CASE lastKey \in {None, c}
      <3>1. down' = {c} /\ UNCHANGED lastRelease /\ age' = 0
        BY <1>2, <2>2, <2>3 DEF Press, GoesDown
      <3>2. LineTypeOK'
        <4>1. lastRelease' \in BOOLEAN /\ halted' \in BOOLEAN
          BY <2>2, <3>1, Zenon
        <4>2. age' \in 0..(Timeout + 1)
          BY <3>1
        <4>3. lastKey' \in Key \cup {None} /\ down' \subseteq Key
          BY <2>2, <3>1
        <4> QED
          BY <2>0, <2>1, <4>1, <4>2, <4>3
      <3>3. OneKeyDown' /\ lastKey' # None
        BY <2>2, <3>1
      <3> QED
        BY <3>2, <3>3
    <2>4. CASE lastKey \notin {None, c}
      <3>1. down' = {} /\ lastRelease' = TRUE /\ UNCHANGED age
        BY <1>2, <2>2, <2>4 DEF Press, ComesUp
      <3>2. LineTypeOK'
        <4>1. lastRelease' \in BOOLEAN /\ halted' \in BOOLEAN
          BY <2>2, <3>1, Zenon
        <4>2. age' \in 0..(Timeout + 1)
          BY <3>1
        <4>3. lastKey' \in Key \cup {None} /\ down' \subseteq Key
          BY <2>2, <3>1
        <4> QED
          BY <2>0, <2>1, <4>1, <4>2, <4>3
      <3>3. OneKeyDown' /\ lastKey' # None
        BY <2>2, <3>1
      <3> QED
        BY <3>2, <3>3
    <2> QED
      BY <2>3, <2>4
  <1>3. ASSUME NEW c \in Chars, Silence(c)
        PROVE  LineInv'
    <2>1. fifo' \in Seq(Key \cup Other \cup High) /\ Len(fifo') <= FifoLen
      BY <1>3, CharTypes DEF Silence
    <2> QED
      BY <1>3, <2>1 DEF Silence, ComesUp, NoEvent
  <1>4. ASSUME NEW c \in Chars, Assertion(c)
        PROVE  LineInv'
    <2>1. fifo' \in Seq(Key \cup Other \cup High) /\ Len(fifo') <= FifoLen
      BY <1>4, CharTypes DEF Assertion
    <2> QED
      BY <1>4, <2>1 DEF Assertion, NoEvent
  <1>5. CASE Tick
    BY <1>5 DEF Tick
  <1>6. ASSUME NEW c \in Key \cup Other \cup High, Receive(c)
        PROVE  LineInv'
    BY <1>6 DEF Receive
  <1>7. CASE UNCHANGED lineVars
    BY <1>7 DEF lineVars
  <1> QED
    BY <1>1, <1>2, <1>3, <1>4, <1>5, <1>6, <1>7 DEF LineNext, Read, Halted

THEOREM LineInvariance == LineSpec => []LineInv
  BY InitLineInv, StepLineInv, PTL DEF LineSpec

\* The driver's state and the program's table keep their types.
THEOREM LineTypeCorrect == LineSpec => []LineTypeOK
  <1>1. LineInv => LineTypeOK
    BY DEF LineInv
  <1> QED
    BY <1>1, LineInvariance, PTL

\* Two keys are never down at once.
THEOREM KeysAlternate == LineSpec => []OneKeyDown
  <1>1. LineInv => OneKeyDown
    BY DEF LineInv
  <1> QED
    BY <1>1, LineInvariance, PTL

-----------------------------------------------------------------------------
(* NoopKbd: no key is lost.  What KeysOf computes is shown by induction    *)
(* along the sequence; the library's induction theorems take operators,    *)
(* so induction is derived here from well-foundedness, with sets.          *)

LEMMA Induction ==
  ASSUME NEW T, 0 \in T, \A n \in Nat : n \in T => n + 1 \in T
  PROVE  Nat \subseteq T
  <1> SUFFICES ASSUME NEW m \in Nat, m \notin T
               PROVE  FALSE
    OBVIOUS
  <1> DEFINE U == {0..n : n \in Nat \ T}
             R == StrictSubsetOrdering(Nat)
  <1>1. U \subseteq FiniteSubsetsOf(Nat)
    <2> SUFFICES ASSUME NEW n \in Nat
                 PROVE  0..n \in FiniteSubsetsOf(Nat)
      OBVIOUS
    <2>1. IsFiniteSet(0..n)
      BY FS_Interval
    <2> QED
      BY <2>1 DEF FiniteSubsetsOf
  <1>2. U # {}
    OBVIOUS
  <1>3. IsWellFoundedOn(R, FiniteSubsetsOf(Nat))
    BY FS_StrictSubsetOrderingWellFounded
  <1> HIDE DEF U, R
  <1>4. PICK I \in U : \A J \in U : ~(<<J, I>> \in R)
    BY <1>1, <1>2, <1>3, WFMin
  <1>5. PICK n \in Nat \ T : I = 0..n
    BY DEF U
  <1>6. n # 0 /\ n - 1 \in Nat /\ n - 1 \notin T
    OBVIOUS
  <1>7. 0..(n - 1) \in U
    BY <1>6 DEF U
  <1>8. 0..(n - 1) \subseteq 0..n /\ 0..(n - 1) # 0..n /\ 0..n \subseteq Nat
    <2>1. n \in 0..n /\ n \notin 0..(n - 1)
      OBVIOUS
    <2> QED
      BY <2>1
  <1>9. <<0..(n - 1), 0..n>> \in R
    BY <1>8 DEF R, StrictSubsetOrdering
  <1> QED
    BY <1>4, <1>5, <1>7, <1>9

\* b is a with c at its end if c is a key.
Adds(a, b, c) == b = IF c \in Key THEN Append(a, c) ELSE a

\* f[i] are the keys among the first i characters of s.
Collects(f, s, n) ==
  /\ f \in [0..n -> Seq(Key)] /\ f[0] = <<>>
  /\ \A i \in 1..n : Adds(f[i - 1], f[i], s[i])

LEMMA CollectExists ==
  ASSUME NEW S, NEW s \in Seq(S), NEW n \in 0..Len(s)
  PROVE  \E f : Collects(f, s, n)
  <1> DEFINE T == {m \in Nat : m <= Len(s) => \E f : Collects(f, s, m)}
  <1>1. 0 \in T
    <2>1. Collects([i \in 0..0 |-> <<>>], s, 0)
      BY DEF Collects
    <2> QED
      BY <2>1
  <1>2. ASSUME NEW m \in Nat, m \in T, m + 1 <= Len(s)
        PROVE  \E f : Collects(f, s, m + 1)
    <2>1. PICK f : Collects(f, s, m)
      BY <1>2
    <2> DEFINE last == IF s[m + 1] \in Key THEN Append(f[m], s[m + 1]) ELSE f[m]
               g == [i \in 0..(m + 1) |-> IF i <= m THEN f[i] ELSE last]
    <2>2. last \in Seq(Key)
      BY <2>1 DEF Collects
    <2>3. g \in [0..(m + 1) -> Seq(Key)] /\ g[0] = <<>>
      BY <2>1, <2>2 DEF Collects
    <2>4. ASSUME NEW i \in 1..(m + 1)
          PROVE  Adds(g[i - 1], g[i], s[i])
      <3>1. CASE i = m + 1
        BY <3>1 DEF Adds
      <3>2. CASE i \in 1..m
        <4>1. g[i - 1] = f[i - 1] /\ g[i] = f[i]
          BY <3>2
        <4> QED
          BY <2>1, <3>2, <4>1 DEF Collects
      <3> QED
        BY <3>1, <3>2
    <2> QED
      BY <2>3, <2>4 DEF Collects
  <1>3. \A m \in Nat : m \in T => m + 1 \in T
    BY <1>2
  <1> HIDE DEF T
  <1>4. n \in T
    BY <1>1, <1>3, Induction
  <1> QED
    BY <1>4 DEF T

LEMMA KeysOfIs ==
  ASSUME NEW S, NEW s \in Seq(S), NEW f, Collects(f, s, Len(s))
  PROVE  KeysOf(s) = f[Len(s)]
  <1> DEFINE step(g, n) == IF n = 0 THEN <<>>
                                ELSE IF s[n] \in Key THEN Append(g[n - 1], s[n])
                                                     ELSE g[n - 1]
             first[n \in 0..Len(s)] == IF n = 0 THEN <<>>
                                ELSE IF s[n] \in Key THEN Append(first[n - 1], s[n])
                                                     ELSE first[n - 1]
  <1>1. f = [n \in 0..Len(s) |-> step(f, n)]
    <2>1. ASSUME NEW n \in 0..Len(s)
          PROVE  f[n] = step(f, n)
      <3>1. CASE n = 0
        BY <3>1 DEF Collects
      <3>2. CASE n \in 1..Len(s)
        BY <3>2 DEF Collects, Adds
      <3> QED
        BY <3>1, <3>2
    <2> QED
      BY <2>1 DEF Collects
  <1>2. first = CHOOSE g : g = [n \in 0..Len(s) |-> step(g, n)]
    OBVIOUS
  <1> HIDE DEF first
  <1>3. first = [n \in 0..Len(s) |-> step(first, n)]
    BY <1>1, <1>2, Zenon
  <1>5. Len(s) \in Nat
    OBVIOUS
  <1> DEFINE T == {m \in Nat : m <= Len(s) => first[m] = f[m]}
  <1>6. 0 \in T
    BY <1>1, <1>3
  <1>7. \A m \in Nat : m \in T => m + 1 \in T
    <2> SUFFICES ASSUME NEW m \in Nat, first[m] = f[m], m + 1 <= Len(s)
                 PROVE  first[m + 1] = f[m + 1]
      OBVIOUS
    <2>1. m + 1 \in 0..Len(s) /\ m + 1 # 0 /\ (m + 1) - 1 = m
      OBVIOUS
    <2>2. first[m + 1] = step(first, m + 1) /\ f[m + 1] = step(f, m + 1)
      <3> HIDE DEF step
      <3> QED
        BY <1>1, <1>3, <2>1
    <2> QED
      BY <2>1, <2>2
  <1> HIDE DEF T
  <1>8. Len(s) \in T
    BY <1>5, <1>6, <1>7, Induction
  <1>9. first[Len(s)] = f[Len(s)]
    BY <1>8, <1>5 DEF T
  <1>10. KeysOf(s) = first[Len(s)]
    BY DEF KeysOf, first
  <1> QED
    BY <1>9, <1>10

LEMMA KeysOfCollects ==
  ASSUME NEW S, NEW s \in Seq(S)
  PROVE  KeysOf(s) \in Seq(Key) /\ \E f : Collects(f, s, Len(s)) /\ KeysOf(s) = f[Len(s)]
  <1>1. Len(s) \in 0..Len(s)
    OBVIOUS
  <1>2. PICK f : Collects(f, s, Len(s))
    BY <1>1, CollectExists
  <1>3. KeysOf(s) = f[Len(s)]
    BY <1>2, KeysOfIs
  <1> QED
    BY <1>1, <1>2, <1>3 DEF Collects

LEMMA KeysOfEmpty == KeysOf(<<>>) = <<>>
  <1>1. <<>> \in Seq({}) /\ Len(<<>>) = 0
    BY EmptySeq
  <1>2. PICK f : Collects(f, <<>>, 0) /\ KeysOf(<<>>) = f[0]
    BY <1>1, KeysOfCollects
  <1> QED
    BY <1>2 DEF Collects

LEMMA KeysOfAppend ==
  ASSUME NEW S, NEW s \in Seq(S), NEW c \in S
  PROVE  KeysOf(Append(s, c)) = IF c \in Key THEN Append(KeysOf(s), c) ELSE KeysOf(s)
  <1> DEFINE n == Len(s)
             t == Append(s, c)
             last == IF c \in Key THEN Append(KeysOf(s), c) ELSE KeysOf(s)
  <1>1. PICK f : Collects(f, s, n) /\ KeysOf(s) = f[n]
    BY KeysOfCollects
  <1> DEFINE g == [i \in 0..(n + 1) |-> IF i <= n THEN f[i] ELSE last]
  <1>2. n \in Nat /\ t \in Seq(S) /\ Len(t) = n + 1 /\ t[n + 1] = c /\ \A i \in 1..n : t[i] = s[i]
    OBVIOUS
  <1>3. KeysOf(s) \in Seq(Key) /\ last \in Seq(Key)
    BY KeysOfCollects
  <1> HIDE DEF n, t, last
  <1>4. g \in [0..(n + 1) -> Seq(Key)] /\ g[0] = <<>>
    BY <1>1, <1>2, <1>3 DEF Collects
  <1>5. ASSUME NEW i \in 1..(n + 1)
        PROVE  Adds(g[i - 1], g[i], t[i])
    <2>1. CASE i = n + 1
      BY <1>1, <1>2, <2>1 DEF Adds, last
    <2>2. CASE i \in 1..n
      <3>1. g[i - 1] = f[i - 1] /\ g[i] = f[i]
        BY <1>2, <2>2
      <3> QED
        BY <1>1, <1>2, <2>2, <3>1 DEF Collects
    <2> QED
      BY <1>2, <2>1, <2>2
  <1>6. Collects(g, t, Len(t))
    BY <1>2, <1>4, <1>5 DEF Collects
  <1>7. KeysOf(t) = g[n + 1]
    BY <1>2, <1>6, KeysOfIs
  <1> QED
    BY <1>2, <1>7 DEF t, last

LEMMA ConcatAppend ==
  ASSUME NEW S, NEW p \in Seq(S), NEW a \in Seq(S), NEW c \in S
  PROVE  p \o Append(a, c) = Append(p \o a, c)
  OBVIOUS

LEMMA KeysOfTail ==
  ASSUME NEW S, NEW s \in Seq(S), s # <<>>
  PROVE  KeysOf(s) = (IF Head(s) \in Key THEN <<Head(s)>> ELSE <<>>) \o KeysOf(Tail(s))
  <1> DEFINE t == Tail(s)
             n == Len(t)
             p == IF Head(s) \in Key THEN <<Head(s)>> ELSE <<>>
  <1>1. /\ t \in Seq(S) /\ n \in Nat /\ Len(s) = n + 1 /\ s[1] = Head(s)
        /\ \A i \in 1..n : t[i] = s[i + 1]
    BY HeadTailProperties
  <1>2. PICK f : Collects(f, t, n) /\ KeysOf(t) = f[n]
    BY <1>1, KeysOfCollects
  <1>3. p \in Seq(Key) /\ Adds(<<>>, p, s[1])
    BY <1>1 DEF Adds
  <1> DEFINE g == [i \in 0..(n + 1) |-> IF i = 0 THEN <<>> ELSE p \o f[i - 1]]
  <1> HIDE DEF t, n, p
  <1>4. g \in [0..(n + 1) -> Seq(Key)] /\ g[0] = <<>>
    <2>1. ASSUME NEW i \in 1..(n + 1)
          PROVE  p \o f[i - 1] \in Seq(Key)
      <3>1. f[i - 1] \in Seq(Key)
        BY <1>1, <1>2 DEF Collects
      <3> QED
        BY <1>3, <3>1
    <2> QED
      BY <1>1, <2>1
  <1>5. ASSUME NEW i \in 1..(n + 1)
        PROVE  Adds(g[i - 1], g[i], s[i])
    <2>1. CASE i = 1
      <3>1. g[0] = <<>> /\ g[1] = p \o <<>> /\ p \o <<>> = p
        <4>1. f[0] = <<>>
          BY <1>2 DEF Collects
        <4>2. 0 \in 0..(n + 1) /\ 1 \in 0..(n + 1)
          BY <1>1
        <4>3. p \o <<>> = p
          BY <1>3, ConcatEmptySeq
        <4>4. g[1] = p \o f[1 - 1] /\ 1 - 1 = 0
          BY <4>2
        <4>5. g[0] = <<>>
          BY <4>2
        <4> HIDE DEF g
        <4> QED
          BY <4>1, <4>3, <4>4, <4>5
      <3>2. i - 1 = 0
        BY <2>1
      <3> HIDE DEF g
      <3> QED
        BY <1>3, <2>1, <3>1, <3>2
    <2>2. CASE i # 1
      <3>1. i - 1 \in 1..n /\ (i - 1) + 1 = i /\ (i - 1) - 1 = i - 2
        BY <1>1, <2>2
      <3>2. Adds(f[i - 2], f[i - 1], s[i]) /\ f[i - 2] \in Seq(Key)
        BY <1>1, <1>2, <3>1 DEF Collects
      <3>3. g[i - 1] = p \o f[i - 2] /\ g[i] = p \o f[i - 1]
        <4>1. i - 1 \in 0..(n + 1) /\ i \in 0..(n + 1) /\ i - 1 # 0 /\ i # 0
          BY <1>1, <3>1
        <4> QED
          BY <3>1, <4>1
      <3> HIDE DEF g
      <3>4. CASE s[i] \in Key
        <4>1. f[i - 1] = Append(f[i - 2], s[i])
          BY <3>2, <3>4 DEF Adds
        <4>2. p \o f[i - 1] = Append(p \o f[i - 2], s[i])
          <5> DEFINE a == f[i - 2]
          <5>1. p \in Seq(Key) /\ a \in Seq(Key) /\ s[i] \in Key
            BY <1>3, <3>2, <3>4
          <5> HIDE DEF a
          <5>2. p \o Append(a, s[i]) = Append(p \o a, s[i])
            BY <5>1, ConcatAppend
          <5> QED
            BY <4>1, <5>2 DEF a
        <4> QED
          BY <3>3, <3>4, <4>2 DEF Adds
      <3>5. CASE s[i] \notin Key
        BY <3>2, <3>3, <3>5 DEF Adds
      <3> QED
        BY <3>4, <3>5
    <2> QED
      BY <2>1, <2>2
  <1>6. Collects(g, s, Len(s))
    BY <1>1, <1>4, <1>5 DEF Collects
  <1>7. KeysOf(s) = g[n + 1]
    BY <1>1, <1>6, KeysOfIs
  <1>8. KeysOf(s) = p \o KeysOf(t)
    <2>1. n + 1 \in 0..(n + 1) /\ n + 1 # 0 /\ (n + 1) - 1 = n
      BY <1>1
    <2>2. g[n + 1] = p \o f[n]
      BY <2>1
    <2> QED
      BY <1>2, <1>7, <2>2
  <1> QED
    BY <1>8 DEF t, p

\* The keys received are those that went down, the one put off, and those in the UART.
KeysInv == LineInv /\ typed \in Seq(Key \cup Other \cup High) /\ NoKeyLost

LEMMA InitKeysInv == LineInit => KeysInv
  <1> SUFFICES ASSUME LineInit
               PROVE  typed \in Seq(Key \cup Other \cup High) /\ NoKeyLost
    BY InitLineInv DEF KeysInv
  <1>1. typed = <<>> /\ fifo = <<>> /\ pressed = <<>> /\ Deferring = <<>>
    BY DEF LineInit, Deferring
  <1>2. <<>> \o <<>> \o <<>> = <<>>
    BY EmptySeq, ConcatEmptySeq
  <1> QED
    BY <1>1, <1>2, KeysOfEmpty, EmptySeq DEF NoKeyLost

LEMMA StepKeysInv == KeysInv /\ [LineNext]_lineVars => KeysInv'
  <1> SUFFICES ASSUME KeysInv, [LineNext]_lineVars, LineInv'
               PROVE  typed' \in Seq(Key \cup Other \cup High) /\ (~halted' => NoKeyLost')
    BY StepLineInv DEF KeysInv, NoKeyLost
  <1> DEFINE S == Key \cup Other \cup High
  <1>1. typed \in Seq(S) /\ fifo \in Seq(S) /\ pressed \in Seq(Key)
    BY DEF KeysInv, LineInv, LineTypeOK
  <1>2. KeysOf(fifo) \in Seq(Key) /\ KeysOf(typed) \in Seq(Key)
    BY <1>1, KeysOfCollects
  <1>3. ~halted => KeysOf(typed) = pressed \o Deferring \o KeysOf(fifo)
    BY DEF KeysInv, NoKeyLost
  <1>4. lastRelease => lastKey \in Key
    BY DEF KeysInv, LineInv, LineTypeOK
  <1> HIDE DEF S
  <1>5. CASE Deferred
    <2>1. /\ ~halted /\ lastRelease /\ ~lastRelease' /\ pressed' = Append(pressed, lastKey)
          /\ UNCHANGED <<typed, fifo>>
      BY <1>5 DEF Deferred, Calling, GoesDown
    <2>2. Deferring = <<lastKey>> /\ Deferring' = <<>>
      BY <2>1 DEF Deferring
    <2>3. pressed' \in Seq(Key) /\ pressed' = pressed \o <<lastKey>> /\ pressed' \o <<>> = pressed'
      BY <1>1, <1>4, <2>1
    <2> QED
      BY <1>1, <1>3, <2>1, <2>2, <2>3 DEF NoKeyLost, S
  \* A character of the UART's that is no key.
  <1>6. ASSUME NEW c, Char(c), c \notin Key, UNCHANGED <<typed, pressed, lastRelease>>,
               ~lastRelease, ~halted
        PROVE  typed' \in Seq(S) /\ NoKeyLost'
    <2>1. KeysOf(fifo') = KeysOf(fifo)
      <3>1. CASE fifo = <<>>
        BY <1>6, <3>1 DEF Char
      <3>2. CASE fifo # <<>>
        <4>1. KeysOf(fifo) = <<>> \o KeysOf(Tail(fifo)) /\ fifo' = Tail(fifo)
          BY <1>1, <1>6, <3>2, KeysOfTail DEF Char
        <4>2. Tail(fifo) \in Seq(S)
          BY <1>1, <3>2
        <4>3. KeysOf(Tail(fifo)) \in Seq(Key)
          BY <4>2, KeysOfCollects
        <4> QED
          BY <4>1, <4>3, ConcatEmptySeq
      <3> QED
        BY <3>1, <3>2
    <2> QED
      BY <1>1, <1>3, <1>6, <2>1 DEF NoKeyLost, Deferring
  <1>7. ASSUME NEW c \in Chars, Press(c)
        PROVE  typed' \in Seq(S) /\ NoKeyLost'
    <2>1. /\ ~halted /\ ~lastRelease /\ c \in Key /\ lastKey' = c /\ UNCHANGED typed
          /\ \/ pressed' = Append(pressed, c) /\ ~lastRelease'
             \/ pressed' = pressed /\ lastRelease'
      BY <1>7 DEF Press, Calling, GoesDown, ComesUp
    <2>2. fifo # <<>> /\ c = Head(fifo) /\ fifo' = Tail(fifo)
      BY <1>7, <2>1, LineAssumption DEF Press, Char
    <2>3. KeysOf(fifo) = <<c>> \o KeysOf(fifo') /\ KeysOf(fifo') \in Seq(Key)
      <3>1. KeysOf(fifo) = <<c>> \o KeysOf(fifo')
        BY <1>1, <2>1, <2>2, KeysOfTail
      <3>2. fifo' \in Seq(S)
        BY <1>1, <2>2
      <3> QED
        BY <3>1, <3>2, KeysOfCollects
    <2>4. pressed' \o Deferring' = pressed \o <<c>>
      <3>1. CASE pressed' = Append(pressed, c) /\ ~lastRelease'
        BY <1>1, <2>1, <3>1 DEF Deferring
      <3>2. CASE pressed' = pressed /\ lastRelease'
        BY <2>1, <3>2 DEF Deferring
      <3> QED
        BY <2>1, <3>1, <3>2
    <2>5. pressed \o <<>> \o KeysOf(fifo) = (pressed \o <<c>>) \o KeysOf(fifo')
      <3>1. pressed \o <<>> = pressed /\ <<c>> \in Seq(Key)
        BY <1>1, <2>1
      <3> QED
        BY <1>1, <2>3, <3>1, ConcatAssociative, SMTT(20)
    <2> QED
      BY <1>1, <1>3, <2>1, <2>4, <2>5 DEF NoKeyLost, Deferring
  <1>8. ASSUME NEW c \in Chars, Silence(c) \/ Assertion(c)
        PROVE  typed' \in Seq(S) /\ NoKeyLost'
    <2>1. c \notin Key
      BY <1>8, LineAssumption DEF Silence, Assertion
    <2> QED
      BY <1>6, <1>8, <2>1 DEF Silence, Assertion, Calling, NoEvent, ComesUp, driver
  <1>9. ASSUME NEW c \in S, Receive(c)
        PROVE  typed' \in Seq(S) /\ NoKeyLost'
    <2>1. /\ fifo' = Append(fifo, c) /\ typed' = Append(typed, c)
          /\ UNCHANGED <<pressed, halted>> /\ Deferring' = Deferring
      BY <1>9 DEF Receive, driver, Deferring
    <2>2. /\ KeysOf(typed') = IF c \in Key THEN Append(KeysOf(typed), c) ELSE KeysOf(typed)
          /\ KeysOf(fifo') = IF c \in Key THEN Append(KeysOf(fifo), c) ELSE KeysOf(fifo)
      BY <1>1, <2>1, KeysOfAppend
    <2>3. Deferring \in Seq(Key) /\ pressed \o Deferring \in Seq(Key)
      BY <1>1, <1>4 DEF Deferring
    <2>4. typed' \in Seq(S)
      BY <1>1, <1>9, <2>1
    <2>5. CASE c \in Key
      <3>1. (pressed \o Deferring) \o Append(KeysOf(fifo), c)
              = Append((pressed \o Deferring) \o KeysOf(fifo), c)
        BY <1>2, <2>3, <2>5, ConcatAppend
      <3> QED
        BY <1>3, <2>1, <2>2, <2>4, <2>5, <3>1 DEF NoKeyLost
    <2>6. CASE c \notin Key
      BY <1>3, <2>1, <2>2, <2>4, <2>6 DEF NoKeyLost
    <2> QED
      BY <2>5, <2>6
  <1>10. CASE Tick \/ Halted \/ UNCHANGED lineVars
    <2>1. UNCHANGED <<typed, fifo, pressed, halted, lastRelease, lastKey>>
      BY <1>10 DEF Tick, Halted, lineVars, driver
    <2> QED
      BY <1>1, <1>3, <2>1 DEF NoKeyLost, Deferring, S
  <1> QED
    BY <1>5, <1>7, <1>8, <1>9, <1>10 DEF LineNext, Read, S

THEOREM KeysInvariance == LineSpec => []KeysInv
  BY InitKeysInv, StepKeysInv, PTL DEF LineSpec

\* Every key typed goes down in the program once and in order, unless a character the
\* driver's assertion rejects has ended the program.
THEOREM EveryKeyComes == LineSpec => []NoKeyLost
  <1>1. KeysInv => NoKeyLost
    BY DEF KeysInv
  <1> QED
    BY <1>1, KeysInvariance, PTL

-----------------------------------------------------------------------------
(* The port: a program of one kind behaves like the part it uses, and the  *)
(* other parts rest.                                                       *)

LEMMA PortStep ==
  ASSUME [MCNext]_mcvars
  PROVE  [CteNext]_allvars /\ [AudioNext]_audioVars /\ [KbdNext]_kbdVars /\ [LineNext]_lineVars
  BY DEF MCNext, Rests, mcvars

\* Whatever the program uses, each part goes through a behaviour of its own, so that all that
\* is shown of a part holds in the port.
THEOREM PortIsItsParts == MCSpec => CteSpec /\ AudioSpec /\ KbdSpec /\ LineSpec
  <1>1. MCInit => CteInit /\ AudioInit /\ KbdInit /\ LineInit
    BY DEF MCInit
  <1> QED
    BY <1>1, PortStep, PTL DEF MCSpec, CteSpec, AudioSpec, KbdSpec, LineSpec

\* Nothing a program of the port does leaves the types of the state.
THEOREM PortTypeCorrect == MCSpec => []PortTypeOK
  <1>1. CteTypeOK /\ AudioTypeOK /\ KbdTypeOK /\ LineTypeOK => PortTypeOK
    BY DEF PortTypeOK
  <1> QED
    BY <1>1, PortIsItsParts, CteTypeCorrect, AudioTypeCorrect, KbdTypeCorrect, LineTypeCorrect, PTL
=============================================================================
