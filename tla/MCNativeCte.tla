----------------------------- MODULE MCNativeCte -----------------------------
\* The native port for TLC: a program either uses traps and address spaces (NativeCte), or
\* one of the devices: the audio ring, the key queue, or, on NOOP, the serial keyboard.
\* What it does not use stays as it is.  Model values are those of NativeVme.cfg.
EXTENDS NativeCte, AudioRing, NativeKbd, NoopKbd

VARIABLE part     \* what the program uses

mcvars == <<allvars, audioVars, kbdVars, lineVars, part>>

MCInit == /\ part \in {"cte", "audio", "keys", "line"}
          /\ CteInit /\ AudioInit /\ KbdInit /\ LineInit
          /\ part # "cte" => traps
          /\ part # "audio" => native /\ ~wait /\ \A n \in PlayLen : len <= n
          /\ part # "keys" => ~polls /\ initFlag = 1
          /\ part # "line" => age = 0

\* Nobody types, and the program does not look.
Rests == part = "keys" /\ thread \in {"none", "wait"} /\ reader = "out" /\ UNCHANGED mcvars

MCNext == /\ \/ part = "cte" /\ CteNext /\ UNCHANGED <<audioVars, kbdVars, lineVars>>
             \/ part = "audio" /\ AudioNext /\ UNCHANGED <<allvars, kbdVars, lineVars>>
             \/ part = "keys" /\ KbdNext /\ UNCHANGED <<allvars, audioVars, lineVars>>
             \/ part = "line" /\ LineNext /\ UNCHANGED <<allvars, audioVars, kbdVars>>
             \/ Rests
          /\ UNCHANGED part

\* SDL keeps calling the player back, the program and the event thread run, though nobody
\* has to type, SIGUSR1 is not blocked for ever, a mutex that is free again and again is had
\* at last, and the program on NOOP polls while time passes.
DeviceFairness ==
  /\ WF_audioVars(part = "audio" /\ Program) /\ WF_audioVars(part = "audio" /\ Player)
  /\ WF_kbdVars(part = "keys" /\ EventThread /\ ~KeyEvent) /\ WF_kbdVars(part = "keys" /\ Reader)
  /\ SF_kbdVars(part = "keys" /\ ThreadLocks)
  /\ WF_lineVars(part = "line" /\ Read) /\ WF_lineVars(part = "line" /\ Tick)

MCSpec == /\ MCInit /\ [][MCNext]_mcvars
          /\ WF_allvars(VmeStep) /\ WF_allvars(Leave)
          /\ DeviceFairness

PortTypeOK == CteTypeOK /\ AudioTypeOK /\ KbdTypeOK /\ LineTypeOK
=============================================================================
