------------------------------ MODULE KeyQueue ------------------------------
(***************************************************************************)
(* What the key queue of the native port promises: events come out once,   *)
(* in the order they went in.  It has no test for full: the event that     *)
(* would fill the last slot makes it empty.                                *)
(***************************************************************************)
EXTENDS Naturals, Sequences

CONSTANT QueueLen

VARIABLES content,    \* numbers of the events in the queue
          queued,     \* events that have gone in
          got         \* number of the event taken out last, 0 for none

vars == <<content, queued, got>>

Init == content = <<>> /\ queued = 0 /\ got = 0

Put == /\ queued' = queued + 1
       /\ content' = IF Len(content) = QueueLen - 1 THEN <<>> ELSE Append(content, queued')
       /\ UNCHANGED got

Get == /\ content # <<>>
       /\ got' = Head(content) /\ content' = Tail(content)
       /\ UNCHANGED queued

Next == Put \/ Get

Spec == Init /\ [][Next]_vars
=============================================================================
