----------------------------- MODULE IrqDelivery -----------------------------
(***************************************************************************)
(* What the interrupt path of the RISC-V port promises the devices: a      *)
(* request lasts until the handler that claimed its source withdraws it,   *)
(* claims never overlap, and none is completed before it is withdrawn.  A  *)
(* request made again under the handler may or may not outlive the         *)
(* withdrawal: the device cannot tell which of the two was served.         *)
(* How the request travels (PLIC, machine mode, supervisor mode) is left   *)
(* to the implementation, RvTrap.                                          *)
(***************************************************************************)
CONSTANT Src                 \* interrupt sources wired to the PLIC

VARIABLES wanted,            \* sources that have a request
          insvc,             \* sources claimed and not yet completed
          withdrawn,         \* has the request of the claimed source been withdrawn?
          again              \* was it made again before that?

vars == <<wanted, insvc, withdrawn, again>>

Init == wanted = {} /\ insvc = {} /\ withdrawn = FALSE /\ again = FALSE

\* A device makes a request.
Request(i) == /\ i \notin wanted
              /\ wanted' = wanted \cup {i}
              /\ UNCHANGED <<insvc, withdrawn, again>>

\* A device repeats the request that is being served.
Renew(i) == /\ i \in insvc /\ ~withdrawn
            /\ again' = TRUE
            /\ UNCHANGED <<wanted, insvc, withdrawn>>

\* The handler claims one source; it must not be serving another one.
Claim(i) == /\ insvc = {}
            /\ i \in wanted
            /\ insvc' = {i}
            /\ UNCHANGED <<wanted, withdrawn, again>>

\* The request of the claimed source, and no other, is withdrawn, unless it stands
\* for one made again.
Withdraw(i) == /\ i \in insvc /\ ~withdrawn
               /\ wanted' = wanted \ {i} \/ (again /\ wanted' = wanted)
               /\ withdrawn' = TRUE /\ again' = FALSE
               /\ UNCHANGED insvc

Complete == /\ withdrawn
            /\ insvc' = {} /\ withdrawn' = FALSE
            /\ UNCHANGED <<wanted, again>>

Next == \/ \E i \in Src : Request(i) \/ Renew(i) \/ Claim(i) \/ Withdraw(i)
        \/ Complete

Spec == Init /\ [][Next]_vars
=============================================================================
