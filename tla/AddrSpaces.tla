------------------------------ MODULE AddrSpaces ------------------------------
(***************************************************************************)
(* What the virtual memory extension promises: an address space is a map   *)
(* from pages to what they are mapped to; a protected space starts with    *)
(* the kernel's pages and nothing else, and mapping a page in one space    *)
(* adds it to that space alone and replaces nothing.                       *)
(***************************************************************************)
CONSTANTS Kas, User,         \* the kernel's space and the protected ones
          KernelVa, UserVa,  \* pages of the kernel segments and of user areas
          Pa, Fault

VARIABLES made,              \* spaces that exist
          tr                 \* per space: the map

vars == <<made, tr>>

Identity == [v \in KernelVa \cup UserVa |-> IF v \in KernelVa THEN v ELSE Fault]

Init == /\ made = {}
        /\ tr = [s \in {Kas} \cup User |-> [v \in KernelVa \cup UserVa |-> Fault]]

VmeInit == /\ made = {}
           /\ made' = {Kas}
           /\ tr' = [tr EXCEPT ![Kas] = Identity]

Protect(s) == /\ Kas \in made /\ s \notin made
              /\ made' = made \cup {s}
              /\ tr' = [tr EXCEPT ![s] = Identity]

\* The entry alone comes first, so that TLC is quick to see that a step is no Map.
Map(s, v, p) == /\ s \in made
                /\ tr[s][v] = Fault
                /\ tr'[s][v] = p
                /\ tr' = [tr EXCEPT ![s][v] = p]
                /\ UNCHANGED made

Next == \/ VmeInit
        \/ \E s \in User : \/ Protect(s)
                           \/ \E v \in UserVa, p \in Pa : Map(s, v, p)

Spec == Init /\ [][Next]_vars
=============================================================================
