----------------------------- MODULE BarrierSpec -----------------------------
(***************************************************************************)
(* What _barrier() promises its callers: a hart leaves its k-th barrier    *)
(* only when every hart has entered its own k-th barrier.                  *)
(***************************************************************************)
EXTENDS Integers

CONSTANT Hart

VARIABLES arrivals,    \* how many barriers each hart has entered
          inside       \* the harts between entry and exit

vars == <<arrivals, inside>>

Init == arrivals = [h \in Hart |-> 0] /\ inside = {}

Enter(h) == /\ h \notin inside
            /\ arrivals' = [arrivals EXCEPT ![h] = @ + 1]
            /\ inside' = inside \cup {h}

Leave(h) == /\ h \in inside
            /\ \A g \in Hart : arrivals[g] >= arrivals[h]
            /\ inside' = inside \ {h}
            /\ UNCHANGED arrivals

Next == \E h \in Hart : Enter(h) \/ Leave(h)

Spec == Init /\ [][Next]_vars
=============================================================================
