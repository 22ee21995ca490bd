---------------------------- MODULE SlidingQuota ----------------------------
(* The promise of a request limit: in any Window ticks and the tick they     *)
(* started in, at most Limit requests are let through.                      *)
EXTENDS Naturals, Functions

CONSTANTS Window, Limit

VARIABLE passed    \* passed[a]: the requests let through a ticks ago

Total == SumFunction(passed)

Init == passed = [a \in 0 .. Window |-> 0]

Pass == Total < Limit /\ passed' = [passed EXCEPT ![0] = @ + 1]

Age == passed' = [a \in 0 .. Window |-> IF a = 0 THEN 0 ELSE passed[a - 1]]

Spec == Init /\ [][Pass \/ Age]_passed
=============================================================================
