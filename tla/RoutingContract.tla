-------------------------- MODULE RoutingContract --------------------------
(* What route() promises one caller, with no breaker in sight: a request is  *)
(* tried on candidates of the model it asked for, in their order of          *)
(* preference, on one only when fallback is disabled; it is answered by the  *)
(* candidate tried last, it fails only after a try, and it is refused only   *)
(* before one.  A second try of the same candidate would look like no step:  *)
(* that none is made is part of Router's invariant and of its liveness.      *)
EXTENDS Integers

CONSTANTS Requests, Models, Choices, FallbackEnabled

VARIABLE life

\* A request nobody sent, one that is being tried, and one that is over.
Unsent == [phase |-> "unsent"]

Sent(phase, m, tried) == [phase |-> phase, model |-> m, tried |-> tried]

Pending(r) == life[r].phase = "pending"

Init == life = [r \in Requests |-> Unsent]

\* The request is sent and goes to a first candidate.
Start(r, m) ==
    /\ ~Pending(r)
    /\ \E i \in Choices[m] : life' = [life EXCEPT ![r] = Sent("pending", m, {i})]

\* The request is sent and refused.
Refuse(r, m) ==
    /\ ~Pending(r)
    /\ life' = [life EXCEPT ![r] = Sent("refused", m, {})]

\* The next try is of a candidate preferred less than all those before.
TryNext(r) ==
    /\ Pending(r)
    /\ FallbackEnabled
    /\ \E i \in Choices[life[r].model] :
          /\ \A j \in life[r].tried : j < i
          /\ life' = [life EXCEPT ![r] = Sent("pending", @.model, @.tried \cup {i})]

Finish(r) ==
    /\ Pending(r)
    /\ \E phase \in {"answered", "failed"} :
          life' = [life EXCEPT ![r] = Sent(phase, @.model, @.tried)]

Next ==
    \E r \in Requests :
        \/ \E m \in Models : Start(r, m) \/ Refuse(r, m)
        \/ TryNext(r)
        \/ Finish(r)

Spec == Init /\ [][Next]_life
============================================================================
