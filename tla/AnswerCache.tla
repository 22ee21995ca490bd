----------------------------- MODULE AnswerCache -----------------------------
(* What a cache of answers promises, however it is organised: it may forget  *)
(* anything at any time, but what it gives for a query is the answer to one  *)
(* that it may serve in its stead, kept no longer than Ttl ticks ago.       *)
EXTENDS Integers

CONSTANTS
    Queries,
    Ttl,
    Serves(_, _)    \* Serves(a, q): the answer to a may be given for q

VARIABLES
    kept,    \* the answers at hand, each with the ticks it may still be given
    given    \* request |-> the query it made and the one whose answer it got

Init == kept = {} /\ \A r \in DOMAIN given : given[r] = <<>>

Forget == kept' \subseteq kept

\* A query is answered from the cache.
Give(r, q) ==
    /\ \E k \in kept : Serves(k.answer, q) /\ given' = [given EXCEPT ![r] = <<q, k.answer>>]
    /\ Forget

\* A query is not answered, now or any more.
Pass(r) == given' = [given EXCEPT ![r] = <<>>] /\ Forget

Keep(r, q) ==
    /\ kept' \subseteq kept \cup {[answer |-> q, left |-> Ttl]}
    /\ given' = [given EXCEPT ![r] = <<>>]

Age ==
    /\ kept' \subseteq {[k EXCEPT !.left = @ - 1] : k \in {k \in kept : k.left > 0}}
    /\ UNCHANGED given

Next ==
    \/ \E r \in DOMAIN given :
          \/ Pass(r)
          \/ \E q \in Queries : Give(r, q) \/ Keep(r, q)
    \/ Age

Spec == Init /\ [][Next]_<<kept, given>>
=============================================================================
