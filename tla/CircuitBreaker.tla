--------------------------- MODULE CircuitBreaker ---------------------------
(* The circuit breaker every registered provider has                        *)
(* (app/backend/src/providers/registry.py, class CircuitBreaker).           *)
(*                                                                          *)
(* A breaker is a value, and its methods are operators on it, because the   *)
(* registry, the alias resolution and the router all call them inside       *)
(* larger steps.  Two fields of the class are abstracted, both exactly:     *)
(*  - `failures' is only ever compared with the threshold after it grew, so *)
(*    it saturates there;                                                   *)
(*  - `opened_at' is only read as `monotonic() - opened_at >= recovery', so *)
(*    the record keeps open_for, the time since the breaker opened, which   *)
(*    saturates at RecoverySeconds and is 0 unless the breaker is open.     *)
EXTENDS Naturals

CONSTANTS
    FailureThreshold,   \* circuit_breaker_failure_threshold
    RecoverySeconds     \* circuit_breaker_recovery_seconds, in clock ticks

ASSUME FailureThresholdAssumption == FailureThreshold \in Nat \ {0}
ASSUME RecoverySecondsAssumption == RecoverySeconds \in Nat

CircuitState == {"closed", "open", "half_open"}

Breaker == [failures : 0 .. FailureThreshold,
            state    : CircuitState,
            open_for : 0 .. RecoverySeconds]

\* A breaker as register() builds it.
NewBreaker == [failures |-> 0, state |-> "closed", open_for |-> 0]

\* Mutant: a success closes the breaker but leaves its count.
RecordSuccessKeepsCount(b) == [b EXCEPT !.state = "closed", !.open_for = 0]

RecordSuccess(b) == NewBreaker

\* The failure that reaches the threshold opens the breaker; every later one,
\* the failed trial of a half-open breaker or the late answer of a call begun
\* before it opened, opens it afresh and restarts its recovery time.
RecordFailure(b) ==
    LET n == IF b.failures < FailureThreshold THEN b.failures + 1 ELSE b.failures
    IN  IF n = FailureThreshold
        THEN [failures |-> n, state |-> "open", open_for |-> 0]
        ELSE [b EXCEPT !.failures = n]

Recovered(b) == b.open_for = RecoverySeconds

\* What allow() returns, and the breaker it leaves behind: asking an open
\* breaker whose recovery time has passed makes it half-open.
Allows(b) == b.state = "open" => Recovered(b)

\* Mutant: allow() lets the call through and forgets to change the state.
AfterAllowStaysOpen(b) == b

AfterAllow(b) ==
    IF b.state = "open" /\ Recovered(b)
    THEN [failures |-> b.failures, state |-> "half_open", open_for |-> 0]
    ELSE b

\* One tick of the monotonic clock.
Elapse(b) ==
    IF b.state = "open" /\ ~Recovered(b)
    THEN [b EXCEPT !.open_for = @ + 1]
    ELSE b

\* The breaker stands open exactly while `failures' is at the threshold: a
\* half-open breaker keeps its count, which is why a single failed trial
\* reopens it, and no path closes a breaker without clearing the count.
Consistent(b) == b.state = "closed" <=> b.failures < FailureThreshold
=============================================================================
