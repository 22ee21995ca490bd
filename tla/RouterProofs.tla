---------------------------- MODULE RouterProofs ----------------------------
(* Theorems about the router, for every registry, every table of candidates, *)
(* any number of concurrent requests, and every threshold and recovery time. *)
(* What resolve_chain lists is stated with Lists: which places of the        *)
(* registry a list shows, in which order.  There is one such list for a      *)
(* strict order (OneListing), so two ways to it need no comparing.           *)
EXTENDS Routing, FoldLemmas, SequenceTheorems

-----------------------------------------------------------------------------
(* The breaker's methods                                                    *)

\* Every method of a breaker returns a breaker, and keeps it consistent.
LEMMA BreakerMethods ==
    ASSUME NEW b \in Breaker
    PROVE  /\ RecordSuccess(b) \in Breaker /\ Consistent(RecordSuccess(b))
           /\ RecordFailure(b) \in Breaker
           /\ Consistent(b) => Consistent(RecordFailure(b))
           /\ AfterAllow(b) \in Breaker
           /\ Consistent(b) => Consistent(AfterAllow(b))
           /\ Elapse(b) \in Breaker
           /\ Consistent(b) => Consistent(Elapse(b))
<1> USE FailureThresholdAssumption, RecoverySecondsAssumption
        DEF Breaker, CircuitState, Recovered, Consistent
<1>1. RecordSuccess(b) \in Breaker /\ Consistent(RecordSuccess(b))
  BY DEF RecordSuccess, NewBreaker
<1>2. RecordFailure(b) \in Breaker /\ (Consistent(b) => Consistent(RecordFailure(b)))
  BY DEF RecordFailure
<1>3. AfterAllow(b) \in Breaker /\ (Consistent(b) => Consistent(AfterAllow(b)))
  BY DEF AfterAllow
<1>4. Elapse(b) \in Breaker /\ (Consistent(b) => Consistent(Elapse(b)))
  BY DEF Elapse
<1> QED
  BY <1>1, <1>2, <1>3, <1>4

\* A breaker that was asked and allowed the call does not stand open, and
\* allows the next call too.
LEMMA AllowedIsNotOpen ==
    ASSUME NEW b \in Breaker, Allows(b)
    PROVE  AfterAllow(b).state # "open" /\ Allows(AfterAllow(b))
BY DEF Breaker, CircuitState, AfterAllow, Allows, Recovered

-----------------------------------------------------------------------------
(* The loop                                                                 *)

\* The positions of a model's candidates are numbers from 1 on, and each
\* names a registered provider.
LEMMA PositionsOfModel ==
    ASSUME NEW m \in Models \cup Aliases
    PROVE  /\ Positions(m) \subseteq Nat \ {0}
           /\ \A i \in Positions(m) : ProviderAt(m, i) \in Providers
<1>1. Candidates[m] \in Seq(Candidate)
  BY CandidatesAssumption
<1>2. Positions(m) = 1 .. Len(Candidates[m]) /\ Len(Candidates[m]) \in Nat
  BY <1>1 DEF Positions
<1>3. \A i \in Positions(m) : Candidates[m][i] \in Candidate
  BY <1>1, <1>2
<1>4. \A i \in Positions(m) : ProviderAt(m, i) \in Providers
  BY <1>3 DEF ProviderAt, Candidate
<1> QED
  BY <1>2, <1>4

\* The next position is one of the chain, further on, and free to be called.
LEMMA NextPositionIsNext ==
    ASSUME NEW q, NEW brk, NEW i \in NextPosition(q, brk)
    PROVE  /\ i \in q.chain
           /\ i > q.at
           /\ Allows(brk[ProviderAt(q.model, i)])
BY DEF NextPosition

\* There is one as long as any candidate further on may be called.
LEMMA NextPositionExists ==
    ASSUME NEW m \in Models \cup Aliases, NEW q \in RequestFor(m), NEW brk,
           NextPosition(q, brk) = {}, NEW i \in q.chain, i > q.at
    PROVE  ~Allows(brk[ProviderAt(m, i)])
<1> SUFFICES ASSUME Allows(brk[ProviderAt(m, i)]) PROVE FALSE
  OBVIOUS
<1> DEFINE S == {j \in q.chain : j > q.at /\ Allows(brk[ProviderAt(q.model, j)])}
<1>1. q.model = m /\ q.chain \subseteq Nat
  BY PositionsOfModel DEF RequestFor
<1>2. i \in S /\ S \in SUBSET Nat
  BY <1>1
<1>3. PICK k \in S : \A j \in S : k <= j
  <2> HIDE DEF S
  <2> QED
    BY <1>2, FirstExists
<1>4. k \in NextPosition(q, brk)
  BY <1>3 DEF NextPosition
<1> QED
  BY <1>4

\* Asking the breakers for resolve_chain leaves them typed and consistent, and
\* a candidate that was allowed is still allowed.
LEMMA AfterResolveOK ==
    ASSUME NEW m \in Models \cup Aliases, TypeOK
    PROVE  /\ AfterResolve(m) \in [Providers -> Breaker]
           /\ BreakersConsistent => \A p \in Providers : Consistent(AfterResolve(m)[p])
           /\ \A p \in Providers : Allows(breaker[p]) => Allows(AfterResolve(m)[p])
<1>1. \A p \in Providers : breaker[p] \in Breaker
  BY DEF TypeOK
<1>2. \A p \in Providers : AfterResolve(m)[p] \in {breaker[p], AfterAllow(breaker[p])}
  BY DEF AfterResolve
<1>3. AfterResolve(m) \in [Providers -> Breaker]
  BY <1>1, BreakerMethods DEF AfterResolve
<1>4. \A p \in Providers : Consistent(breaker[p]) => Consistent(AfterResolve(m)[p])
  BY <1>1, <1>2, BreakerMethods
<1>5. \A p \in Providers : Allows(breaker[p]) => Allows(AfterResolve(m)[p])
  BY <1>1, <1>2, AllowedIsNotOpen
<1> QED
  BY <1>3, <1>4, <1>5 DEF BreakersConsistent

\* The locals that resolve_chain leaves to the loop.
LEMMA ResolvedOK ==
    ASSUME NEW m \in Models \cup Aliases, TypeOK
    PROVE  /\ Resolved(m) \in RequestFor(m)
           /\ \A i \in ResolveChain(m) :
                /\ i \in Nat \ {0}
                /\ ProviderAt(m, i) \in Providers
                /\ Allows(AfterResolve(m)[ProviderAt(m, i)])
           /\ ~FallbackEnabled => \A i, j \in ResolveChain(m) : i = j
<1>1. ResolveChain(m) \subseteq AllowedPositions(m) /\ AllowedPositions(m) \subseteq Positions(m)
  BY DEF ResolveChain, AllowedPositions
<1>2. Resolved(m) \in RequestFor(m)
  BY <1>1 DEF Resolved, RequestFor
<1>3. \A i \in ResolveChain(m) : Allows(breaker[ProviderAt(m, i)])
  BY DEF ResolveChain, AllowedPositions
<1>4. \A i \in ResolveChain(m) : i \in Nat \ {0} /\ ProviderAt(m, i) \in Providers
  BY <1>1, PositionsOfModel
<1>5. ~FallbackEnabled => \A i, j \in ResolveChain(m) : i = j
  <2> SUFFICES ASSUME ~FallbackEnabled, NEW i \in ResolveChain(m), NEW j \in ResolveChain(m)
               PROVE  i = j
    OBVIOUS
  <2>1. i <= j /\ j <= i
    BY <1>1 DEF ResolveChain
  <2> QED
    BY <2>1, <1>4
<1> QED
  BY <1>2, <1>3, <1>4, <1>5, AfterResolveOK

-----------------------------------------------------------------------------
(* The inductive invariant                                                  *)

\* What the loop needs of its locals when it looks for its next candidate.
Ready(q, brk) ==
    /\ \A j \in q.attempts : j <= q.at
    /\ ~FallbackEnabled =>
          \A i, j \in q.chain : i > q.at /\ j > q.at => i = j
    /\ NextPosition(q, brk) = {} =>
          /\ q.at \in q.attempts
          /\ \A i \in q.chain : FallbackEnabled \/ i <= q.at

\* A request of the table that is not idle is one for its own model.
LEMMA RequestHasModel ==
    ASSUME NEW q \in Request, q # Idle
    PROVE  /\ q.model \in Models \cup Aliases
           /\ q \in RequestFor(q.model)
BY DEF Request, RequestFor

\* The invariant survives the replacement of one request and of the breakers.
LEMMA InvUpdate ==
    ASSUME Inv, NEW r \in Requests,
           NEW m \in Models \cup Aliases, NEW q \in RequestFor(m), WalkOK(q),
           req' = [req EXCEPT ![r] = q],
           breaker' \in [Providers -> Breaker],
           \A p \in Providers : Consistent(breaker'[p])
    PROVE  Inv'
<1>1. q \in Request
  BY DEF Request
<1>2. req' \in [Requests -> Request] /\ req \in [Requests -> Request]
  BY <1>1 DEF Inv, TypeOK
<1>3. \A s \in Requests : req'[s] = IF s = r THEN q ELSE req[s]
  BY <1>2
<1>4. \A s \in Requests : req'[s] # Idle => WalkOK(req'[s])
  BY <1>3 DEF Inv
<1> QED
  BY <1>2, <1>4 DEF Inv, TypeOK, BreakersConsistent

\* Whatever locals the loop starts from, it ends at an await or a failure
\* where the invariant holds.
LEMMA ProceedPreserves ==
    ASSUME Inv, NEW r \in Requests, NEW m \in Models \cup Aliases,
           NEW q \in RequestFor(m), NEW brk \in [Providers -> Breaker],
           \A p \in Providers : Consistent(brk[p]),
           Ready(q, brk), Proceed(r, q, brk)
    PROVE  Inv'
<1>1. q.model = m /\ q.chain \subseteq Positions(m) /\ q.attempts \subseteq Positions(m)
      /\ q.at \in Nat
  BY PositionsOfModel DEF RequestFor
<1>2. CASE NextPosition(q, brk) = {}
  <2>1. req' = [req EXCEPT ![r] = Ended(q, "all_failed")] /\ breaker' = brk
    BY <1>2 DEF Proceed
  <2>2. Ended(q, "all_failed") \in RequestFor(m)
    BY DEF Ended, RequestFor
  <2>3. WalkOK(Ended(q, "all_failed"))
    BY <1>2 DEF WalkOK, Ended, Ready
  <2> QED
    BY <2>1, <2>2, <2>3, InvUpdate
<1>3. CASE NextPosition(q, brk) # {}
  <2>1. PICK i \in NextPosition(q, brk) :
           LET p == ProviderAt(q.model, i)
               b == AfterAllow(brk[p])
           IN  /\ breaker' = [brk EXCEPT ![p] = b]
               /\ req' = [req EXCEPT ![r] = CallAt(q, i)]
    BY <1>3 DEF Proceed
  <2> DEFINE p == ProviderAt(m, i)
             b == AfterAllow(brk[p])
             c == CallAt(q, i)
  <2>2. i \in q.chain /\ i > q.at /\ i \in Nat \ {0} /\ p \in Providers
    BY <1>1, NextPositionIsNext, PositionsOfModel
  <2>3. breaker' \in [Providers -> Breaker] /\ \A x \in Providers : Consistent(breaker'[x])
    BY <1>1, <2>1, <2>2, BreakerMethods
  <2>4. c \in RequestFor(m)
    BY <1>1, <2>2 DEF CallAt, RequestFor
  <2>5. WalkOK(c)
    <3>1. \A j \in c.attempts : j <= c.at
      BY <1>1, <2>2, PositionsOfModel DEF CallAt, Ready
    <3>2. \A k \in c.chain : FallbackEnabled \/ k <= c.at
      BY <1>1, <2>2, PositionsOfModel DEF CallAt, Ready
    <3> QED
      BY <3>1, <3>2 DEF WalkOK, CallAt
  <2> QED
    BY <1>1, <2>1, <2>3, <2>4, <2>5, InvUpdate
<1> QED
  BY <1>2, <1>3

\* A request in a call may go on with the loop.
LEMMA CallingIsReady ==
    ASSUME Inv, NEW r \in Requests, Calling(r)
    PROVE  /\ req[r] # Idle
           /\ req[r].model \in Models \cup Aliases
           /\ req[r] \in RequestFor(req[r].model)
           /\ req[r].at \in req[r].attempts
           /\ Callee(r) \in Providers
           /\ \A brk : Ready(req[r], brk)
<1>1. req[r] \in Request /\ req[r] # Idle
  BY DEF Inv, TypeOK, Calling, Idle
<1>2. req[r].model \in Models \cup Aliases /\ req[r] \in RequestFor(req[r].model)
  BY <1>1, RequestHasModel
<1>3. WalkOK(req[r]) /\ req[r].at \in req[r].attempts
  BY <1>1 DEF Inv, WalkOK, Calling
<1>4. req[r].attempts \subseteq Positions(req[r].model)
      /\ req[r].chain \subseteq Positions(req[r].model)
  BY <1>2 DEF RequestFor
<1>5. Callee(r) \in Providers
  BY <1>2, <1>3, <1>4, PositionsOfModel DEF Callee
<1>6. ASSUME NEW brk PROVE Ready(req[r], brk)
  <2>1. \A i \in req[r].chain : i \in Nat
    BY <1>2, <1>4, PositionsOfModel
  <2>2. req[r].at \in Nat
    BY <1>2, <1>3, <1>4, PositionsOfModel
  <2> QED
    BY <1>3, <2>1, <2>2 DEF WalkOK, Ready
<1> QED
  BY <1>1, <1>2, <1>3, <1>5, <1>6

\* The chain resolve_chain returned, unless it is empty, has a first candidate
\* whose breaker still allows the call it was asked about an instant ago.
LEMMA ResolvedIsReady ==
    ASSUME NEW m \in Models \cup Aliases, TypeOK, ResolveChain(m) # {}
    PROVE  /\ NextPosition(Resolved(m), AfterResolve(m)) # {}
           /\ Ready(Resolved(m), AfterResolve(m))
<1>1. Resolved(m) \in RequestFor(m)
      /\ Resolved(m).chain = ResolveChain(m)
      /\ Resolved(m).at = 0 /\ Resolved(m).attempts = {}
  BY ResolvedOK DEF Resolved
<1>2. PICK i \in ResolveChain(m) : i > 0 /\ Allows(AfterResolve(m)[ProviderAt(m, i)])
  BY ResolvedOK
<1>3. NextPosition(Resolved(m), AfterResolve(m)) # {}
  BY <1>1, <1>2, NextPositionExists
<1>4. Ready(Resolved(m), AfterResolve(m))
  BY <1>1, <1>3, ResolvedOK DEF Ready
<1> QED
  BY <1>3, <1>4

\* The end of a call: the outcome is recorded with the provider and the request
\* is over.
LEMMA EndPreserves ==
    ASSUME Inv, NEW r \in Requests, Calling(r),
           NEW pc \in {"ok", "all_failed"}, NEW b \in Breaker, Consistent(b),
           breaker' = [breaker EXCEPT ![Callee(r)] = b],
           req' = [req EXCEPT ![r] = Ended(req[r], pc)]
    PROVE  Inv'
<1>1. breaker' \in [Providers -> Breaker] /\ \A p \in Providers : Consistent(breaker'[p])
  BY CallingIsReady DEF Inv, TypeOK, BreakersConsistent
<1>2. Ended(req[r], pc) \in RequestFor(req[r].model)
  BY CallingIsReady DEF Ended, RequestFor
<1>3. WalkOK(Ended(req[r], pc))
  BY CallingIsReady DEF Inv, WalkOK, Ended, Calling
<1> QED
  BY <1>1, <1>2, <1>3, CallingIsReady, InvUpdate

\* The router starts with closed breakers and idle requests.
LEMMA InitInv == Init => Inv
BY FailureThresholdAssumption, RecoverySecondsAssumption
DEF Init, Inv, TypeOK, BreakersConsistent, Request, Idle, NewBreaker, Breaker,
       CircuitState, Consistent

\* And every step keeps the invariant.
LEMMA NextInv == Inv /\ [Next]_vars => Inv'
<1> SUFFICES ASSUME Inv, [Next]_vars PROVE Inv'
  OBVIOUS
<1>1. breaker \in [Providers -> Breaker] /\ \A p \in Providers : Consistent(breaker[p])
  BY DEF Inv, TypeOK, BreakersConsistent
<1>2. ASSUME NEW r \in Requests, NEW m \in Models \cup Aliases, Route(r, m) PROVE Inv'
  <2>1. AfterResolve(m) \in [Providers -> Breaker]
        /\ \A p \in Providers : Consistent(AfterResolve(m)[p])
    BY AfterResolveOK DEF Inv
  <2>2. Resolved(m) \in RequestFor(m)
    BY ResolvedOK DEF Inv
  <2>3. CASE Resolved(m).chain = {}
    <3>1. breaker' = AfterResolve(m) /\ req' = [req EXCEPT ![r] = Resolved(m)]
      BY <1>2, <2>3 DEF Route
    <3>2. WalkOK(Resolved(m))
      BY <2>3 DEF WalkOK, Resolved
    <3> QED
      BY <2>1, <2>2, <3>1, <3>2, InvUpdate
  <2>4. CASE Resolved(m).chain # {}
    <3>1. Proceed(r, Resolved(m), AfterResolve(m))
      BY <1>2, <2>4 DEF Route
    <3>2. ResolveChain(m) # {}
      BY <2>4 DEF Resolved
    <3> QED
      BY <2>1, <2>2, <3>1, <3>2, ResolvedIsReady, ProceedPreserves DEF Inv
  <2> QED
    BY <2>3, <2>4
<1>3. ASSUME NEW r \in Requests, ChatSucceeds(r) PROVE Inv'
  <2>1. RecordSuccess(breaker[Callee(r)]) \in Breaker
        /\ Consistent(RecordSuccess(breaker[Callee(r)]))
    BY <1>1, <1>3, CallingIsReady, BreakerMethods DEF ChatSucceeds
  <2> QED
    BY <1>3, <2>1, EndPreserves DEF ChatSucceeds
<1>4. ASSUME NEW r \in Requests, ChatFailsRetryably(r) PROVE Inv'
  <2> DEFINE brk == [breaker EXCEPT ![Callee(r)] = RecordFailure(@)]
  <2>1. brk \in [Providers -> Breaker] /\ \A p \in Providers : Consistent(brk[p])
    BY <1>1, <1>4, CallingIsReady, BreakerMethods DEF ChatFailsRetryably
  <2>2. Calling(r) /\ Proceed(r, req[r], brk)
    BY <1>4 DEF ChatFailsRetryably
  <2> HIDE DEF brk
  <2> QED
    BY <2>1, <2>2, CallingIsReady, ProceedPreserves
<1>5. ASSUME NEW r \in Requests, ChatFailsForGood(r) PROVE Inv'
  <2>1. RecordFailure(breaker[Callee(r)]) \in Breaker
        /\ Consistent(RecordFailure(breaker[Callee(r)]))
    BY <1>1, <1>5, CallingIsReady, BreakerMethods DEF ChatFailsForGood
  <2> QED
    BY <1>5, <2>1, EndPreserves DEF ChatFailsForGood
<1>6. CASE Tick
  <2>1. breaker' \in [Providers -> Breaker] /\ \A p \in Providers : Consistent(breaker'[p])
    BY <1>1, <1>6, BreakerMethods DEF Tick
  <2> QED
    BY <1>6, <2>1 DEF Tick, Inv, TypeOK, BreakersConsistent
<1>7. CASE UNCHANGED vars
  BY <1>7 DEF vars, Inv, TypeOK, BreakersConsistent
<1> QED
  BY <1>2, <1>3, <1>4, <1>5, <1>6, <1>7 DEF Next

\* The registry and the requests have their types, breakers are consistent and
\* every request stands where its chain says, in every reachable state.
THEOREM Invariance == Spec => []Inv
BY InitInv, NextInv, PTL DEF Spec

\* Type correctness of the registry and of the locals of route().
THEOREM TypeCorrectness == Spec => []TypeOK
<1>1. Inv => TypeOK
  BY DEF Inv
<1> QED
  BY <1>1, Invariance, PTL

\* No interleaving of late answers and trials separates the state of a breaker
\* from its failure count.
THEOREM BreakerConsistency == Spec => []BreakersConsistent
<1>1. Inv => BreakersConsistent
  BY DEF Inv
<1> QED
  BY <1>1, Invariance, PTL

\* A 502 always follows the call of a provider.
THEOREM NoUntriedFailure == Spec => []NeverFailsUntried
<1>1. Inv => NeverFailsUntried
  <2> SUFFICES ASSUME Inv, NEW r \in Requests, req[r].pc = "all_failed"
               PROVE  req[r].attempts # {}
    BY DEF NeverFailsUntried
  <2>1. req[r] # Idle
    BY DEF Idle
  <2> QED
    BY <2>1 DEF Inv, WalkOK
<1> QED
  BY <1>1, Invariance, PTL

-----------------------------------------------------------------------------
(* What a step may never do                                                 *)

\* A failure never makes a breaker allow a call it would have refused.
LEMMA FailureDoesNotAllow ==
    ASSUME NEW b \in Breaker, Allows(RecordFailure(b))
    PROVE  Allows(b)
BY DEF Breaker, Allows, RecordFailure, Recovered

\* A step that ends or refuses request r begins no call.
LEMMA EndBeginsNoCall ==
    ASSUME Inv, NEW r \in Requests, NEW q, q.pc # "calling",
           req' = [req EXCEPT ![r] = q], NEW s \in Requests
    PROVE  ~BeginsCall(s)
BY DEF Inv, TypeOK, BeginsCall

\* A loop begins a call of its own request only, at its next position, whose
\* breaker allowed it and does not stand open any more.
LEMMA ProceedBeginsAllowedCall ==
    ASSUME Inv, NEW r \in Requests, NEW m \in Models \cup Aliases,
           NEW q \in RequestFor(m), NEW brk \in [Providers -> Breaker],
           Proceed(r, q, brk), NEW s \in Requests, BeginsCall(s)
    PROVE  \E i \in NextPosition(q, brk) :
              /\ s = r
              /\ NextCallee(s) = ProviderAt(m, i)
              /\ Allows(brk[ProviderAt(m, i)])
              /\ breaker'[ProviderAt(m, i)].state # "open"
<1>1. q.model = m /\ q.chain \subseteq Positions(m)
  BY DEF RequestFor
<1>2. req \in [Requests -> Request]
  BY DEF Inv, TypeOK
<1>3. CASE NextPosition(q, brk) = {}
  <2>1. req' = [req EXCEPT ![r] = Ended(q, "all_failed")]
    BY <1>3 DEF Proceed
  <2>2. Ended(q, "all_failed").pc # "calling"
    BY DEF Ended
  <2> QED
    BY <2>1, <2>2, EndBeginsNoCall
<1>4. CASE NextPosition(q, brk) # {}
  <2>1. PICK i \in NextPosition(q, brk) :
           LET p == ProviderAt(q.model, i)
               b == AfterAllow(brk[p])
           IN  /\ breaker' = [brk EXCEPT ![p] = b]
               /\ req' = [req EXCEPT ![r] = CallAt(q, i)]
    BY <1>4 DEF Proceed
  <2> DEFINE p == ProviderAt(m, i)
             c == CallAt(q, i)
  <2>2. Allows(brk[p]) /\ p \in Providers
    BY <1>1, NextPositionIsNext, PositionsOfModel
  <2>3. breaker'[p] = AfterAllow(brk[p]) /\ req' = [req EXCEPT ![r] = c]
    BY <1>1, <2>1, <2>2
  <2>4. s = r /\ req'[s] = c
    <3> HIDE DEF c
    <3> QED
      BY <1>2, <2>3 DEF BeginsCall
  <2>5. NextCallee(s) = p
    BY <1>1, <2>4 DEF NextCallee, CallAt
  <2>6. breaker'[p].state # "open"
    BY <2>2, <2>3, AllowedIsNotOpen
  <2> QED
    BY <2>2, <2>4, <2>5, <2>6
<1> QED
  BY <1>3, <1>4

\* No call begins at a provider whose breaker stands open: neither the one the
\* request found open, nor one that opened while the request was waiting.
THEOREM CallsAreAllowed == Spec => CallsOnlyAllowedProviders
<1>1. Inv /\ [Next]_vars => [\A r \in Requests : CallIsAllowed(r)]_vars
  <2> SUFFICES ASSUME Inv, Next, NEW s \in Requests, BeginsCall(s)
               PROVE  Allows(breaker[NextCallee(s)]) /\ breaker'[NextCallee(s)].state # "open"
    BY DEF CallIsAllowed
  <2>1. breaker \in [Providers -> Breaker]
    BY DEF Inv, TypeOK
  <2>2. ASSUME NEW r \in Requests, NEW m \in Models \cup Aliases, Route(r, m)
        PROVE  Allows(breaker[NextCallee(s)]) /\ breaker'[NextCallee(s)].state # "open"
    <3>1. Resolved(m) \in RequestFor(m) /\ Resolved(m).chain = ResolveChain(m)
          /\ AfterResolve(m) \in [Providers -> Breaker]
      BY ResolvedOK, AfterResolveOK DEF Resolved, Inv
    <3>2. Resolved(m).pc # "calling"
      BY DEF Resolved
    <3>3. Proceed(r, Resolved(m), AfterResolve(m))
      BY <2>2, <3>2, EndBeginsNoCall DEF Route
    <3>4. PICK i \in NextPosition(Resolved(m), AfterResolve(m)) :
             /\ NextCallee(s) = ProviderAt(m, i)
             /\ breaker'[ProviderAt(m, i)].state # "open"
      BY <3>1, <3>3, ProceedBeginsAllowedCall
    <3>5. i \in ResolveChain(m)
      BY <3>1, NextPositionIsNext
    <3>6. Allows(breaker[ProviderAt(m, i)])
      BY <3>5 DEF ResolveChain, AllowedPositions
    <3> QED
      BY <3>4, <3>6
  <2>3. ASSUME NEW r \in Requests, ChatFailsRetryably(r)
        PROVE  Allows(breaker[NextCallee(s)]) /\ breaker'[NextCallee(s)].state # "open"
    <3> DEFINE brk == [breaker EXCEPT ![Callee(r)] = RecordFailure(@)]
               m   == req[r].model
    <3>1. Calling(r) /\ Proceed(r, req[r], brk)
      BY <2>3 DEF ChatFailsRetryably
    <3>2. m \in Models \cup Aliases /\ req[r] \in RequestFor(m) /\ Callee(r) \in Providers
      BY <3>1, CallingIsReady
    <3>3. brk \in [Providers -> Breaker]
      BY <2>1, <3>2, BreakerMethods
    <3>4. \A p \in Providers : Allows(brk[p]) => Allows(breaker[p])
      BY <2>1, <3>2, FailureDoesNotAllow
    <3> HIDE DEF brk, m
    <3>5. PICK i \in NextPosition(req[r], brk) :
             /\ NextCallee(s) = ProviderAt(m, i)
             /\ Allows(brk[ProviderAt(m, i)])
             /\ breaker'[ProviderAt(m, i)].state # "open"
      BY <3>1, <3>2, <3>3, ProceedBeginsAllowedCall
    <3>6. ProviderAt(m, i) \in Providers
      BY <3>2, NextPositionIsNext, PositionsOfModel DEF RequestFor
    <3> QED
      BY <3>4, <3>5, <3>6
  <2>4. ASSUME NEW r \in Requests, ChatSucceeds(r) \/ ChatFailsForGood(r) PROVE FALSE
    <3>1. Ended(req[r], "ok").pc # "calling" /\ Ended(req[r], "all_failed").pc # "calling"
      BY DEF Ended
    <3> QED
      BY <2>4, <3>1, EndBeginsNoCall DEF ChatSucceeds, ChatFailsForGood
  <2>5. CASE Tick
    BY <2>5 DEF Tick, BeginsCall
  <2> QED
    BY <2>2, <2>3, <2>4, <2>5 DEF Next
<1> QED
  BY <1>1, Invariance, PTL DEF Spec, CallsOnlyAllowedProviders

\* A request is refused only when every provider of its model stands open, and
\* gives up after a retryable failure only when the rest of its chain does.
THEOREM RefusalsAreJustified == Spec => RefusesOnlyWhenUnavailable
<1>1. ASSUME Inv, [Next]_vars
      PROVE  [\A r \in Requests : RefusalIsJustified(r) /\ GiveUpIsJustified(r)]_vars
  <2> SUFFICES ASSUME Next, NEW r \in Requests
               PROVE  RefusalIsJustified(r) /\ GiveUpIsJustified(r)
    BY <1>1
  <2> USE <1>1
  <2>1. breaker \in [Providers -> Breaker] /\ req \in [Requests -> Request]
    BY DEF Inv, TypeOK
  <2>2. RefusalIsJustified(r)
    <3> SUFFICES ASSUME req'[r] # req[r], req'[r].pc = "no_provider",
                        NEW j \in Positions(req'[r].model)
                 PROVE  ~Allows(breaker[ProviderAt(req'[r].model, j)])
      BY DEF RefusalIsJustified
    <3>1. ASSUME NEW s \in Requests, NEW q, NEW brk, Proceed(s, q, brk) PROVE FALSE
      BY <2>1, <3>1 DEF Proceed, CallAt, Ended
    <3>2. PICK m \in Models \cup Aliases : Route(r, m)
      <4>1. ASSUME NEW s \in Requests, ChatFailsRetryably(s) PROVE FALSE
        BY <3>1, <4>1 DEF ChatFailsRetryably
      <4>2. ASSUME NEW s \in Requests, ChatSucceeds(s) \/ ChatFailsForGood(s) PROVE FALSE
        BY <2>1, <4>2 DEF ChatSucceeds, ChatFailsForGood, Ended
      <4>3. ASSUME NEW s \in Requests, NEW m \in Models \cup Aliases, Route(s, m)
            PROVE  s = r
        <5>1. req' = [req EXCEPT ![s] = Resolved(m)]
          BY <3>1, <4>3 DEF Route
        <5> QED
          BY <2>1, <5>1
      <4>4. ~Tick
        BY DEF Tick
      <4> QED
        BY <4>1, <4>2, <4>3, <4>4 DEF Next
    <3>3. Resolved(m).chain = {} /\ req' = [req EXCEPT ![r] = Resolved(m)]
      BY <3>1, <3>2 DEF Route
    <3>4. req'[r].model = m /\ ResolveChain(m) = {}
      BY <2>1, <3>3 DEF Resolved
    <3>5. AllowedPositions(m) = {}
      <4> SUFFICES ASSUME AllowedPositions(m) # {} PROVE FALSE
        OBVIOUS
      <4>1. AllowedPositions(m) \in SUBSET Nat
        BY PositionsOfModel DEF AllowedPositions
      <4>2. PICK i \in AllowedPositions(m) : \A k \in AllowedPositions(m) : i <= k
        BY <4>1, FirstExists
      <4> QED
        BY <3>4, <4>2 DEF ResolveChain
    <3> QED
      BY <3>4, <3>5 DEF AllowedPositions
  <2>3. GiveUpIsJustified(r)
    <3> SUFFICES ASSUME ChatFailsRetryably(r), req'[r].pc = "all_failed",
                        NEW i \in req[r].chain, i > req[r].at
                 PROVE  ~Allows(breaker'[ProviderAt(req[r].model, i)])
      BY DEF GiveUpIsJustified
    <3> DEFINE brk == [breaker EXCEPT ![Callee(r)] = RecordFailure(@)]
    <3>1. Calling(r) /\ Proceed(r, req[r], brk)
      BY DEF ChatFailsRetryably
    <3> HIDE DEF brk
    <3>2. NextPosition(req[r], brk) = {} /\ breaker' = brk
      BY <2>1, <3>1 DEF Proceed, CallAt
    <3> QED
      BY <3>1, <3>2, CallingIsReady, NextPositionExists
  <2> QED
    BY <2>2, <2>3
<1> QED
  BY <1>1, Invariance, PTL DEF Spec, RefusesOnlyWhenUnavailable

-----------------------------------------------------------------------------
(* The router keeps its promise to the caller                               *)

\* What a step does to one request, seen through the refinement mapping.
LEMMA LifeUpdate ==
    ASSUME Inv, NEW r \in Requests, NEW q, q # Idle,
           req' = [req EXCEPT ![r] = q]
    PROVE  Life' = [Life EXCEPT ![r] =
              [phase |-> Phase[q.pc], model |-> q.model, tried |-> q.attempts]]
<1>1. req \in [Requests -> Request]
  BY DEF Inv, TypeOK
<1>2. \A s \in Requests : req'[s] = IF s = r THEN q ELSE req[s]
  BY <1>1
<1> QED
  BY <1>2 DEF Life

\* What the caller sees of a request, by where it is.
LEMMA PhaseOfPc ==
    /\ Phase["calling"] = "pending"
    /\ Phase["ok"] = "answered"
    /\ Phase["no_provider"] = "refused"
    /\ Phase["all_failed"] = "failed"
BY DEF Phase

\* A request is pending in the contract exactly when it is in a call.
LEMMA PendingIsCalling ==
    ASSUME Inv, NEW r \in Requests
    PROVE  /\ Contract!Pending(r) <=> Calling(r)
           /\ Calling(r) => Life[r] = [phase |-> "pending", model |-> req[r].model,
                                      tried |-> req[r].attempts]
<1>1. CASE req[r] = Idle
  BY <1>1 DEF Contract!Pending, Life, Calling, Idle
<1>2. CASE req[r] # Idle
  <2>1. req[r].pc \in {"calling", "ok", "no_provider", "all_failed"}
    BY <1>2, RequestHasModel DEF Inv, TypeOK, RequestFor
  <2>2. Life[r] = [phase |-> Phase[req[r].pc], model |-> req[r].model,
                   tried |-> req[r].attempts]
    BY <1>2 DEF Life
  <2> QED
    BY <2>1, <2>2, PhaseOfPc DEF Contract!Pending, Calling
<1> QED
  BY <1>1, <1>2

\* The end of a call is the end of the request.
LEMMA EndIsFinish ==
    ASSUME Inv, NEW r \in Requests, Calling(r), NEW pc \in {"ok", "all_failed"},
           req' = [req EXCEPT ![r] = Ended(req[r], pc)]
    PROVE  Contract!Finish(r)
<1>1. Life' = [Life EXCEPT ![r] =
         [phase |-> Phase[pc], model |-> req[r].model, tried |-> req[r].attempts]]
  <2>1. Ended(req[r], pc) # Idle
    BY DEF Ended, Idle
  <2> QED
    BY <2>1, LifeUpdate DEF Ended
<1>2. Phase[pc] \in {"answered", "failed"}
  BY PhaseOfPc
<1>3. Contract!Pending(r) /\ Life[r].model = req[r].model /\ Life[r].tried = req[r].attempts
  <2>1. Contract!Pending(r)
    BY PendingIsCalling
  <2>2. Life[r] = [phase |-> "pending", model |-> req[r].model, tried |-> req[r].attempts]
    BY PendingIsCalling
  <2> QED
    BY <2>1, <2>2
<1>4. Life' = [Life EXCEPT ![r] = Contract!Sent(Phase[pc], Life[r].model, Life[r].tried)]
  BY <1>1, <1>3 DEF Contract!Sent
<1> QED
  BY <1>2, <1>3, <1>4 DEF Contract!Finish

\* The loop tries one more candidate, further on, or fails the request.
LEMMA ProceedIsContractStep ==
    ASSUME Inv, NEW r \in Requests, NEW m \in Models \cup Aliases,
           NEW q \in RequestFor(m), NEW brk, Proceed(r, q, brk)
    PROVE  \/ \E i \in q.chain :
                 /\ i > q.at
                 /\ i \in Positions(m)
                 /\ Life' = [Life EXCEPT ![r] = [phase |-> "pending", model |-> m,
                                                tried |-> q.attempts \cup {i}]]
           \/ /\ NextPosition(q, brk) = {}
              /\ req' = [req EXCEPT ![r] = Ended(q, "all_failed")]
<1>1. q.model = m /\ q.chain \subseteq Positions(m)
  BY DEF RequestFor
<1>2. CASE NextPosition(q, brk) = {}
  BY <1>2 DEF Proceed
<1>3. CASE NextPosition(q, brk) # {}
  <2>1. PICK i \in NextPosition(q, brk) :
           req' = [req EXCEPT ![r] = CallAt(q, i)]
    BY <1>3 DEF Proceed
  <2> DEFINE c == CallAt(q, i)
  <2>2. c # Idle /\ c.pc = "calling" /\ c.model = m /\ c.attempts = q.attempts \cup {i}
    BY <1>1 DEF CallAt, Idle
  <2> HIDE DEF c
  <2>3. Life' = [Life EXCEPT ![r] = [phase |-> "pending", model |-> m,
                                   tried |-> q.attempts \cup {i}]]
    <3>1. Life' = [Life EXCEPT ![r] =
             [phase |-> Phase[c.pc], model |-> c.model, tried |-> c.attempts]]
      BY <2>1, <2>2, LifeUpdate DEF c
    <3> QED
      BY <2>2, <3>1, PhaseOfPc
  <2> QED
    BY <1>1, <2>3, NextPositionIsNext
<1> QED
  BY <1>2, <1>3

\* Every step of the router is a step of the contract, or none.
LEMMA StepImplementsContract ==
    ASSUME Inv, [Next]_vars
    PROVE  [Contract!Next]_Life
<1>1. ASSUME NEW r \in Requests, NEW m \in Models \cup Aliases, Route(r, m)
      PROVE  Contract!Next
  <2>1. ~Contract!Pending(r)
    BY <1>1, PendingIsCalling DEF Route
  <2>2. Resolved(m) \in RequestFor(m) /\ Resolved(m).attempts = {}
        /\ Resolved(m).chain = ResolveChain(m)
    BY ResolvedOK DEF Inv, Resolved
  <2>3. CASE Resolved(m).chain = {}
    <3>1. req' = [req EXCEPT ![r] = Resolved(m)]
      BY <1>1, <2>3 DEF Route
    <3>2. Resolved(m) # Idle /\ Resolved(m).pc = "no_provider" /\ Resolved(m).model = m
      BY DEF Resolved, Idle
    <3>3. Life' = [Life EXCEPT ![r] = [phase |-> "refused", model |-> m, tried |-> {}]]
      <4> DEFINE q == Resolved(m)
      <4> HIDE DEF q
      <4>1. Life' = [Life EXCEPT ![r] =
               [phase |-> Phase[q.pc], model |-> q.model, tried |-> q.attempts]]
        BY <3>1, <3>2, LifeUpdate DEF q
      <4>2. q.pc = "no_provider" /\ q.model = m /\ q.attempts = {}
        BY <2>2, <3>2 DEF q
      <4> QED
        BY <4>1, <4>2, PhaseOfPc
    <3> QED
      BY <2>1, <3>3 DEF Contract!Next, Contract!Refuse, Contract!Sent
  <2>4. CASE Resolved(m).chain # {}
    <3>1. Proceed(r, Resolved(m), AfterResolve(m))
      BY <1>1, <2>4 DEF Route
    <3>2. NextPosition(Resolved(m), AfterResolve(m)) # {}
      BY <2>2, <2>4, ResolvedIsReady DEF Inv
    <3>3. PICK i \in Positions(m) :
             Life' = [Life EXCEPT ![r] = [phase |-> "pending", model |-> m, tried |-> {i}]]
      BY <2>2, <3>1, <3>2, ProceedIsContractStep
    <3> QED
      BY <2>1, <3>3 DEF Contract!Next, Contract!Start, Contract!Sent
  <2> QED
    BY <2>3, <2>4
<1>2. ASSUME NEW r \in Requests, ChatSucceeds(r) PROVE Contract!Next
  BY <1>2, EndIsFinish DEF ChatSucceeds, Contract!Next
<1>3. ASSUME NEW r \in Requests, ChatFailsForGood(r) PROVE Contract!Next
  BY <1>3, EndIsFinish DEF ChatFailsForGood, Contract!Next
<1>4. ASSUME NEW r \in Requests, ChatFailsRetryably(r) PROVE Contract!Next
  <2> DEFINE brk == [breaker EXCEPT ![Callee(r)] = RecordFailure(@)]
             m   == req[r].model
  <2>1. Calling(r) /\ Proceed(r, req[r], brk)
    BY <1>4 DEF ChatFailsRetryably
  <2> HIDE DEF brk
  <2>2. m \in Models \cup Aliases /\ req[r] \in RequestFor(m) /\ req[r] # Idle
    BY <2>1, CallingIsReady
  <2>3. CASE req' = [req EXCEPT ![r] = Ended(req[r], "all_failed")]
    BY <2>1, <2>3, EndIsFinish DEF Contract!Next
  <2>4. CASE \E i \in req[r].chain :
                 /\ i > req[r].at
                 /\ i \in Positions(m)
                 /\ Life' = [Life EXCEPT ![r] = [phase |-> "pending", model |-> m,
                                                tried |-> req[r].attempts \cup {i}]]
    <3>1. PICK i \in req[r].chain :
                 /\ i > req[r].at
                 /\ i \in Positions(m)
                 /\ Life' = [Life EXCEPT ![r] = [phase |-> "pending", model |-> m,
                                                tried |-> req[r].attempts \cup {i}]]
      BY <2>4
    <3>2. WalkOK(req[r])
      BY <2>2 DEF Inv
    <3>3. i \in Nat /\ req[r].at \in Nat /\ req[r].attempts \subseteq Nat
      BY <2>2, <3>1, PositionsOfModel DEF RequestFor
    <3>4. FallbackEnabled
      BY <3>1, <3>2, <3>3 DEF WalkOK
    <3>5. \A j \in req[r].attempts : j < i
      BY <3>1, <3>2, <3>3 DEF WalkOK
    <3>6. Contract!Pending(r)
          /\ Life[r] = [phase |-> "pending", model |-> m, tried |-> req[r].attempts]
      BY <2>1, PendingIsCalling
    <3>7. Life[r].model = m /\ Life[r].tried = req[r].attempts
      BY <3>6
    <3>8. Life' = [Life EXCEPT ![r] = Contract!Sent("pending", Life[r].model, Life[r].tried \cup {i})]
      BY <3>1, <3>7 DEF Contract!Sent
    <3>9. i \in [n \in Models \cup Aliases |-> Positions(n)][Life[r].model]
      BY <2>2, <3>1, <3>7
    <3>10. \A j \in Life[r].tried : j < i
      BY <3>5, <3>7
    <3>11. Contract!TryNext(r)
      BY <3>4, <3>6, <3>8, <3>9, <3>10 DEF Contract!TryNext
    <3> QED
      BY <3>11 DEF Contract!Next
  <2> QED
    BY <2>1, <2>2, <2>3, <2>4, ProceedIsContractStep
<1>5. CASE Tick
  BY <1>5 DEF Tick, Life
<1>6. CASE UNCHANGED vars
  BY <1>6 DEF vars, Life
<1> QED
  BY <1>1, <1>2, <1>3, <1>4, <1>5, <1>6 DEF Next

\* The router implements the contract of RoutingContract: candidates in order,
\* none twice, one only when fallback is disabled, no failure before a try.
THEOREM RouterImplementsContract == Spec => ImplementsContract
<1>1. Init => Contract!Init
  BY DEF Init, Contract!Init, Contract!Unsent, Life, Idle
<1>2. Inv /\ [Next]_vars => [Contract!Next]_Life
  BY StepImplementsContract
<1> QED
  BY <1>1, <1>2, Invariance, PTL DEF Spec, ImplementsContract, Contract!Spec

-----------------------------------------------------------------------------
(* Every request comes to its end                                           *)

\* The calls that q may still make, and the one it is in.
CallsLeft(q) == IF q.pc = "calling" THEN 1 + Len(Candidates[q.model]) - q.at ELSE 0

Answered(r) == ChatSucceeds(r) \/ ChatFailsRetryably(r) \/ ChatFailsForGood(r)

\* An answer leaves fewer calls, and nothing else touches a request in a call.
RunsDown(r) ==
    /\ Answered(r) => CallsLeft(req'[r]) < CallsLeft(req[r])
    /\ Calling(r) /\ ~Answered(r) => req'[r] = req[r]

\* A request in a call has it left.
LEMMA CallsAreLeft ==
    ASSUME Inv, NEW r \in Requests
    PROVE  CallsLeft(req[r]) \in Nat /\ (Calling(r) => CallsLeft(req[r]) > 0)
<1>1. CASE ~Calling(r)
  BY <1>1 DEF Calling, CallsLeft
<1>2. CASE Calling(r)
  <2>1. req[r].model \in Models \cup Aliases /\ req[r].at \in Positions(req[r].model)
    BY <1>2, CallingIsReady DEF RequestFor
  <2>2. Candidates[req[r].model] \in Seq(Candidate)
    BY <2>1, CandidatesAssumption
  <2>3. Len(Candidates[req[r].model]) \in Nat /\ req[r].at \in 1 .. Len(Candidates[req[r].model])
    BY <2>1, <2>2 DEF Positions
  <2> QED
    BY <1>2, <2>3 DEF Calling, CallsLeft
<1> QED
  BY <1>1, <1>2

\* The loop goes on further up the chain, or is over.
LEMMA ProceedRunsDown ==
    ASSUME Inv, NEW r \in Requests, Calling(r), NEW brk, Proceed(r, req[r], brk)
    PROVE  CallsLeft(req'[r]) < CallsLeft(req[r])
<1>1. req \in [Requests -> Request] /\ req[r].pc = "calling"
  BY DEF Inv, TypeOK, Calling
<1>2. CASE req' = [req EXCEPT ![r] = Ended(req[r], "all_failed")]
  <2>1. CallsLeft(req'[r]) = 0
    BY <1>1, <1>2 DEF Ended, CallsLeft
  <2> QED
    BY <2>1, CallsAreLeft
<1>3. CASE \E i \in NextPosition(req[r], brk) : req' = [req EXCEPT ![r] = CallAt(req[r], i)]
  <2>1. PICK i \in NextPosition(req[r], brk) : req' = [req EXCEPT ![r] = CallAt(req[r], i)]
    BY <1>3
  <2>2. req[r].model \in Models \cup Aliases /\ req[r].chain \subseteq Positions(req[r].model)
        /\ req[r].at \in Positions(req[r].model)
    BY CallingIsReady DEF RequestFor
  <2>3. i > req[r].at /\ i \in Nat /\ req[r].at \in Nat
    BY <2>2, NextPositionIsNext, PositionsOfModel
  <2>4. Len(Candidates[req[r].model]) \in Nat
    BY <2>2, CandidatesAssumption
  <2>5. CallsLeft(req'[r]) = 1 + Len(Candidates[req[r].model]) - i
    BY <1>1, <2>1 DEF CallAt, CallsLeft
  <2> QED
    BY <1>1, <2>3, <2>4, <2>5 DEF CallsLeft
<1> QED
  BY <1>2, <1>3 DEF Proceed

\* A request runs down: every answer of a provider ends it or takes it further
\* up its chain, never back to a candidate, and no other request and no breaker
\* that recovers meanwhile makes it longer (the loop of route()).  It remains
\* of EveryRequestEnds that answers arrive.
THEOREM RequestsRunDown ==
    Spec => /\ [](\A r \in Requests : CallsLeft(req[r]) \in Nat)
            /\ [][\A r \in Requests : RunsDown(r)]_vars
<1>1. Inv => \A r \in Requests : CallsLeft(req[r]) \in Nat
  BY CallsAreLeft
<1>2. Inv /\ [Next]_vars => [\A r \in Requests : RunsDown(r)]_vars
  <2> SUFFICES ASSUME Inv, Next, NEW r \in Requests PROVE RunsDown(r)
    OBVIOUS
  <2>1. req \in [Requests -> Request]
    BY DEF Inv, TypeOK
  <2>2. ASSUME Answered(r) PROVE CallsLeft(req'[r]) < CallsLeft(req[r])
    <3>1. CASE ChatFailsRetryably(r)
      BY <3>1, ProceedRunsDown DEF ChatFailsRetryably
    <3>2. CASE ChatSucceeds(r) \/ ChatFailsForGood(r)
      <4>1. Calling(r) /\ CallsLeft(req'[r]) = 0
        BY <2>1, <3>2 DEF ChatSucceeds, ChatFailsForGood, Ended, CallsLeft
      <4> QED
        BY <4>1, CallsAreLeft
    <3> QED
      BY <2>2, <3>1, <3>2 DEF Answered
  <2>3. ASSUME Calling(r), ~Answered(r) PROVE req'[r] = req[r]
    <3>1. ASSUME NEW s \in Requests, NEW m \in Models \cup Aliases, Route(s, m)
          PROVE  req'[r] = req[r]
      <4>1. s # r
        BY <2>3, <3>1 DEF Route
      <4> QED
        BY <2>1, <3>1, <4>1 DEF Route, Proceed
    <3>2. ASSUME NEW s \in Requests, Answered(s) PROVE req'[r] = req[r]
      <4>1. s # r
        BY <2>3, <3>2
      <4> QED
        BY <2>1, <3>2, <4>1
        DEF Answered, ChatSucceeds, ChatFailsRetryably, ChatFailsForGood, Proceed
    <3> QED
      BY <3>1, <3>2 DEF Next, Answered, Tick
  <2> QED
    BY <2>2, <2>3 DEF RunsDown
<1> QED
  BY <1>1, <1>2, Invariance, PTL DEF Spec

-----------------------------------------------------------------------------
(* Every open breaker comes to be asked again                               *)

CalledBy(p, r) == Calling(r) /\ Callee(r) = p

\* While p's breaker stands open no call of p begins, its recovery time starts
\* anew only when one ends, the clock goes on with it, and once it has passed
\* whoever asks finds the breaker half-open.
Mends(p) ==
    breaker[p].state = "open" /\ breaker'[p].state = "open" =>
        /\ \A r \in Requests : CalledBy(p, r)' => CalledBy(p, r) /\ req'[r] = req[r]
        /\ breaker'[p].open_for < breaker[p].open_for =>
              \E r \in Requests : CalledBy(p, r) /\ ~CalledBy(p, r)'
        /\ Tick /\ ~Recovered(breaker[p]) => breaker'[p].open_for > breaker[p].open_for
        /\ Recovered(breaker[p]) =>
              \A r \in Requests, m \in Models \cup Aliases : p \in Consulted(m) => ~Route(r, m)

\* The loop passes a breaker that stands open in the end, and leaves it alone.
LEMMA ProceedPasses ==
    ASSUME req \in [Requests -> Request], NEW r \in Requests, NEW m \in Models \cup Aliases,
           NEW q \in RequestFor(m), NEW brk \in [Providers -> Breaker], Proceed(r, q, brk),
           NEW p \in Providers, breaker'[p].state = "open"
    PROVE  /\ breaker'[p] = brk[p] /\ ~CalledBy(p, r)'
           /\ \A s \in Requests \ {r} : req'[s] = req[s]
<1>1. q.model = m /\ q.chain \subseteq Positions(m)
  BY DEF RequestFor
<1>2. CASE breaker' = brk /\ req' = [req EXCEPT ![r] = Ended(q, "all_failed")]
  BY <1>2 DEF Ended, CalledBy, Calling
<1>3. CASE \E i \in NextPosition(q, brk) :
              /\ breaker' = [brk EXCEPT ![ProviderAt(m, i)] = AfterAllow(@)]
              /\ req' = [req EXCEPT ![r] = CallAt(q, i)]
  <2>1. PICK i \in NextPosition(q, brk) :
              /\ breaker' = [brk EXCEPT ![ProviderAt(m, i)] = AfterAllow(@)]
              /\ req' = [req EXCEPT ![r] = CallAt(q, i)]
    BY <1>3
  <2>2. ProviderAt(m, i) \in Providers /\ Allows(brk[ProviderAt(m, i)])
    BY <1>1, NextPositionIsNext, PositionsOfModel
  <2>3. AfterAllow(brk[ProviderAt(m, i)]).state # "open"
    BY <2>2, AllowedIsNotOpen
  <2>4. ProviderAt(m, i) # p
    BY <2>1, <2>2, <2>3
  <2>5. req'[r] = CallAt(q, i) /\ \A s \in Requests \ {r} : req'[s] = req[s]
    BY <2>1
  <2>6. Callee(r)' = ProviderAt(m, i)
    BY <1>1, <2>5 DEF Callee, CallAt
  <2> QED
    BY <2>1, <2>4, <2>5, <2>6 DEF CalledBy
<1> QED
  BY <1>1, <1>2, <1>3 DEF Proceed

\* Whoever asks a breaker that has recovered does not leave it open.
LEMMA RouteAsks ==
    ASSUME Inv, NEW r \in Requests, NEW m \in Models \cup Aliases, Route(r, m),
           NEW p \in Providers, breaker'[p].state = "open"
    PROVE  /\ breaker'[p] = AfterResolve(m)[p] /\ ~CalledBy(p, r)'
           /\ \A s \in Requests \ {r} : req'[s] = req[s]
<1>1. req \in [Requests -> Request]
  BY DEF Inv, TypeOK
<1>2. CASE breaker' = AfterResolve(m) /\ req' = [req EXCEPT ![r] = Resolved(m)]
  BY <1>1, <1>2 DEF Resolved, CalledBy, Calling
<1>3. CASE Proceed(r, Resolved(m), AfterResolve(m))
  <2>1. AfterResolve(m) \in [Providers -> Breaker] /\ Resolved(m) \in RequestFor(m)
    BY AfterResolveOK, ResolvedOK DEF Inv
  <2> QED
    BY <1>1, <1>3, <2>1, ProceedPasses
<1> QED
  BY <1>2, <1>3 DEF Route

\* What a step does to a breaker that stands open before it and after.
LEMMA StepMends ==
    ASSUME Inv, Next, NEW p \in Providers, breaker[p].state = "open", breaker'[p].state = "open"
    PROVE  /\ \A r \in Requests : CalledBy(p, r)' => CalledBy(p, r) /\ req'[r] = req[r]
           /\ breaker'[p].open_for < breaker[p].open_for =>
                 \E r \in Requests : CalledBy(p, r) /\ ~CalledBy(p, r)'
<1> DEFINE Calls == \A r \in Requests : CalledBy(p, r)' => CalledBy(p, r) /\ req'[r] = req[r]
           Ends == \E r \in Requests : CalledBy(p, r) /\ ~CalledBy(p, r)'
<1>1. breaker \in [Providers -> Breaker] /\ req \in [Requests -> Request]
  BY DEF Inv, TypeOK
<1>2. breaker[p].open_for \in Nat
  BY <1>1, RecoverySecondsAssumption DEF Breaker
<1>3. ASSUME NEW s \in Requests, req'[s] = req[s] PROVE CalledBy(p, s)' => CalledBy(p, s)
  BY <1>3 DEF CalledBy, Calling, Callee
<1>4. ASSUME NEW r \in Requests, NEW m \in Models \cup Aliases, Route(r, m)
      PROVE  Calls /\ breaker'[p] = breaker[p]
  <2>1. /\ breaker'[p] = AfterResolve(m)[p] /\ ~CalledBy(p, r)'
        /\ \A s \in Requests \ {r} : req'[s] = req[s]
    BY <1>4, RouteAsks
  <2>2. breaker'[p] = breaker[p]
    BY <1>1, <2>1 DEF AfterResolve, AfterAllow
  <2> QED
    BY <1>3, <2>1, <2>2
<1>5. ASSUME NEW r \in Requests, ~CalledBy(p, r)', \A s \in Requests \ {r} : req'[s] = req[s],
             breaker'[p] = breaker[p] \/ CalledBy(p, r)
      PROVE  Calls /\ (breaker'[p] = breaker[p] \/ Ends)
  BY <1>3, <1>5
<1>6. ASSUME NEW r \in Requests, ChatSucceeds(r) \/ ChatFailsForGood(r)
      PROVE  Calls /\ (breaker'[p] = breaker[p] \/ Ends)
  <2>1. Calling(r) /\ ~CalledBy(p, r)' /\ \A s \in Requests \ {r} : req'[s] = req[s]
    BY <1>1, <1>6 DEF ChatSucceeds, ChatFailsForGood, Ended, CalledBy, Calling
  <2>2. Callee(r) # p => breaker'[p] = breaker[p]
    BY <1>1, <1>6 DEF ChatSucceeds, ChatFailsForGood
  <2> QED
    BY <1>5, <2>1, <2>2 DEF CalledBy
<1>7. ASSUME NEW r \in Requests, ChatFailsRetryably(r)
      PROVE  Calls /\ (breaker'[p] = breaker[p] \/ Ends)
  <2> DEFINE brk == [breaker EXCEPT ![Callee(r)] = RecordFailure(@)]
  <2>1. Calling(r) /\ Proceed(r, req[r], brk)
    BY <1>7 DEF ChatFailsRetryably
  <2>2. brk \in [Providers -> Breaker]
    BY <1>1, <2>1, CallingIsReady, BreakerMethods
  <2>3. Callee(r) # p => brk[p] = breaker[p]
    BY <1>1
  <2>4. req[r].model \in Models \cup Aliases /\ req[r] \in RequestFor(req[r].model)
    BY <2>1, CallingIsReady
  <2> HIDE DEF brk
  <2>5. /\ breaker'[p] = brk[p] /\ ~CalledBy(p, r)'
        /\ \A s \in Requests \ {r} : req'[s] = req[s]
    BY <1>1, <2>1, <2>2, <2>4, ProceedPasses
  <2> QED
    BY <1>5, <2>1, <2>3, <2>5 DEF CalledBy
<1>8. CASE Tick
  <2>1. breaker'[p] = Elapse(breaker[p]) /\ req' = req
    BY <1>8 DEF Tick
  <2>2. ~(breaker'[p].open_for < breaker[p].open_for)
    BY <1>1, <1>2, <2>1 DEF Elapse, Breaker
  <2> QED
    BY <1>3, <2>1, <2>2
<1>9. breaker'[p] = breaker[p] => ~(breaker'[p].open_for < breaker[p].open_for)
  BY <1>2
<1> QED
  BY <1>4, <1>6, <1>7, <1>8, <1>9 DEF Next

\* A breaker that stands open is on its way to be asked again: only the calls
\* that were under way when it opened can start its recovery time anew, each
\* once, because no further call begins, and every request that asks for a
\* model of the provider after that time gets through to it (record_failure,
\* allow).  It remains of OpenBreakersRecover that answers, ticks and
\* requests come.
THEOREM OpenBreakersMend == Spec => [][\A p \in Providers : Mends(p)]_vars
<1>1. Inv /\ [Next]_vars => [\A p \in Providers : Mends(p)]_vars
  <2> SUFFICES ASSUME Inv, Next, NEW p \in Providers,
                      breaker[p].state = "open", breaker'[p].state = "open"
               PROVE  /\ Tick /\ ~Recovered(breaker[p]) => breaker'[p].open_for > breaker[p].open_for
                      /\ Recovered(breaker[p]) =>
                            \A r \in Requests, m \in Models \cup Aliases :
                                p \in Consulted(m) => ~Route(r, m)
    BY StepMends DEF Mends
  <2>1. breaker[p] \in Breaker
    BY DEF Inv, TypeOK
  <2>2. ASSUME Tick, ~Recovered(breaker[p]) PROVE breaker'[p].open_for > breaker[p].open_for
    <3>1. breaker'[p] = [breaker[p] EXCEPT !.open_for = @ + 1]
      BY <2>2 DEF Tick, Elapse
    <3> QED
      BY <2>1, <3>1, RecoverySecondsAssumption DEF Breaker
  <2>3. ASSUME Recovered(breaker[p]), NEW r \in Requests, NEW m \in Models \cup Aliases,
               p \in Consulted(m), Route(r, m)
        PROVE  FALSE
    <3>1. breaker'[p] = AfterResolve(m)[p]
      BY <2>3, RouteAsks
    <3> QED
      BY <2>3, <3>1 DEF AfterResolve, AfterAllow
  <2> QED
    BY <2>2, <2>3
<1> QED
  BY <1>1, Invariance, PTL DEF Spec

-----------------------------------------------------------------------------
(* Lists                                                                    *)

\* h numbers the elements of S from 1 to n, in the order lt.
Numbers(h, n, S, lt) ==
    /\ h \in [1 .. n -> S]
    /\ \A x \in S : \E k \in 1 .. n : h[k] = x
    /\ \A j, k \in 1 .. n : j < k => <<h[j], h[k]>> \in lt

\* t lists the elements of S, as val shows them, in the order lt.
Lists(t, S, lt, val) ==
    \E n \in Nat : \E h : Numbers(h, n, S, lt) /\ t = [k \in 1 .. n |-> val[h[k]]]

\* Of two elements of S at most one comes before the other.
Strict(lt, S) == \A x, y \in S : ~(<<x, y>> \in lt /\ <<y, x>> \in lt)

\* The order of the positions of a list.
Before == {p \in Nat \X Nat : p[1] < p[2]}

\* A listing shows each element, and nothing else.
LEMMA ListShows ==
    ASSUME NEW t, NEW S, NEW lt, NEW val, Lists(t, S, lt, val)
    PROVE  /\ \E n \in Nat : DOMAIN t = 1 .. n
           /\ t = [i \in DOMAIN t |-> t[i]]
           /\ \A i \in DOMAIN t : \E x \in S : t[i] = val[x]
           /\ \A x \in S : \E i \in DOMAIN t : t[i] = val[x]
<1>1. PICK n \in Nat : \E h : Numbers(h, n, S, lt) /\ t = [k \in 1 .. n |-> val[h[k]]]
  BY DEF Lists
<1>2. PICK h :
      /\ h \in [1 .. n -> S] /\ t = [k \in 1 .. n |-> val[h[k]]]
      /\ \A x \in S : \E k \in 1 .. n : h[k] = x
  BY <1>1 DEF Numbers
<1>3. DOMAIN t = 1 .. n /\ \A k \in 1 .. n : t[k] = val[h[k]] /\ h[k] \in S
  BY <1>2
<1> QED
  BY <1>2, <1>3

\* It is a sequence.
LEMMA ListIsSeq ==
    ASSUME NEW t, NEW S, NEW lt, NEW val, Lists(t, S, lt, val)
    PROVE  t \in Seq({val[x] : x \in S}) /\ Len(t) \in Nat /\ DOMAIN t = 1 .. Len(t)
<1> DEFINE V == {val[x] : x \in S}
<1>1. PICK n \in Nat : DOMAIN t = 1 .. n
  BY ListShows
<1>2. t = [i \in 1 .. n |-> t[i]] /\ \A i \in 1 .. n : t[i] \in V
  BY <1>1, ListShows
<1>3. t \in [1 .. n -> V]
  BY <1>2
<1> QED
  BY <1>3

\* The place of an element is the number of those up to it.
LEMMA PlaceIsRank ==
    ASSUME NEW n \in Nat, NEW S, NEW h, NEW lt, Strict(lt, S), Numbers(h, n, S, lt)
    PROVE  /\ IsFiniteSet(S) /\ Cardinality(S) = n
           /\ \A j, k \in 1 .. n : h[j] = h[k] => j = k
           /\ \A k \in 1 .. n : Cardinality({y \in S : y = h[k] \/ <<y, h[k]>> \in lt}) = k
<1>0. /\ h \in [1 .. n -> S] /\ \A x \in S : \E k \in 1 .. n : h[k] = x
      /\ \A j, k \in 1 .. n : j < k => <<h[j], h[k]>> \in lt
  BY DEF Numbers
<1> USE <1>0
<1>1. \A j, k \in 1 .. n : h[j] = h[k] => j = k
  <2> SUFFICES ASSUME NEW j \in 1 .. n, NEW k \in 1 .. n, h[j] = h[k], j < k PROVE FALSE
    OBVIOUS
  <2>1. <<h[k], h[k]>> \in lt /\ h[k] \in S
    OBVIOUS
  <2> QED
    BY <2>1 DEF Strict
<1>2. ASSUME NEW k \in 0 .. n, NEW T, T = {h[i] : i \in 1 .. k}
      PROVE  IsFiniteSet(T) /\ Cardinality(T) = k
  <2> DEFINE e == [i \in 1 .. k |-> h[i]]
  <2>1. \A i \in 1 .. k : i \in 1 .. n /\ e[i] = h[i] /\ e[i] \in T
    BY <1>2
  <2>2. e \in [1 .. k -> T]
    BY <2>1
  <2>3. \A i, j \in 1 .. k : e[i] = e[j] => i = j
    BY <1>1, <2>1
  <2>4. \A y \in T : \E i \in 1 .. k : e[i] = y
    BY <1>2, <2>1
  <2> HIDE DEF e
  <2>5. e \in Bijection(1 .. k, T)
    BY <2>2, <2>3, <2>4 DEF Bijection, Injection, Surjection, IsInjective
  <2>6. ExistsBijection(1 .. k, T) /\ k \in Nat
    BY <2>5 DEF ExistsBijection
  <2>7. IsFiniteSet(T)
    BY <2>6, FS_NatBijection
  <2> QED
    BY <2>6, <2>7, FS_CountingElements
<1>3. S = {h[i] : i \in 1 .. n}
  OBVIOUS
<1>4. IsFiniteSet(S) /\ Cardinality(S) = n
  BY <1>2, <1>3
<1>5. ASSUME NEW k \in 1 .. n
      PROVE  {y \in S : y = h[k] \/ <<y, h[k]>> \in lt} = {h[i] : i \in 1 .. k}
  <2>1. ASSUME NEW y \in S, y = h[k] \/ <<y, h[k]>> \in lt PROVE \E i \in 1 .. k : y = h[i]
    <3>1. PICK i \in 1 .. n : h[i] = y
      OBVIOUS
    <3>2. ~(k < i)
      BY <2>1, <3>1, <1>1 DEF Strict
    <3> QED
      BY <3>1, <3>2
  <2>2. ASSUME NEW i \in 1 .. k PROVE h[i] \in S /\ (h[i] = h[k] \/ <<h[i], h[k]>> \in lt)
    <3>1. i \in 1 .. n /\ (i < k \/ i = k)
      OBVIOUS
    <3> QED
      BY <3>1
  <2> QED
    BY <2>1, <2>2
<1>6. \A k \in 1 .. n : Cardinality({y \in S : y = h[k] \/ <<y, h[k]>> \in lt}) = k
  <2> TAKE k \in 1 .. n
  <2>1. k \in 0 .. n
    OBVIOUS
  <2> QED
    BY <1>2, <1>5, <2>1
<1> QED
  BY <1>1, <1>4, <1>6

\* There is one listing only.
LEMMA OneListing ==
    ASSUME NEW t, NEW u, NEW S, NEW lt, NEW val, Strict(lt, S),
           Lists(t, S, lt, val), Lists(u, S, lt, val)
    PROVE  t = u
<1>1. PICK n \in Nat : \E h : Numbers(h, n, S, lt) /\ t = [k \in 1 .. n |-> val[h[k]]]
  BY DEF Lists
<1>2. PICK h :
      /\ Numbers(h, n, S, lt)
      /\ h \in [1 .. n -> S] /\ t = [k \in 1 .. n |-> val[h[k]]]
      /\ \A x \in S : \E k \in 1 .. n : h[k] = x
      /\ \A j, k \in 1 .. n : j < k => <<h[j], h[k]>> \in lt
  BY <1>1 DEF Numbers
<1>3. PICK m \in Nat : \E e : Numbers(e, m, S, lt) /\ u = [k \in 1 .. m |-> val[e[k]]]
  BY DEF Lists
<1>4. PICK e :
      /\ Numbers(e, m, S, lt)
      /\ e \in [1 .. m -> S] /\ u = [k \in 1 .. m |-> val[e[k]]]
      /\ \A x \in S : \E k \in 1 .. m : e[k] = x
      /\ \A j, k \in 1 .. m : j < k => <<e[j], e[k]>> \in lt
  BY <1>3 DEF Numbers
<1> DEFINE rank(x) == Cardinality({y \in S : y = x \/ <<y, x>> \in lt})
<1>5. Cardinality(S) = n /\ \A k \in 1 .. n : Cardinality({y \in S : y = h[k] \/ <<y, h[k]>> \in lt}) = k
  <2>1. Numbers(h, n, S, lt)
    BY <1>2
  <2> QED
    BY <2>1, PlaceIsRank
<1>6. Cardinality(S) = m /\ \A k \in 1 .. m : Cardinality({y \in S : y = e[k] \/ <<y, e[k]>> \in lt}) = k
  <2>1. Numbers(e, m, S, lt)
    BY <1>4
  <2> QED
    BY <2>1, PlaceIsRank
<1>7. ASSUME NEW k \in 1 .. n PROVE h[k] = e[k]
  <2>1. PICK j \in 1 .. m : e[j] = h[k]
    BY <1>2, <1>4
  <2>2. rank(e[j]) = j
    BY <1>6
  <2>3. rank(h[k]) = k
    BY <1>5
  <2> QED
    BY <2>1, <2>2, <2>3
<1> QED
  BY <1>2, <1>4, <1>5, <1>6, <1>7

\* The same elements by other names.
LEMMA Renamed ==
    ASSUME NEW t, NEW S, NEW lt, NEW val, Lists(t, S, lt, val),
           NEW R, NEW r, NEW other, NEW g \in [S -> R],
           \A y \in R : \E x \in S : g[x] = y,
           \A x, y \in S : <<x, y>> \in lt => <<g[x], g[y]>> \in r,
           \A x \in S : val[x] = other[g[x]]
    PROVE  Lists(t, R, r, other)
<1>1. PICK n \in Nat : \E h : Numbers(h, n, S, lt) /\ t = [k \in 1 .. n |-> val[h[k]]]
  BY DEF Lists
<1>2. PICK h :
      /\ Numbers(h, n, S, lt)
      /\ h \in [1 .. n -> S] /\ t = [k \in 1 .. n |-> val[h[k]]]
      /\ \A x \in S : \E k \in 1 .. n : h[k] = x
      /\ \A j, k \in 1 .. n : j < k => <<h[j], h[k]>> \in lt
  BY <1>1 DEF Numbers
<1> DEFINE e == [k \in 1 .. n |-> g[h[k]]]
<1>3. \A k \in 1 .. n : e[k] = g[h[k]] /\ h[k] \in S /\ e[k] \in R /\ val[h[k]] = other[e[k]]
  BY <1>2
<1>4. e \in [1 .. n -> R]
  BY <1>3
<1> HIDE DEF e
<1>5. t = [k \in 1 .. n |-> other[e[k]]]
  BY <1>2, <1>3
<1>6. \A y \in R : \E k \in 1 .. n : e[k] = y
  BY <1>2, <1>3
<1>7. \A j, k \in 1 .. n : j < k => <<e[j], e[k]>> \in r
  <2> TAKE j, k \in 1 .. n
  <2>1. j < k => <<h[j], h[k]>> \in lt
    BY <1>2
  <2> QED
    BY <1>3, <2>1
<1> QED
  BY <1>4, <1>5, <1>6, <1>7 DEF Lists, Numbers

\* The same list, with each element mapped.
LEMMA Mapped ==
    ASSUME NEW t, NEW S, NEW lt, NEW val, Lists(t, S, lt, val), NEW f, NEW other,
           \A x \in S : other[x] = f[val[x]]
    PROVE  Lists([i \in DOMAIN t |-> f[t[i]]], S, lt, other)
<1>1. PICK n \in Nat : \E h : Numbers(h, n, S, lt) /\ t = [k \in 1 .. n |-> val[h[k]]]
  BY DEF Lists
<1>2. PICK h :
      /\ Numbers(h, n, S, lt)
      /\ h \in [1 .. n -> S] /\ t = [k \in 1 .. n |-> val[h[k]]]
      /\ \A x \in S : \E k \in 1 .. n : h[k] = x
      /\ \A j, k \in 1 .. n : j < k => <<h[j], h[k]>> \in lt
  BY <1>1 DEF Numbers
<1>3. DOMAIN t = 1 .. n /\ \A k \in 1 .. n : t[k] = val[h[k]] /\ f[t[k]] = other[h[k]]
  BY <1>2
<1>4. [i \in DOMAIN t |-> f[t[i]]] = [k \in 1 .. n |-> other[h[k]]]
  BY <1>3
<1> QED
  BY <1>2, <1>4 DEF Lists

\* One list after another.
LEMMA Joined ==
    ASSUME NEW t, NEW S, NEW u, NEW R, NEW lt, NEW val,
           Lists(t, S, lt, val), Lists(u, R, lt, val),
           \A x \in S, y \in R : <<x, y>> \in lt
    PROVE  Lists(t \o u, S \cup R, lt, val)
<1>1. PICK n \in Nat : \E h : Numbers(h, n, S, lt) /\ t = [k \in 1 .. n |-> val[h[k]]]
  BY DEF Lists
<1>2. PICK h :
      /\ Numbers(h, n, S, lt)
      /\ h \in [1 .. n -> S] /\ t = [k \in 1 .. n |-> val[h[k]]]
      /\ \A x \in S : \E k \in 1 .. n : h[k] = x
      /\ \A j, k \in 1 .. n : j < k => <<h[j], h[k]>> \in lt
  BY <1>1 DEF Numbers
<1>3. PICK m \in Nat : \E e : Numbers(e, m, R, lt) /\ u = [k \in 1 .. m |-> val[e[k]]]
  BY DEF Lists
<1>4. PICK e :
      /\ Numbers(e, m, R, lt)
      /\ e \in [1 .. m -> R] /\ u = [k \in 1 .. m |-> val[e[k]]]
      /\ \A x \in R : \E k \in 1 .. m : e[k] = x
      /\ \A j, k \in 1 .. m : j < k => <<e[j], e[k]>> \in lt
  BY <1>3 DEF Numbers
<1> DEFINE f == [k \in 1 .. n + m |-> IF k <= n THEN h[k] ELSE e[k - n]]
           V == {val[x] : x \in S \cup R}
<1>5. \A k \in 1 .. n + m : (k <= n => k \in 1 .. n) /\ (~(k <= n) => k - n \in 1 .. m)
  OBVIOUS
<1>6. f \in [1 .. n + m -> S \cup R]
  BY <1>2, <1>4, <1>5
<1>7. /\ \A k \in 1 .. n : k \in 1 .. n + m /\ f[k] = h[k]
      /\ \A k \in 1 .. m : k + n \in 1 .. n + m /\ f[k + n] = e[k]
  OBVIOUS
<1>8. t \in [1 .. n -> V] /\ u \in [1 .. m -> V]
  BY <1>2, <1>4
<1>9. t \in Seq(V) /\ u \in Seq(V) /\ Len(t) = n /\ Len(u) = m
  BY <1>8
<1>10. /\ t \o u \in Seq(V) /\ Len(t \o u) = n + m
       /\ \A k \in 1 .. n + m : (t \o u)[k] = IF k <= n THEN t[k] ELSE u[k - n]
  BY <1>9, ConcatProperties
<1> HIDE DEF f, V
<1>11. \A k \in 1 .. n + m : (t \o u)[k] = val[f[k]]
  <2> TAKE k \in 1 .. n + m
  <2>1. CASE k <= n
    BY <1>2, <1>5, <1>7, <1>10, <2>1
  <2>2. CASE ~(k <= n)
    <3>1. k - n \in 1 .. m /\ (k - n) + n = k
      BY <1>5, <2>2
    <3>2. f[k] = e[k - n]
      BY <1>7, <3>1
    <3> QED
      BY <1>4, <1>10, <2>2, <3>1, <3>2
  <2> QED
    BY <2>1, <2>2
<1>12. t \o u = [k \in 1 .. n + m |-> val[f[k]]]
  <2>1. t \o u \in [1 .. Len(t \o u) -> V] /\ Len(t \o u) = n + m
    BY <1>10, LenProperties
  <2> QED
    BY <1>11, <2>1
<1>13. \A x \in S \cup R : \E k \in 1 .. n + m : f[k] = x
  BY <1>2, <1>4, <1>7
<1>14. ASSUME NEW j \in 1 .. n + m, NEW k \in 1 .. n + m, j < k PROVE <<f[j], f[k]>> \in lt
  <2>1. CASE k <= n
    <3>1. j \in 1 .. n /\ k \in 1 .. n
      BY <1>14, <2>1
    <3> QED
      BY <1>2, <1>7, <1>14, <3>1
  <2>2. CASE j <= n /\ ~(k <= n)
    <3>1. j \in 1 .. n /\ k - n \in 1 .. m /\ (k - n) + n = k
      BY <2>2
    <3>2. f[j] = h[j] /\ f[k] = e[k - n]
      BY <1>7, <3>1
    <3> QED
      BY <1>2, <1>4, <3>1, <3>2
  <2>3. CASE ~(j <= n)
    <3>1. j - n \in 1 .. m /\ k - n \in 1 .. m /\ (k - n) + n = k /\ (j - n) + n = j /\ j - n < k - n
      BY <1>14, <2>3
    <3>2. f[j] = e[j - n] /\ f[k] = e[k - n]
      BY <1>7, <3>1
    <3> QED
      BY <1>4, <3>1, <3>2
  <2> QED
    BY <2>1, <2>2, <2>3
<1>15. n + m \in Nat
  OBVIOUS
<1> QED
  BY <1>6, <1>12, <1>13, <1>14, <1>15 DEF Lists, Numbers

\* The empty list, and a list of one.
LEMMA ShortLists ==
    /\ \A t, lt, val : t \in [1 .. 0 -> {}] => Lists(t, {}, lt, val)
    /\ \A x, lt, val : Lists(<<val[x]>>, {x}, lt, val)
<1>1. ASSUME NEW t, NEW lt, NEW val, t \in [1 .. 0 -> {}] PROVE Lists(t, {}, lt, val)
  <2>1. 1 .. 0 = {} /\ 0 \in Nat
    OBVIOUS
  <2>2. t \in [1 .. 0 -> {}] /\ t = [k \in 1 .. 0 |-> val[t[k]]]
    BY <1>1, <2>1
  <2>3. Numbers(t, 0, {}, lt)
    BY <2>1, <2>2 DEF Numbers
  <2> QED
    BY <2>1, <2>2, <2>3 DEF Lists
<1>2. ASSUME NEW x, NEW lt, NEW val PROVE Lists(<<val[x]>>, {x}, lt, val)
  <2> DEFINE h == [k \in 1 .. 1 |-> x]
  <2>1. 1 \in Nat /\ \A k \in 1 .. 1 : k = 1 /\ h[k] = x
    OBVIOUS
  <2>2. h \in [1 .. 1 -> {x}] /\ h[1] = x /\ 1 \in 1 .. 1
    OBVIOUS
  <2> HIDE DEF h
  <2>3. Numbers(h, 1, {x}, lt)
    BY <2>1, <2>2 DEF Numbers
  <2>4. <<val[x]>> = [k \in 1 .. 1 |-> val[h[k]]]
    BY <2>1
  <2> QED
    BY <2>1, <2>3, <2>4 DEF Lists
<1> QED
  BY <1>1, <1>2

\* One element more, at the end.
LEMMA Added ==
    ASSUME NEW t, NEW S, NEW lt, NEW val, Lists(t, S, lt, val), NEW y,
           \A x \in S : <<x, y>> \in lt
    PROVE  Lists(Append(t, val[y]), S \cup {y}, lt, val)
<1>1. Lists(t \o <<val[y]>>, S \cup {y}, lt, val)
  BY ShortLists, Joined
<1> DEFINE V == {val[x] : x \in S} \cup {val[y]}
<1>2. t \in Seq(V)
  <2>1. t \in Seq({val[x] : x \in S}) /\ {val[x] : x \in S} \subseteq V
    BY ListIsSeq
  <2> QED
    BY <2>1, SeqMonotonic
<1>3. t \o <<val[y]>> = Append(t, val[y])
  BY <1>2, AppendIsConcat
<1> QED
  BY <1>1, <1>3

-----------------------------------------------------------------------------
(* Lists: what a loop passes over                                           *)

\* it[T] are the elements at T that are to be kept.
Keeping(s, keep, it) ==
    it = [T \in SUBSET DOMAIN s |->
             IF T = {} THEN <<>>
             ELSE IF s[Latest(T)] \in keep THEN Append(it[T \ {Latest(T)}], s[Latest(T)])
                                           ELSE it[T \ {Latest(T)}]]

\* The loop is a walk through the positions (Only, a fold of the library).
LEMMA OnlyIsFold == \A s, keep : Only(s, keep) = (CHOOSE it : Keeping(s, keep, it))[DOMAIN s]
BY DEF Only, FoldLeft, MapThenFoldSet, Max, Keeping, Latest

\* There is such a function.
LEMMA KeepingExists ==
    ASSUME NEW X, NEW s \in Seq(X), NEW keep
    PROVE  \E it : Keeping(s, keep, it)
<1> DEFINE S == 1 .. Len(s)
           V == Seq(X)
           g == [a \in S \X V |-> IF s[a[1]] \in keep THEN Append(a[2], s[a[1]]) ELSE a[2]]
<1>1. Len(s) \in Nat /\ DOMAIN s = S /\ \A i \in S : s[i] \in X
  BY ElementOfSeq
<1>2. ASSUME NEW i \in S, NEW v \in V
      PROVE  /\ g[<<i, v>>] = IF s[i] \in keep THEN Append(v, s[i]) ELSE v
             /\ g[<<i, v>>] \in V
  <2>1. <<i, v>> \in S \X V /\ g[<<i, v>>] = IF s[i] \in keep THEN Append(v, s[i]) ELSE v
    OBVIOUS
  <2>2. Append(v, s[i]) \in V
    BY <1>1, AppendProperties
  <2> QED
    BY <2>1, <2>2
<1>3. g \in [S \X V -> V]
  <2>1. \A a \in S \X V : a[1] \in S /\ a[2] \in V /\ a = <<a[1], a[2]>>
    OBVIOUS
  <2>2. \A a \in S \X V : g[a] \in V
    BY <1>2, <2>1
  <2> QED
    BY <2>2
<1>4. <<>> \in V
  OBVIOUS
<1> HIDE DEF V, g
<1>5. PICK it \in [SUBSET S -> V] : Walk(S, g, <<>>, it)
  <2>1. Len(s) \in Nat /\ S = 1 .. Len(s)
    BY <1>1
  <2> HIDE DEF S
  <2>2. <<>> \in V /\ g \in [S \X V -> V]
    BY <1>3, <1>4
  <2> QED
    BY <2>1, <2>2, WalkExists
<1> HIDE DEF S
<1>6. ASSUME NEW T \in SUBSET S
      PROVE  it[T] = IF T = {} THEN <<>>
                     ELSE IF s[Latest(T)] \in keep THEN Append(it[T \ {Latest(T)}], s[Latest(T)])
                                                   ELSE it[T \ {Latest(T)}]
  <2>1. CASE T = {}
    BY <1>5, <2>1 DEF Walk
  <2>2. CASE T # {}
    <3>1. Latest(T) \in S /\ it[T \ {Latest(T)}] \in V
      BY <1>1, <1>5, <2>2, LastExists DEF S
    <3>2. it[T] = g[<<Latest(T), it[T \ {Latest(T)}]>>]
      BY <1>5, <2>2 DEF Walk
    <3> QED
      BY <1>2, <2>2, <3>1, <3>2
  <2> QED
    BY <2>1, <2>2
<1>7. it = [T \in SUBSET S |->
               IF T = {} THEN <<>>
               ELSE IF s[Latest(T)] \in keep THEN Append(it[T \ {Latest(T)}], s[Latest(T)])
                                             ELSE it[T \ {Latest(T)}]]
  BY <1>5, <1>6
<1> QED
  BY <1>1, <1>7 DEF Keeping

\* The loop leaves a list of the positions that are to be kept.
LEMMA OnlyLists ==
    ASSUME NEW X, NEW s \in Seq(X), NEW keep
    PROVE  Lists(Only(s, keep), {i \in 1 .. Len(s) : s[i] \in keep}, Before, s)
<1> DEFINE it == CHOOSE f : Keeping(s, keep, f)
           Kept(n) == {i \in 1 .. n : s[i] \in keep}
           Bad == {n \in 0 .. Len(s) : ~Lists(it[1 .. n], Kept(n), Before, s)}
<1>1. Len(s) \in Nat /\ DOMAIN s = 1 .. Len(s)
  OBVIOUS
<1>2. Keeping(s, keep, it)
  BY KeepingExists
<1>3. Only(s, keep) = it[1 .. Len(s)]
  BY <1>1, OnlyIsFold
<1> HIDE DEF it
<1>4. \A T \in SUBSET (1 .. Len(s)) :
         it[T] = IF T = {} THEN <<>>
                 ELSE IF s[Latest(T)] \in keep THEN Append(it[T \ {Latest(T)}], s[Latest(T)])
                                               ELSE it[T \ {Latest(T)}]
  BY <1>1, <1>2 DEF Keeping
<1>5. ASSUME Bad # {} PROVE FALSE
  <2>1. Bad \in SUBSET Nat
    BY <1>1
  <2>2. PICK n \in Bad : \A k \in Bad : n <= k
    <3> HIDE DEF Bad
    <3> QED
      BY <1>5, <2>1, FirstExists
  <2>3. n \in 0 .. Len(s) /\ n \in Nat /\ ~Lists(it[1 .. n], Kept(n), Before, s)
    BY <1>1, <2>2
  <2>4. n # 0
    <3> SUFFICES ASSUME n = 0 PROVE FALSE
      OBVIOUS
    <3>0. {} \in SUBSET (1 .. Len(s)) /\ 1 .. 0 = {}
      OBVIOUS
    <3>1. it[{}] = <<>> /\ 1 .. 0 = {} /\ Kept(0) = {}
      BY <1>4, <3>0
    <3>2. <<>> \in [1 .. 0 -> {}]
      OBVIOUS
    <3>3. Lists(<<>>, {}, Before, s)
      BY <3>2, ShortLists
    <3> HIDE DEF Kept
    <3> QED
      BY <2>3, <3>1, <3>3
  <2>5. n - 1 \in 0 .. Len(s) /\ n - 1 \notin Bad /\ n \in 1 .. Len(s)
    <3>1. n - 1 \in 0 .. Len(s) /\ ~(n <= n - 1) /\ n \in 1 .. Len(s)
      BY <1>1, <2>3, <2>4
    <3> HIDE DEF Bad
    <3> QED
      BY <2>2, <3>1
  <2> DEFINE t == it[1 .. n - 1]
  <2>6. Lists(t, Kept(n - 1), Before, s)
    BY <2>5
  <2>7. it[1 .. n] = IF s[n] \in keep THEN Append(t, s[n]) ELSE t
    <3>1. 1 .. n \in SUBSET (1 .. Len(s)) /\ 1 .. n # {} /\ Latest(1 .. n) = n /\ (1 .. n) \ {n} = 1 .. n - 1
      BY <1>1, <2>5, LastOfPrefix
    <3> QED
      BY <1>4, <3>1
  <2> HIDE DEF t, Bad
  <2>8. CASE s[n] \notin keep
    <3>1. Kept(n) = Kept(n - 1)
      BY <2>3, <2>8
    <3> QED
      BY <2>3, <2>6, <2>7, <2>8, <3>1
  <2>9. CASE s[n] \in keep
    <3>1. Kept(n) = Kept(n - 1) \cup {n}
      BY <2>3, <2>5, <2>9
    <3>2. \A x \in Kept(n - 1) : <<x, n>> \in Before
      BY <2>3 DEF Before
    <3> HIDE DEF Kept
    <3>3. Lists(Append(t, s[n]), Kept(n - 1) \cup {n}, Before, s)
      BY <2>6, <3>2, Added
    <3> QED
      BY <2>3, <2>7, <2>9, <3>1, <3>3
  <2> QED
    BY <2>8, <2>9
<1>6. Lists(it[1 .. Len(s)], Kept(Len(s)), Before, s)
  <2>1. Len(s) \in 0 .. Len(s)
    BY <1>1
  <2> QED
    BY <1>5, <2>1
<1> QED
  BY <1>3, <1>6

\* The elements of a list at some positions, in their order.
At(s, positions) ==
    LET kth(k) == CHOOSE i \in positions : Cardinality({j \in positions : j <= i}) = k
    IN  [k \in 1 .. Cardinality(positions) |-> s[kth(k)]]

\* They are a list of the positions.
LEMMA AtLists ==
    ASSUME NEW n \in Nat, NEW s, NEW I \in SUBSET (1 .. n)
    PROVE  Lists(At(s, I), I, Before, s)
<1>0. \A i \in I : i \in Nat
  OBVIOUS
<1> DEFINE id == [i \in 1 .. n |-> i]
<1>1. id \in Seq(Nat) /\ Len(id) = n /\ \A i \in 1 .. n : id[i] = i
  <2>1. id \in [1 .. n -> Nat]
    OBVIOUS
  <2> QED
    BY <2>1
<1> HIDE DEF id
<1>2. {i \in 1 .. Len(id) : id[i] \in I} = I
  BY <1>1
<1>3. Lists(Only(id, I), I, Before, id)
  BY <1>1, <1>2, OnlyLists
<1>4. PICK m \in Nat : \E e : Numbers(e, m, I, Before)
  BY <1>3 DEF Lists
<1>5. PICK e : Numbers(e, m, I, Before)
  BY <1>4
<1>6. e \in [1 .. m -> I] /\ \A i \in I : \E k \in 1 .. m : e[k] = i
  BY <1>5 DEF Numbers
<1>7. Strict(Before, I)
  BY DEF Strict, Before
<1> DEFINE upto(i) == {j \in I : j <= i}
<1>8. ASSUME NEW k \in 1 .. m PROVE Cardinality(upto(e[k])) = k
  <2>1. e[k] \in I
    BY <1>6
  <2>2. {y \in I : y = e[k] \/ <<y, e[k]>> \in Before} = upto(e[k])
    <3>1. \A y \in I : y \in Nat /\ e[k] \in Nat /\ (<<y, e[k]>> \in Before <=> y < e[k])
      <4> TAKE y \in I
      <4>1. y \in Nat /\ e[k] \in Nat
        BY <1>0, <2>1
      <4> QED
        BY <4>1 DEF Before
    <3>2. \A y \in I : (y = e[k] \/ <<y, e[k]>> \in Before) <=> y <= e[k]
      BY <3>1
    <3> QED
      BY <3>2
  <2>3. Cardinality({y \in I : y = e[k] \/ <<y, e[k]>> \in Before}) = k
    BY <1>5, <1>7, PlaceIsRank
  <2> QED
    BY <2>2, <2>3
<1>9. Cardinality(I) = m
  BY <1>5, <1>7, PlaceIsRank
<1> DEFINE kth(k) == CHOOSE i \in I : Cardinality(upto(i)) = k
<1>10. ASSUME NEW k \in 1 .. m PROVE kth(k) = e[k]
  <2>1. e[k] \in I /\ Cardinality(upto(e[k])) = k
    BY <1>6, <1>8
  <2>2. \A i \in I : Cardinality(upto(i)) = k => i = e[k]
    BY <1>6, <1>8
  <2> HIDE DEF upto
  <2> QED
    BY <2>1, <2>2
<1>11. At(s, I) = [k \in 1 .. m |-> s[kth(k)]]
  BY <1>9 DEF At
<1> HIDE DEF kth
<1>12. At(s, I) = [k \in 1 .. m |-> s[e[k]]]
  BY <1>10, <1>11
<1> QED
  BY <1>5, <1>12 DEF Lists

\* A list of some positions of a list is a list of their elements.
LEMMA Selected ==
    ASSUME NEW t, NEW S, NEW lt, NEW val, Lists(t, S, lt, val), NEW keep,
           NEW I \in SUBSET (1 .. Len(t)), \A i \in 1 .. Len(t) : i \in I <=> t[i] \in keep,
           NEW R \in SUBSET S, \A x \in S : x \in R <=> val[x] \in keep,
           NEW u, Lists(u, I, Before, t)
    PROVE  Lists(u, R, lt, val)
<1>1. PICK n \in Nat : \E h : Numbers(h, n, S, lt) /\ t = [k \in 1 .. n |-> val[h[k]]]
  BY DEF Lists
<1>2. PICK h :
      /\ h \in [1 .. n -> S] /\ t = [k \in 1 .. n |-> val[h[k]]]
      /\ \A x \in S : \E k \in 1 .. n : h[k] = x
      /\ \A j, k \in 1 .. n : j < k => <<h[j], h[k]>> \in lt
  BY <1>1 DEF Numbers
<1> DEFINE g == [i \in I |-> h[i]]
<1>3. Len(t) = n /\ \A i \in 1 .. n : t[i] = val[h[i]] /\ h[i] \in S
  <2>1. Len(t) \in Nat /\ DOMAIN t = 1 .. Len(t)
    BY ListIsSeq
  <2>2. DOMAIN t = 1 .. n
    BY <1>2
  <2> QED
    BY <1>2, <2>1, <2>2
<1>4. \A i \in I : i \in 1 .. n /\ g[i] = h[i] /\ g[i] \in R /\ t[i] = val[g[i]]
  BY <1>3
<1>5. g \in [I -> R]
  BY <1>4
<1>6. \A y \in R : \E i \in I : g[i] = y
  BY <1>2, <1>3, <1>4
<1>7. \A i, j \in I : <<i, j>> \in Before => <<g[i], g[j]>> \in lt
  <2> SUFFICES ASSUME NEW i \in I, NEW j \in I, <<i, j>> \in Before PROVE <<g[i], g[j]>> \in lt
    OBVIOUS
  <2>1. i < j /\ i \in 1 .. n /\ j \in 1 .. n
    BY <1>4 DEF Before
  <2> QED
    BY <1>2, <1>4, <2>1
<1>8. \A i \in I : t[i] = val[g[i]]
  BY <1>4
<1> HIDE DEF g
<1> QED
  BY <1>5, <1>6, <1>7, <1>8, Renamed

\* What is left of a list.
LEMMA LeftOver ==
    ASSUME NEW t, NEW S, NEW lt, NEW val, Lists(t, S, lt, val), NEW keep,
           NEW R \in SUBSET S, \A x \in S : x \in R <=> val[x] \in keep
    PROVE  Lists(Only(t, keep), R, lt, val)
<1> DEFINE I == {i \in 1 .. Len(t) : t[i] \in keep}
<1>1. Lists(Only(t, keep), I, Before, t)
  <2>1. t \in Seq({val[x] : x \in S})
    BY ListIsSeq
  <2> QED
    BY <2>1, OnlyLists
<1>2. I \in SUBSET (1 .. Len(t))
  OBVIOUS
<1>3. \A i \in 1 .. Len(t) : i \in I <=> t[i] \in keep
  OBVIOUS
<1> DEFINE u == Only(t, keep)
<1> HIDE DEF I, u
<1>4. Lists(u, R, lt, val)
  <2>1. Lists(u, I, Before, t)
    BY <1>1 DEF u
  <2> QED
    BY <1>2, <1>3, <2>1, Selected, ZenonT(60)
<1> QED
  BY <1>4 DEF u

-----------------------------------------------------------------------------
(* Lists: one of several                                                    *)

\* The order of pairs by the first, and then by the second.
Lexically ==
    {p \in (Nat \X Nat) \X (Nat \X Nat) :
        p[1][1] < p[2][1] \/ (p[1][1] = p[2][1] /\ p[1][2] < p[2][2])}

\* f[i] are the first i lists in one.
Flattens(ss, f) == f = [i \in 1 .. Len(ss) |-> IF i = 1 THEN ss[i] ELSE f[i - 1] \o ss[i]]

\* One list of several is made from the first on (FlattenSeq of the library).
LEMMA FlattenIsRecursive ==
    \A ss : FlattenSeq(ss) = IF Len(ss) = 0 THEN ss
                             ELSE (CHOOSE f : Flattens(ss, f))[Len(ss)]
BY DEF FlattenSeq, Flattens

\* There is such a function.
LEMMA FlattensExists ==
    ASSUME NEW n \in Nat, NEW X, NEW ss \in [1 .. n -> Seq(X)], Len(ss) = n
    PROVE  \E f : Flattens(ss, f)
<1> DEFINE S == 1 .. n
           V == Seq(X)
           g == [a \in S \X V |-> a[2] \o ss[a[1]]]
<1>1. ASSUME NEW i \in S, NEW v \in V
      PROVE  g[<<i, v>>] = v \o ss[i] /\ g[<<i, v>>] \in V
  <2>1. <<i, v>> \in S \X V /\ g[<<i, v>>] = v \o ss[i] /\ ss[i] \in Seq(X)
    OBVIOUS
  <2>2. v \o ss[i] \in V
    BY <2>1, ConcatProperties
  <2> QED
    BY <2>1, <2>2
<1>2. g \in [S \X V -> V]
  <2>1. \A a \in S \X V : a[1] \in S /\ a[2] \in V /\ a = <<a[1], a[2]>>
    OBVIOUS
  <2>2. \A a \in S \X V : g[a] \in V
    BY <1>1, <2>1
  <2> QED
    BY <2>2
<1>3. <<>> \in V
  OBVIOUS
<1> HIDE DEF V, g
<1>4. PICK it \in [SUBSET S -> V] : Walk(S, g, <<>>, it)
  <2>1. S = 1 .. n
    OBVIOUS
  <2> HIDE DEF S
  <2> QED
    BY <1>2, <1>3, <2>1, WalkExists
<1> DEFINE f == [i \in 1 .. n |-> it[1 .. i]]
<1>5. ASSUME NEW i \in 1 .. n
      PROVE  it[1 .. i] = it[1 .. i - 1] \o ss[i]
  <2>1. /\ 1 .. i \in SUBSET S /\ 1 .. i - 1 \in SUBSET S /\ 1 .. i # {}
        /\ Latest(1 .. i) = i /\ (1 .. i) \ {i} = 1 .. i - 1
    BY LastOfPrefix
  <2>2. it[1 .. i] = g[<<i, it[1 .. i - 1]>>]
    BY <1>4, <2>1 DEF Walk
  <2>3. it[1 .. i - 1] \in V
    BY <1>4, <2>1
  <2> QED
    BY <1>1, <2>2, <2>3
<1>6. ASSUME NEW i \in 1 .. n
      PROVE  f[i] = IF i = 1 THEN ss[i] ELSE f[i - 1] \o ss[i]
  <2>1. CASE i = 1
    <3>1. 1 .. i - 1 = {} /\ {} \in SUBSET S
      BY <2>1
    <3>2. it[{}] = <<>>
      BY <1>4, <3>1 DEF Walk
    <3>3. ss[i] \in Seq(X) /\ <<>> \o ss[i] = ss[i]
      BY ConcatEmptySeq
    <3> QED
      BY <1>5, <2>1, <3>1, <3>2, <3>3
  <2>2. CASE i # 1
    <3>1. i - 1 \in 1 .. n
      BY <2>2
    <3> QED
      BY <1>5, <2>2, <3>1
  <2> QED
    BY <2>1, <2>2
<1>7. f = [i \in 1 .. n |-> f[i]]
  OBVIOUS
<1> HIDE DEF f
<1>8. f = [i \in 1 .. n |-> IF i = 1 THEN ss[i] ELSE f[i - 1] \o ss[i]]
  BY <1>6, <1>7
<1> QED
  BY <1>8 DEF Flattens

\* The pairs of a list and of a position in it, and what is there.
PairsOf(n, P) == {x \in (1 .. n) \X Nat : x[2] \in P[x[1]]}

Paired(n, P, w) == [x \in PairsOf(n, P) |-> w[x[1]][x[2]]]

\* Lists of positions, one after another, list the pairs of positions.
LEMMA FlattenLists ==
    ASSUME NEW n \in Nat, NEW X, NEW ss \in [1 .. n -> Seq(X)], NEW P, NEW w,
           \A k \in 1 .. n : P[k] \subseteq Nat /\ Lists(ss[k], P[k], Before, w[k])
    PROVE  Lists(FlattenSeq(ss), PairsOf(n, P), Lexically, Paired(n, P, w))
<1> DEFINE S == {x \in (1 .. n) \X Nat : x[2] \in P[x[1]]}
           Upto(k) == {x \in S : x[1] <= k}
           val == [x \in S |-> w[x[1]][x[2]]]
<1>1. Len(ss) = n
  OBVIOUS
<1>2. CASE n = 0
  <2>1. S = {} /\ FlattenSeq(ss) = ss
    BY <1>1, <1>2, FlattenIsRecursive
  <2>2. ss \in [1 .. 0 -> {}]
    BY <1>2
  <2> HIDE DEF S, val
  <2>3. Lists(ss, {}, Lexically, val)
    BY <2>2, ShortLists
  <2> QED
    BY <2>1, <2>3 DEF S, val, PairsOf, Paired
<1>3. CASE n # 0
  <2> DEFINE f == CHOOSE f : Flattens(ss, f)
             Bad == {k \in 1 .. n : ~Lists(f[k], Upto(k), Lexically, val)}
  <2>1. Flattens(ss, f)
    BY <1>1, FlattensExists
  <2>2. FlattenSeq(ss) = f[n]
    BY <1>1, <1>3, FlattenIsRecursive
  <2> HIDE DEF f
  <2>3. \A k \in 1 .. n : f[k] = IF k = 1 THEN ss[k] ELSE f[k - 1] \o ss[k]
    BY <1>1, <2>1 DEF Flattens
  <2>4. ASSUME NEW k \in 1 .. n
        PROVE  Lists(ss[k], {x \in S : x[1] = k}, Lexically, val)
    <3> DEFINE R == {x \in S : x[1] = k}
               g == [i \in P[k] |-> <<k, i>>]
    <3>1. P[k] \subseteq Nat /\ Lists(ss[k], P[k], Before, w[k]) /\ k \in Nat
      OBVIOUS
    <3>2. \A i \in P[k] : /\ g[i] = <<k, i>> /\ g[i] \in S /\ g[i] \in R /\ i \in Nat
                          /\ g[i][1] = k /\ g[i][2] = i
      BY <3>1
    <3>3. g \in [P[k] -> R]
      BY <3>2
    <3>4. \A y \in R : \E i \in P[k] : g[i] = y
      <4> TAKE y \in R
      <4>1. y[2] \in P[k] /\ y = <<k, y[2]>>
        OBVIOUS
      <4> QED
        BY <3>2, <4>1
    <3>5. \A i, j \in P[k] : <<i, j>> \in Before => <<g[i], g[j]>> \in Lexically
      BY <3>1, <3>2 DEF Before, Lexically
    <3>6. \A i \in P[k] : w[k][i] = val[g[i]]
      BY <3>2
    <3>7. Lists(ss[k], P[k], Before, w[k])
      BY <3>1
    <3> HIDE DEF R, g, val
    <3>8. Lists(ss[k], R, Lexically, val)
      BY <3>3, <3>4, <3>5, <3>6, <3>7, Renamed
    <3> QED
      BY <3>8 DEF R
  <2>5. ASSUME Bad # {} PROVE FALSE
    <3>1. Bad \in SUBSET Nat
      OBVIOUS
    <3>2. PICK k \in Bad : \A j \in Bad : k <= j
      <4> HIDE DEF Bad
      <4> QED
        BY <2>5, <3>1, FirstExists
    <3>3. k \in 1 .. n /\ ~Lists(f[k], Upto(k), Lexically, val)
      BY <3>2
    <3>4. Lists(ss[k], {x \in S : x[1] = k}, Lexically, val)
      BY <2>4, <3>3
    <3>5. CASE k = 1
      <4>1. Upto(1) = {x \in S : x[1] = 1} /\ f[1] = ss[1]
        BY <2>3, <3>3, <3>5
      <4> HIDE DEF S, val
      <4> QED
        BY <3>3, <3>4, <3>5, <4>1
    <3>6. CASE k # 1
      <4>1. k - 1 \in 1 .. n /\ ~(k <= k - 1)
        BY <3>3, <3>6
      <4>2. Lists(f[k - 1], Upto(k - 1), Lexically, val)
        BY <3>2, <4>1
      <4>3. f[k] = f[k - 1] \o ss[k]
        BY <2>3, <3>3, <3>6
      <4> DEFINE R == {x \in S : x[1] = k}
      <4>4. \A x \in Upto(k - 1), y \in R : <<x, y>> \in Lexically
        BY <3>3 DEF Lexically
      <4>5. Upto(k) = Upto(k - 1) \cup R
        BY <3>3
      <4> HIDE DEF R, Upto, val
      <4>6. Lists(ss[k], R, Lexically, val)
        BY <3>4 DEF R
      <4>7. Lists(f[k - 1] \o ss[k], Upto(k - 1) \cup R, Lexically, val)
        BY <4>2, <4>4, <4>6, Joined
      <4> QED
        BY <3>3, <4>3, <4>5, <4>7
    <3> QED
      BY <3>5, <3>6
  <2>6. n \in 1 .. n /\ Upto(n) = S
    BY <1>3
  <2>7. Lists(f[n], Upto(n), Lexically, val)
    BY <2>5, <2>6
  <2> HIDE DEF S, val, Upto
  <2>8. Lists(FlattenSeq(ss), S, Lexically, val)
    BY <2>2, <2>6, <2>7
  <2> QED
    BY <2>8 DEF S, val, PairsOf, Paired
<1> QED
  BY <1>2, <1>3

-----------------------------------------------------------------------------
(* Lists: the cheapest first                                                *)

\* The price of an element, and of two elements the one to come first.
PriceOf(s, i) == InputPrice[s[i].model]

Precedes(s, i, j) ==
    PriceOf(s, i) < PriceOf(s, j) \/ (PriceOf(s, i) = PriceOf(s, j) /\ i < j)

Cheaper(s) == {p \in (1 .. Len(s)) \X (1 .. Len(s)) : Precedes(s, p[1], p[2])}

\* Sorting lists all positions, by price, those of equal price in their order.
LEMMA SortLists ==
    ASSUME NEW X, NEW s \in Seq(X), \A i \in 1 .. Len(s) : PriceOf(s, i) \in Nat
    PROVE  Lists(SortedByPrice(s), 1 .. Len(s), Cheaper(s), s)
<1> DEFINE n == Len(s)
           I == 1 .. n
           low(i) == {j \in I : PriceOf(s, j) < PriceOf(s, i)
                                \/ (PriceOf(s, j) = PriceOf(s, i) /\ j <= i)}
           rank == [i \in I |-> Cardinality(low(i))]
           kth(k) == CHOOSE i \in I : rank[i] = k
           h == [k \in I |-> kth(k)]
<1>1. n \in Nat /\ DOMAIN s = I
  OBVIOUS
<1>2. IsFiniteSet(I) /\ Cardinality(I) = n
  <2>1. 1 \in Int /\ n \in Int
    BY <1>1
  <2> QED
    BY <1>1, <2>1, FS_Interval
<1>3. SortedByPrice(s) = [k \in I |-> s[h[k]]]
  <2>1. \A i \in I : rank[i] = Cardinality({j \in DOMAIN s :
                       InputPrice[s[j].model] < InputPrice[s[i].model]
                       \/ (InputPrice[s[j].model] = InputPrice[s[i].model] /\ j <= i)})
    BY <1>1 DEF PriceOf
  <2>2. SortedByPrice(s) = [k \in I |-> s[CHOOSE i \in I : Cardinality({j \in I :
                       InputPrice[s[j].model] < InputPrice[s[i].model]
                       \/ (InputPrice[s[j].model] = InputPrice[s[i].model] /\ j <= i)}) = k]]
    BY <1>1 DEF SortedByPrice
  <2>3. \A k \in I : h[k] = CHOOSE i \in I : Cardinality({j \in I :
                       InputPrice[s[j].model] < InputPrice[s[i].model]
                       \/ (InputPrice[s[j].model] = InputPrice[s[i].model] /\ j <= i)}) = k
    BY <1>1, <2>1
  <2> HIDE DEF h, kth, rank
  <2> QED
    BY <2>2, <2>3
<1>4. \A i \in I : PriceOf(s, i) \in Nat /\ i \in Nat
  OBVIOUS
<1> HIDE DEF n
<1>5. \A i \in I : IsFiniteSet(low(i)) /\ Cardinality(low(i)) \in Nat /\ Cardinality(low(i)) <= n /\ i \in low(i)
  <2> TAKE i \in I
  <2>1. low(i) \subseteq I
    OBVIOUS
  <2>2. i \in low(i)
    BY <1>4
  <2> HIDE DEF low, I
  <2> QED
    BY <1>2, <2>1, <2>2, FS_Subset, FS_CardinalityType
<1>6. ASSUME NEW i \in I, NEW j \in I, Precedes(s, i, j)
      PROVE  rank[i] < rank[j]
  <2>1. low(i) \subseteq low(j)
    <3> SUFFICES ASSUME NEW k \in low(i) PROVE k \in low(j)
      OBVIOUS
    <3>1. k \in I /\ PriceOf(s, k) \in Nat /\ PriceOf(s, i) \in Nat /\ PriceOf(s, j) \in Nat
      BY <1>4
    <3> QED
      BY <1>6, <3>1 DEF Precedes
  <2>2. j \in low(j) /\ j \notin low(i)
    BY <1>4, <1>6 DEF Precedes
  <2>3. low(i) \subseteq low(j) \ {j}
    BY <2>1, <2>2
  <2> HIDE DEF low
  <2>4. IsFiniteSet(low(j) \ {j}) /\ Cardinality(low(j) \ {j}) = Cardinality(low(j)) - 1
    BY <1>5, <2>2, OneLess
  <2>5. Cardinality(low(i)) <= Cardinality(low(j) \ {j})
    BY <2>3, <2>4, FS_Subset
  <2>6. Cardinality(low(i)) < Cardinality(low(j))
    BY <1>5, <2>4, <2>5
  <2> QED
    BY <2>6
<1>7. \A i, j \in I : i = j \/ Precedes(s, i, j) \/ Precedes(s, j, i)
  <2> TAKE i, j \in I
  <2>1. PriceOf(s, i) \in Nat /\ PriceOf(s, j) \in Nat /\ i \in Nat /\ j \in Nat
    BY <1>4
  <2> QED
    BY <2>1 DEF Precedes
<1>8. ASSUME NEW i \in I PROVE rank[i] \in I
  <2>1. Cardinality(low(i)) # 0
    <3> HIDE DEF low
    <3> QED
      BY <1>5, FS_EmptySet
  <2> HIDE DEF low
  <2>2. rank[i] = Cardinality(low(i)) /\ Cardinality(low(i)) \in Nat /\ Cardinality(low(i)) <= n
    BY <1>5
  <2> QED
    BY <1>1, <2>1, <2>2
<1>9. rank \in [I -> I]
  BY <1>8
<1> HIDE DEF rank, low
<1>10. ASSUME NEW i \in I, NEW j \in I, rank[i] = rank[j] PROVE i = j
  <2>1. rank[i] \in Nat /\ rank[j] \in Nat
    BY <1>8, <1>1
  <2> QED
    BY <1>6, <1>7, <1>10, <2>1
<1>11. rank \in Injection(I, I)
  BY <1>9, <1>10 DEF Injection, IsInjective
<1>12. \A k \in I : \E i \in I : rank[i] = k
  <2> HIDE DEF I
  <2>1. rank \in Surjection(I, I)
    BY <1>2, <1>11, FS_Injection
  <2> QED
    BY <2>1 DEF Surjection
<1>13. \A k \in I : h[k] \in I /\ rank[h[k]] = k
  <2> TAKE k \in I
  <2>1. kth(k) \in I /\ rank[kth(k)] = k
    BY <1>12
  <2> QED
    BY <2>1
<1> HIDE DEF kth
<1>14. h \in [I -> I]
  BY <1>13
<1> HIDE DEF h
<1>15. \A i \in I : h[rank[i]] = i /\ rank[i] \in I
  BY <1>8, <1>10, <1>13
<1>16. ASSUME NEW j \in I, NEW k \in I, j < k PROVE <<h[j], h[k]>> \in Cheaper(s)
  <2>1. h[j] \in I /\ h[k] \in I /\ rank[h[j]] = j /\ rank[h[k]] = k /\ j \in Nat /\ k \in Nat
    BY <1>1, <1>13
  <2>2. Precedes(s, h[j], h[k])
    BY <1>6, <1>7, <1>16, <2>1
  <2> QED
    BY <2>1, <2>2 DEF Cheaper, n
<1>17. Numbers(h, n, I, Cheaper(s))
  BY <1>14, <1>15, <1>16 DEF Numbers
<1>18. Lists(SortedByPrice(s), I, Cheaper(s), s)
  BY <1>1, <1>3, <1>17 DEF Lists
<1> QED
  BY <1>18 DEF n

-----------------------------------------------------------------------------
(* What resolve_chain lists                                                 *)

\* The places of the registry whose entries are allowed.
Places(allowed) == {k \in 1 .. Len(Registered) : Registered[k] \in allowed}

\* The registry as a list.
LEMMA Registry ==
    /\ Registered \in Seq(ToSet(Registered)) /\ Len(Registered) \in Nat
    /\ \A k \in 1 .. Len(Registered) : Registered[k] \in ToSet(Registered)
    /\ \A p \in ToSet(Registered) : \E k \in 1 .. Len(Registered) : Registered[k] = p
<1>1. Registered \in Seq(ToSet(Registered))
  BY RegistryAssumption DEF IsList
<1>2. Len(Registered) \in Nat /\ DOMAIN Registered = 1 .. Len(Registered)
  BY <1>1
<1> QED
  BY <1>1, <1>2 DEF ToSet

\* Entries lists the places that are allowed.
LEMMA EntriesLists ==
    ASSUME NEW allowed
    PROVE  Lists(Entries(allowed), Places(allowed), Before, Registered)
<1>1. Lists(Only(Registered, allowed), {k \in 1 .. Len(Registered) : Registered[k] \in allowed},
            Before, Registered)
  BY Registry, OnlyLists
<1> QED
  BY <1>1 DEF Entries, Places

\* And what is left of them, with something made of each entry.
LEMMA EntriesLeft ==
    ASSUME NEW allowed, NEW keep \in SUBSET ToSet(Registered), NEW f
    PROVE  LET e == Only(Entries(allowed), keep)
           IN  /\ \A i \in DOMAIN e : e[i] \in keep
               /\ Lists([i \in DOMAIN e |-> f[e[i]]],
                        {k \in Places(allowed) : Registered[k] \in keep}, Before,
                        [k \in 1 .. Len(Registered) |-> f[Registered[k]]])
<1> DEFINE e == Only(Entries(allowed), keep)
           R == {k \in Places(allowed) : Registered[k] \in keep}
           val == [k \in 1 .. Len(Registered) |-> f[Registered[k]]]
<1>1. /\ R \in SUBSET Places(allowed)
      /\ \A k \in Places(allowed) : k \in R <=> Registered[k] \in keep
      /\ \A k \in R : k \in 1 .. Len(Registered) /\ Registered[k] \in keep
  BY DEF Places
<1>2. \A k \in R : val[k] = f[Registered[k]]
  BY <1>1
<1> HIDE DEF R, val
<1>3. Lists(e, R, Before, Registered)
  BY <1>1, EntriesLists, LeftOver
<1> HIDE DEF e
<1>4. Lists([i \in DOMAIN e |-> f[e[i]]], R, Before, val)
  BY <1>2, <1>3, Mapped
<1>5. \A i \in DOMAIN e : e[i] \in keep
  <2>1. \A i \in DOMAIN e : \E k \in R : e[i] = Registered[k]
    BY <1>3, ListShows
  <2> QED
    BY <1>1, <2>1
<1> QED
  BY <1>4, <1>5 DEF e, R, val

\* What for_model lists.
LEMMA ServingLists ==
    ASSUME NEW m, NEW allowed
    PROVE  Lists(Serving(m, allowed),
                 {k \in Places(allowed) : m \in Supported[Registered[k]]}, Before,
                 [k \in 1 .. Len(Registered) |-> Asked(Registered[k], m)])
<1> DEFINE keep == {p \in ToSet(Registered) : m \in Supported[p]}
           f == [p \in ToSet(Registered) |-> Asked(p, m)]
           e == Only(Entries(allowed), keep)
<1>1. /\ \A i \in DOMAIN e : e[i] \in keep
      /\ Lists([i \in DOMAIN e |-> f[e[i]]],
               {k \in Places(allowed) : Registered[k] \in keep}, Before,
               [k \in 1 .. Len(Registered) |-> f[Registered[k]]])
  <2>1. keep \in SUBSET ToSet(Registered)
    OBVIOUS
  <2> HIDE DEF keep, f
  <2> QED
    BY <2>1, EntriesLeft
<1>2. Serving(m, allowed) = [i \in DOMAIN e |-> Asked(e[i], m)]
  BY DEF Serving
<1>3. \A p \in ToSet(Registered) : f[p] = Asked(p, m)
  OBVIOUS
<1> HIDE DEF e, f
<1>4. Serving(m, allowed) = [i \in DOMAIN e |-> f[e[i]]]
  BY <1>1, <1>2, <1>3
<1>5. [k \in 1 .. Len(Registered) |-> Asked(Registered[k], m)]
      = [k \in 1 .. Len(Registered) |-> f[Registered[k]]]
  BY <1>3, Registry
<1>6. {k \in Places(allowed) : m \in Supported[Registered[k]]}
      = {k \in Places(allowed) : Registered[k] \in keep}
  BY Registry DEF Places
<1> QED
  BY <1>1, <1>4, <1>5, <1>6

\* The default model of an entry, and the entries that have one.
DefaultOf(p) == IF p \in DOMAIN DefaultModel THEN DefaultModel[p] ELSE Head(Listed[p])

HasDefault == {p \in ToSet(Registered) : p \in DOMAIN DefaultModel \/ Listed[p] # <<>>}

\* What "auto" lists.
LEMMA DefaultsLists ==
    ASSUME NEW allowed
    PROVE  Lists(Defaults(allowed), {k \in Places(allowed) : Registered[k] \in HasDefault}, Before,
                 [k \in 1 .. Len(Registered) |-> Asked(Registered[k], DefaultOf(Registered[k]))])
<1> DEFINE f == [p \in ToSet(Registered) |-> Asked(p, DefaultOf(p))]
           e == Only(Entries(allowed), HasDefault)
<1>1. HasDefault \in SUBSET ToSet(Registered)
  BY DEF HasDefault
<1>2. /\ \A i \in DOMAIN e : e[i] \in HasDefault
      /\ Lists([i \in DOMAIN e |-> f[e[i]]],
               {k \in Places(allowed) : Registered[k] \in HasDefault}, Before,
               [k \in 1 .. Len(Registered) |-> f[Registered[k]]])
  <2> HIDE DEF f
  <2> QED
    BY <1>1, EntriesLeft
<1>3. Defaults(allowed) = [i \in DOMAIN e |-> Asked(e[i], DefaultOf(e[i]))]
  BY DEF Defaults, HasDefault, DefaultOf
<1>4. \A p \in ToSet(Registered) : f[p] = Asked(p, DefaultOf(p))
  OBVIOUS
<1> HIDE DEF e, f
<1>5. Defaults(allowed) = [i \in DOMAIN e |-> f[e[i]]]
  BY <1>1, <1>2, <1>3, <1>4
<1>6. [k \in 1 .. Len(Registered) |-> Asked(Registered[k], DefaultOf(Registered[k]))]
      = [k \in 1 .. Len(Registered) |-> f[Registered[k]]]
  BY <1>4, Registry
<1> QED
  BY <1>2, <1>5, <1>6

\* The places of an entry's priced models.
PricedAt(p) == {i \in 1 .. Len(Listed[p]) : Listed[p][i] \in DOMAIN InputPrice}

\* What an entry adds to "cheapest".
LEMMA PricedLists ==
    ASSUME NEW p \in ToSet(Registered)
    PROVE  /\ PricedAt(p) \subseteq Nat
           /\ \A n \in ToSet(Listed[p]) \cap DOMAIN InputPrice : \E i \in PricedAt(p) : Listed[p][i] = n
           /\ Lists(Priced(p), PricedAt(p), Before,
                    [i \in 1 .. Len(Listed[p]) |-> Asked(p, Listed[p][i])])
<1> DEFINE e == Only(Listed[p], DOMAIN InputPrice)
           val == [i \in 1 .. Len(Listed[p]) |-> Asked(p, Listed[p][i])]
           f == [n \in ToSet(Listed[p]) |-> Asked(p, n)]
<1>1. Listed[p] \in Seq(ToSet(Listed[p]))
  BY RegistryAssumption DEF IsList
<1>2. /\ DOMAIN Listed[p] = 1 .. Len(Listed[p]) /\ Len(Listed[p]) \in Nat
      /\ \A i \in 1 .. Len(Listed[p]) : Listed[p][i] \in ToSet(Listed[p])
      /\ \A n \in ToSet(Listed[p]) : \E i \in 1 .. Len(Listed[p]) : Listed[p][i] = n
  BY <1>1 DEF ToSet
<1>3. Lists(e, PricedAt(p), Before, Listed[p])
  BY <1>1, OnlyLists DEF PricedAt
<1>4. \A i \in PricedAt(p) : val[i] = f[Listed[p][i]]
  BY <1>2 DEF PricedAt
<1>5. Priced(p) = [i \in DOMAIN e |-> Asked(p, e[i])]
  BY DEF Priced
<1>6. \A i \in DOMAIN e : e[i] \in ToSet(Listed[p])
  <2> HIDE DEF e
  <2>1. \A i \in DOMAIN e : \E x \in PricedAt(p) : e[i] = Listed[p][x]
    BY <1>3, ListShows
  <2> QED
    BY <1>2, <2>1 DEF PricedAt
<1>7. \A i \in DOMAIN e : f[e[i]] = Asked(p, e[i])
  BY <1>6
<1> HIDE DEF e, f, val
<1>8. Lists([i \in DOMAIN e |-> f[e[i]]], PricedAt(p), Before, val)
  BY <1>3, <1>4, Mapped
<1>9. Priced(p) = [i \in DOMAIN e |-> f[e[i]]]
  BY <1>5, <1>7
<1> QED
  BY <1>2, <1>8, <1>9 DEF PricedAt, val

\* The places of the priced models of all entries that are allowed.
Pairs(allowed) ==
    {x \in (1 .. Len(Registered)) \X Nat :
        Registered[x[1]] \in allowed /\ x[2] \in PricedAt(Registered[x[1]])}

AskedAt == [x \in (1 .. Len(Registered)) \X Nat |->
               Asked(Registered[x[1]], Listed[Registered[x[1]]][x[2]])]

\* A place names an entry and a model that has a price.
LEMMA PairIsPriced ==
    ASSUME NEW allowed, NEW x \in Pairs(allowed)
    PROVE  /\ x[1] \in 1 .. Len(Registered) /\ x[2] \in Nat /\ x = <<x[1], x[2]>>
           /\ AskedAt[x].provider \in allowed
           /\ AskedAt[x].provider = Registered[x[1]]
           /\ AskedAt[x].model \in DOMAIN InputPrice
           /\ InputPrice[AskedAt[x].model] \in Nat
<1>1. /\ x[1] \in 1 .. Len(Registered) /\ x[2] \in Nat /\ x = <<x[1], x[2]>>
      /\ Registered[x[1]] \in allowed /\ x[2] \in PricedAt(Registered[x[1]])
  BY DEF Pairs
<1>2. AskedAt[x] = Asked(Registered[x[1]], Listed[Registered[x[1]]][x[2]])
  BY <1>1 DEF AskedAt
<1>3. /\ AskedAt[x].provider = Registered[x[1]]
      /\ AskedAt[x].model = Listed[Registered[x[1]]][x[2]]
  BY <1>2 DEF Asked
<1> QED
  BY <1>1, <1>3, RegistryAssumption DEF PricedAt

\* What "cheapest" collects.
LEMMA PricedModelsLists ==
    ASSUME NEW allowed
    PROVE  Lists(PricedModels(allowed), Pairs(allowed), Lexically, AskedAt)
<1> DEFINE e == Entries(allowed)
           X == [provider : ToSet(Registered), model : DOMAIN InputPrice]
<1>1. PICK n \in Nat : \E h : Numbers(h, n, Places(allowed), Before)
                              /\ e = [k \in 1 .. n |-> Registered[h[k]]]
  BY EntriesLists DEF Lists
<1>2. PICK h :
      /\ h \in [1 .. n -> Places(allowed)] /\ e = [k \in 1 .. n |-> Registered[h[k]]]
      /\ \A x \in Places(allowed) : \E k \in 1 .. n : h[k] = x
      /\ \A j, k \in 1 .. n : j < k => <<h[j], h[k]>> \in Before
  BY <1>1 DEF Numbers
<1>3. \A k \in 1 .. n : /\ h[k] \in 1 .. Len(Registered) /\ h[k] \in Nat
                        /\ e[k] = Registered[h[k]] /\ e[k] \in allowed /\ e[k] \in ToSet(Registered)
  BY <1>2, Registry DEF Places
<1> DEFINE ss == [k \in 1 .. n |-> Priced(e[k])]
           P == [k \in 1 .. n |-> PricedAt(e[k])]
           w == [k \in 1 .. n |-> [i \in 1 .. Len(Listed[e[k]]) |-> Asked(e[k], Listed[e[k]][i])]]
           S == PairsOf(n, P)
           val == Paired(n, P, w)
           g == [x \in S |-> <<h[x[1]], x[2]>>]
<1>4. DOMAIN e = 1 .. n
  BY <1>2
<1>5. PricedModels(allowed) = FlattenSeq(ss)
  BY <1>4 DEF PricedModels
<1> HIDE DEF e
<1>6. ASSUME NEW k \in 1 .. n
      PROVE  /\ ss[k] = Priced(e[k]) /\ P[k] = PricedAt(e[k])
             /\ w[k] = [i \in 1 .. Len(Listed[e[k]]) |-> Asked(e[k], Listed[e[k]][i])]
             /\ P[k] \subseteq Nat /\ Lists(ss[k], P[k], Before, w[k])
  <2>1. /\ PricedAt(e[k]) \subseteq Nat
        /\ Lists(Priced(e[k]), PricedAt(e[k]), Before,
                 [i \in 1 .. Len(Listed[e[k]]) |-> Asked(e[k], Listed[e[k]][i])])
    BY <1>3, PricedLists
  <2>2. /\ ss[k] = Priced(e[k]) /\ P[k] = PricedAt(e[k])
        /\ w[k] = [i \in 1 .. Len(Listed[e[k]]) |-> Asked(e[k], Listed[e[k]][i])]
    OBVIOUS
  <2> HIDE DEF ss, P, w
  <2> QED
    BY <2>1, <2>2
<1>7. ss \in [1 .. n -> Seq(X)]
  <2> SUFFICES ASSUME NEW k \in 1 .. n PROVE Priced(e[k]) \in Seq(X)
    OBVIOUS
  <2> DEFINE V == {w[k][i] : i \in P[k]}
  <2>1. \A i \in P[k] : w[k][i] = Asked(e[k], Listed[e[k]][i]) /\ Listed[e[k]][i] \in DOMAIN InputPrice
    BY <1>6 DEF PricedAt
  <2>2. \A i \in P[k] : w[k][i] \in X
    <3> SUFFICES ASSUME NEW i \in P[k] PROVE w[k][i] \in X
      OBVIOUS
    <3> HIDE DEF P, w
    <3>1. Asked(e[k], Listed[e[k]][i]) \in X
      BY <1>3, <2>1 DEF Asked
    <3> QED
      BY <2>1, <3>1
  <2>3. V \subseteq X
    BY <2>2
  <2> HIDE DEF ss, P, w, X
  <2>4. ss[k] \in Seq(V)
    <3>1. Lists(ss[k], P[k], Before, w[k])
      BY <1>6
    <3> QED
      BY <3>1, ListIsSeq
  <2> HIDE DEF V
  <2>5. ss[k] \in Seq(X)
    BY <2>3, <2>4, SeqMonotonic
  <2> QED
    BY <1>6, <2>5
<1>8. Lists(FlattenSeq(ss), S, Lexically, val)
  <2>1. \A k \in 1 .. n : P[k] \subseteq Nat /\ Lists(ss[k], P[k], Before, w[k])
    BY <1>6
  <2> HIDE DEF ss, P, w, X
  <2> QED
    BY <1>7, <2>1, FlattenLists
<1> HIDE DEF ss, w
<1>9. \A x \in S : /\ x[1] \in 1 .. n /\ x[2] \in Nat /\ x[2] \in PricedAt(e[x[1]]) /\ x = <<x[1], x[2]>>
                   /\ g[x] = <<h[x[1]], x[2]>> /\ g[x][1] = h[x[1]] /\ g[x][2] = x[2]
                   /\ val[x] = w[x[1]][x[2]]
  BY <1>6 DEF PairsOf, Paired
<1> HIDE DEF val, P
<1>10. \A x \in S : g[x] \in Pairs(allowed)
  BY <1>3, <1>9 DEF Pairs
<1>11. g \in [S -> Pairs(allowed)]
  BY <1>10
<1>12. ASSUME NEW y \in Pairs(allowed) PROVE \E x \in S : g[x] = y
  <2>1. y[1] \in Places(allowed) /\ y[2] \in Nat /\ y = <<y[1], y[2]>> /\ y[2] \in PricedAt(Registered[y[1]])
    BY PairIsPriced DEF Places, Pairs
  <2>2. PICK k \in 1 .. n : h[k] = y[1]
    BY <1>2, <2>1
  <2>3. <<k, y[2]>> \in S
    BY <1>3, <1>6, <2>1, <2>2 DEF PairsOf
  <2> QED
    BY <1>9, <2>1, <2>2, <2>3
<1>13. ASSUME NEW x \in S, NEW y \in S, <<x, y>> \in Lexically PROVE <<g[x], g[y]>> \in Lexically
  <2>1. /\ x[1] < y[1] \/ (x[1] = y[1] /\ x[2] < y[2])
        /\ x[1] \in 1 .. n /\ y[1] \in 1 .. n /\ x[2] \in Nat /\ y[2] \in Nat
    BY <1>9, <1>13 DEF Lexically
  <2>2. h[x[1]] \in Nat /\ h[y[1]] \in Nat
    BY <1>3, <2>1
  <2>3. h[x[1]] < h[y[1]] \/ (h[x[1]] = h[y[1]] /\ x[2] < y[2])
    BY <1>2, <2>1 DEF Before
  <2>4. g[x] = <<h[x[1]], x[2]>> /\ g[y] = <<h[y[1]], y[2]>>
    BY <1>9
  <2> HIDE DEF g
  <2> QED
    BY <2>1, <2>2, <2>3, <2>4 DEF Lexically
<1>14. ASSUME NEW x \in S PROVE val[x] = AskedAt[g[x]]
  <2>1. val[x] = Asked(e[x[1]], Listed[e[x[1]]][x[2]])
    <3>1. x[1] \in 1 .. n /\ x[2] \in 1 .. Len(Listed[e[x[1]]]) /\ val[x] = w[x[1]][x[2]]
      BY <1>9 DEF PricedAt
    <3>2. w[x[1]] = [i \in 1 .. Len(Listed[e[x[1]]]) |-> Asked(e[x[1]], Listed[e[x[1]]][i])]
      BY <1>6, <3>1
    <3> QED
      BY <3>1, <3>2
  <2>2. g[x] \in (1 .. Len(Registered)) \X Nat /\ g[x][1] = h[x[1]] /\ g[x][2] = x[2]
    BY <1>9, <1>10 DEF Pairs
  <2>3. AskedAt[g[x]] = Asked(Registered[h[x[1]]], Listed[Registered[h[x[1]]]][x[2]])
    BY <2>2 DEF AskedAt
  <2> QED
    BY <1>3, <1>9, <2>1, <2>3
<1> HIDE DEF S, g
<1>15. Lists(FlattenSeq(ss), Pairs(allowed), Lexically, AskedAt)
  BY <1>8, <1>11, <1>12, <1>13, <1>14, Renamed
<1> QED
  BY <1>5, <1>15

\* The order in which it sorts them.
CostAt(x) == InputPrice[AskedAt[x].model]

ByCost ==
    {p \in Pairs(ToSet(Registered)) \X Pairs(ToSet(Registered)) :
        CostAt(p[1]) < CostAt(p[2]) \/ (CostAt(p[1]) = CostAt(p[2]) /\ p \in Lexically)}

\* What "cheapest" lists.
LEMMA CheapestLists ==
    ASSUME NEW allowed \in SUBSET ToSet(Registered)
    PROVE  Lists(SortedByPrice(PricedModels(allowed)), Pairs(allowed), ByCost, AskedAt)
<1> DEFINE s == PricedModels(allowed)
           R == Pairs(allowed)
<1>1. PICK n \in Nat : \E h : Numbers(h, n, R, Lexically) /\ s = [k \in 1 .. n |-> AskedAt[h[k]]]
  BY PricedModelsLists DEF Lists
<1>2. PICK h :
      /\ h \in [1 .. n -> R] /\ s = [k \in 1 .. n |-> AskedAt[h[k]]]
      /\ \A x \in R : \E k \in 1 .. n : h[k] = x
      /\ \A j, k \in 1 .. n : j < k => <<h[j], h[k]>> \in Lexically
  BY <1>1 DEF Numbers
<1> HIDE DEF s
<1>3. s \in Seq({AskedAt[x] : x \in R}) /\ DOMAIN s = 1 .. Len(s) /\ Len(s) \in Nat
  BY PricedModelsLists, ListIsSeq DEF s
<1>4. Len(s) = n
  BY <1>2, <1>3
<1>5. \A x \in R : x \in Pairs(ToSet(Registered)) /\ CostAt(x) \in Nat
  BY PairIsPriced DEF CostAt, Pairs
<1> HIDE DEF R
<1>6. \A i \in 1 .. n : h[i] \in R /\ s[i] = AskedAt[h[i]] /\ PriceOf(s, i) = CostAt(h[i])
  BY <1>2 DEF PriceOf, CostAt
<1>7. \A i \in 1 .. Len(s) : PriceOf(s, i) \in Nat
  BY <1>4, <1>5, <1>6
<1>8. Lists(SortedByPrice(s), 1 .. Len(s), Cheaper(s), s)
  BY <1>3, <1>7, SortLists
<1>9. ASSUME NEW i \in 1 .. n, NEW j \in 1 .. n, <<i, j>> \in Cheaper(s)
      PROVE  <<h[i], h[j]>> \in ByCost
  <2>1. CostAt(h[i]) < CostAt(h[j]) \/ (CostAt(h[i]) = CostAt(h[j]) /\ i < j)
    BY <1>6, <1>9 DEF Cheaper, Precedes
  <2>2. h[i] \in Pairs(ToSet(Registered)) /\ h[j] \in Pairs(ToSet(Registered))
    BY <1>5, <1>6
  <2> QED
    BY <1>2, <2>1, <2>2 DEF ByCost
<1>10. Lists(SortedByPrice(s), 1 .. n, Cheaper(s), s)
  BY <1>4, <1>8
<1>11. /\ h \in [1 .. n -> R] /\ \A y \in R : \E x \in 1 .. n : h[x] = y
       /\ \A x \in 1 .. n : s[x] = AskedAt[h[x]]
  BY <1>2, <1>6
<1>12. Lists(SortedByPrice(s), R, ByCost, AskedAt)
  BY <1>9, <1>10, <1>11, Renamed
<1> QED
  BY <1>12 DEF s, R

\* Neither order has two places before each other.
LEMMA OrdersAreStrict ==
    /\ \A S \in SUBSET Nat : Strict(Before, S)
    /\ \A S \in SUBSET Pairs(ToSet(Registered)) : Strict(ByCost, S)
<1>1. \A S \in SUBSET Nat : Strict(Before, S)
  BY DEF Strict, Before
<1>2. ASSUME NEW x \in Pairs(ToSet(Registered)), NEW y \in Pairs(ToSet(Registered)),
             <<x, y>> \in ByCost, <<y, x>> \in ByCost
      PROVE  FALSE
  <2>1. CostAt(x) \in Nat /\ CostAt(y) \in Nat
    BY PairIsPriced DEF CostAt
  <2>2. /\ CostAt(x) < CostAt(y) \/ (CostAt(x) = CostAt(y) /\ <<x, y>> \in Lexically)
        /\ CostAt(y) < CostAt(x) \/ (CostAt(y) = CostAt(x) /\ <<y, x>> \in Lexically)
    BY <1>2 DEF ByCost
  <2>3. <<x, y>> \in Lexically /\ <<y, x>> \in Lexically
    BY <2>1, <2>2
  <2>4. x[1] \in Nat /\ y[1] \in Nat /\ x[2] \in Nat /\ y[2] \in Nat
    <3>1. x[1] \in 1 .. Len(Registered) /\ x[2] \in Nat
      BY DEF Pairs
    <3>2. y[1] \in 1 .. Len(Registered) /\ y[2] \in Nat
      BY DEF Pairs
    <3> QED
      BY <3>1, <3>2
  <2>5. /\ x[1] < y[1] \/ (x[1] = y[1] /\ x[2] < y[2])
        /\ y[1] < x[1] \/ (y[1] = x[1] /\ y[2] < x[2])
    BY <2>3 DEF Lexically
  <2> QED
    BY <2>4, <2>5
<1> QED
  BY <1>1, <1>2 DEF Strict

-----------------------------------------------------------------------------
(* The chain is cut from one ranking                                        *)

\* What resolve_chain ranks for m, in which order, whoever is allowed.
Ranks(m, S, lt, val) ==
    /\ Strict(lt, S)
    /\ \A allowed \in SUBSET Providers :
          Lists(Chain(m, allowed, TRUE), {x \in S : val[x].provider \in allowed}, lt, val)

\* "cheapest" and "fastest" rank the priced models, by price.
LEMMA RanksByPrice ==
    ASSUME NEW m \in ByPrice
    PROVE  Ranks(m, Pairs(Providers), ByCost, AskedAt)
<1>1. Strict(ByCost, Pairs(Providers))
  BY OrdersAreStrict, ProvidersAssumption
<1>2. ASSUME NEW allowed \in SUBSET Providers
      PROVE  Lists(Chain(m, allowed, TRUE), {x \in Pairs(Providers) : AskedAt[x].provider \in allowed},
                   ByCost, AskedAt)
  <2>1. {x \in Pairs(Providers) : AskedAt[x].provider \in allowed} = Pairs(allowed)
    <3>1. \A x \in Pairs(Providers) :
             x \in Pairs(allowed) <=> AskedAt[x].provider \in allowed
      <4> TAKE x \in Pairs(Providers)
      <4>1. AskedAt[x].provider = Registered[x[1]]
        BY PairIsPriced
      <4> QED
        BY <4>1 DEF Pairs
    <3>2. Pairs(allowed) \subseteq Pairs(Providers)
      BY DEF Pairs
    <3> QED
      BY <3>1, <3>2
  <2>2. Chain(m, allowed, TRUE) = SortedByPrice(PricedModels(allowed))
    BY DEF Chain, ByPrice
  <2> QED
    BY <2>1, <2>2, CheapestLists, ProvidersAssumption
<1> QED
  BY <1>1, <1>2 DEF Ranks

\* The others rank the entries, as they were registered.
LEMMA RanksEntries ==
    ASSUME NEW m, NEW val, NEW S \in SUBSET (1 .. Len(Registered)),
           \A k \in S : val[k].provider = Registered[k],
           \A allowed \in SUBSET Providers :
              Lists(Chain(m, allowed, TRUE), S \cap Places(allowed), Before, val)
    PROVE  Ranks(m, S, Before, val)
<1>1. Strict(Before, S)
  <2>1. S \in SUBSET Nat
    BY Registry
  <2> QED
    BY <2>1, OrdersAreStrict
<1>2. ASSUME NEW allowed \in SUBSET Providers
      PROVE  Lists(Chain(m, allowed, TRUE), {k \in S : val[k].provider \in allowed}, Before, val)
  <2>1. {k \in S : val[k].provider \in allowed} = S \cap Places(allowed)
    BY DEF Places
  <2> QED
    BY <2>1
<1> QED
  BY <1>1, <1>2 DEF Ranks

\* Whatever the model or alias, it is one ranking that the breakers cut.
LEMMA ChainRanks ==
    ASSUME NEW m
    PROVE  \E S, lt, val : Ranks(m, S, lt, val)
<1>1. CASE m \in ByPrice
  BY <1>1, RanksByPrice
<1>2. CASE m = "auto"
  <2> DEFINE val == [k \in 1 .. Len(Registered) |-> Asked(Registered[k], DefaultOf(Registered[k]))]
             S == {k \in 1 .. Len(Registered) : Registered[k] \in HasDefault}
  <2>1. \A k \in S : val[k].provider = Registered[k]
    BY DEF Asked
  <2>2. ASSUME NEW allowed \in SUBSET Providers
        PROVE  Lists(Chain(m, allowed, TRUE), S \cap Places(allowed), Before, val)
    <3>1. Chain(m, allowed, TRUE) = Defaults(allowed)
      BY <1>2 DEF Chain, ByPrice
    <3>2. S \cap Places(allowed) = {k \in Places(allowed) : Registered[k] \in HasDefault}
      BY DEF Places
    <3> QED
      BY <3>1, <3>2, DefaultsLists
  <2>3. S \in SUBSET (1 .. Len(Registered))
    OBVIOUS
  <2> HIDE DEF S, val
  <2> QED
    BY <2>1, <2>2, <2>3, RanksEntries
<1>3. CASE m \notin ByPrice /\ m # "auto"
  <2> DEFINE val == [k \in 1 .. Len(Registered) |-> Asked(Registered[k], m)]
             S == {k \in 1 .. Len(Registered) : m \in Supported[Registered[k]]}
  <2>1. \A k \in S : val[k].provider = Registered[k]
    BY DEF Asked
  <2>2. ASSUME NEW allowed \in SUBSET Providers
        PROVE  Lists(Chain(m, allowed, TRUE), S \cap Places(allowed), Before, val)
    <3>1. Chain(m, allowed, TRUE) = Serving(m, allowed)
      BY <1>3 DEF Chain
    <3>2. S \cap Places(allowed) = {k \in Places(allowed) : m \in Supported[Registered[k]]}
      BY DEF Places
    <3> QED
      BY <3>1, <3>2, ServingLists
  <2>3. S \in SUBSET (1 .. Len(Registered))
    OBVIOUS
  <2> HIDE DEF S, val
  <2> QED
    BY <2>1, <2>2, <2>3, RanksEntries
<1> QED
  BY <1>1, <1>2, <1>3

\* The list of those that are allowed are the candidates at their positions.
LEMMA ChainIsCut ==
    ASSUME NEW m \in Models \cup Aliases, NEW allowed \in SUBSET Providers
    PROVE  Chain(m, allowed, TRUE)
              = At(Candidates[m], {i \in Positions(m) : ProviderAt(m, i) \in allowed})
<1>1. PICK S, lt, val : Ranks(m, S, lt, val)
  BY ChainRanks
<1> DEFINE t == Candidates[m]
           I == {i \in 1 .. Len(t) : ProviderAt(m, i) \in allowed}
           all == {x \in S : val[x].provider \in Providers}
           R == {x \in S : val[x].provider \in allowed}
           keep == {c \in {val[x] : x \in all} : c.provider \in allowed}
<1>2. Lists(t, all, lt, val)
  BY <1>1, CandidatesAreListed DEF Ranks
<1>3. Lists(Chain(m, allowed, TRUE), R, lt, val)
  BY <1>1 DEF Ranks
<1> HIDE DEF t
<1>4. t \in Seq({val[x] : x \in all}) /\ Len(t) \in Nat /\ DOMAIN t = 1 .. Len(t)
  <2> HIDE DEF all
  <2> QED
    BY <1>2, ListIsSeq
<1>5. \A i \in 1 .. Len(t) : t[i] \in {val[x] : x \in all} /\ t[i].provider = ProviderAt(m, i)
  <2> HIDE DEF all
  <2> QED
    BY <1>4, ElementOfSeq DEF t, ProviderAt
<1>6. \A i \in 1 .. Len(t) : i \in I <=> t[i] \in keep
  BY <1>5
<1>7. \A x \in all : x \in R <=> val[x] \in keep
  OBVIOUS
<1>8. R \in SUBSET all /\ I \in SUBSET (1 .. Len(t))
  OBVIOUS
<1>9. {i \in Positions(m) : ProviderAt(m, i) \in allowed} = I
  BY <1>4 DEF Positions, t
<1>10. Strict(lt, R)
  BY <1>1 DEF Ranks, Strict
<1> HIDE DEF all, R, keep, I
<1>11. Lists(At(t, I), I, Before, t)
  BY <1>4, <1>8, AtLists
<1>12. Lists(At(t, I), R, lt, val)
  BY <1>2, <1>6, <1>7, <1>8, <1>11, Selected
<1>13. Chain(m, allowed, TRUE) = At(t, I)
  BY <1>3, <1>10, <1>12, OneListing
<1> QED
  BY <1>9, <1>13 DEF t

\* The first of some positions alone.
LEMMA FirstOfAt ==
    ASSUME NEW n \in Nat, NEW s, NEW I \in SUBSET (1 .. n),
           NEW i \in I, \A j \in I : i <= j
    PROVE  At(s, I) # <<>> /\ <<Head(At(s, I))>> = At(s, {i})
<1>1. Lists(At(s, I), I, Before, s)
  BY AtLists
<1>2. PICK m \in Nat : \E h : Numbers(h, m, I, Before) /\ At(s, I) = [k \in 1 .. m |-> s[h[k]]]
  BY <1>1 DEF Lists
<1>3. PICK h :
      /\ h \in [1 .. m -> I] /\ At(s, I) = [k \in 1 .. m |-> s[h[k]]]
      /\ \A x \in I : \E k \in 1 .. m : h[k] = x
      /\ \A j, k \in 1 .. m : j < k => <<h[j], h[k]>> \in Before
  BY <1>2 DEF Numbers
<1>4. PICK k \in 1 .. m : h[k] = i
  BY <1>3
<1>5. 1 \in 1 .. m
  BY <1>4
<1>6. h[1] = i
  <2> SUFFICES ASSUME 1 < k PROVE FALSE
    BY <1>4
  <2>1. h[1] \in I /\ h[1] \in Nat /\ i \in Nat /\ h[1] < i
    BY <1>3, <1>4, <1>5 DEF Before
  <2> QED
    BY <2>1
<1>7. DOMAIN At(s, I) = 1 .. m /\ At(s, I)[1] = s[i]
  BY <1>3, <1>5, <1>6
<1>8. At(s, I) # <<>>
  BY <1>5, <1>7
<1> DEFINE V == {s[x] : x \in I}
           t == At(s, I)
<1>9. t \in Seq(V)
  <2> HIDE DEF t
  <2> QED
    BY <1>1, ListIsSeq DEF t
<1>10. Head(t) = s[i]
  <2> HIDE DEF t, V
  <2> QED
    BY <1>7, <1>8, <1>9 DEF t
<1>11. At(s, {i}) = <<s[i]>>
  <2>1. Lists(At(s, {i}), {i}, Before, s)
    BY AtLists
  <2>2. Lists(<<s[i]>>, {i}, Before, s)
    BY ShortLists
  <2>3. Strict(Before, {i})
    <3>1. {i} \in SUBSET Nat
      OBVIOUS
    <3> QED
      BY <3>1, OrdersAreStrict
  <2> QED
    BY <2>1, <2>2, <2>3, OneListing
<1> QED
  BY <1>8, <1>10, <1>11 DEF t

\* In any state, whatever the breakers, resolve_chain returns the candidates
\* that Router walks.
LEMMA ResolvedAsWalked == ChainIsResolved
<1> SUFFICES ASSUME NEW m \in Models \cup Aliases
             PROVE  Chain(m, AllowedProviders, FallbackEnabled) = CandidatesAt(m, ResolveChain(m))
  BY DEF ChainIsResolved
<1> DEFINE t == Candidates[m]
           I == AllowedPositions(m)
           chain == Chain(m, AllowedProviders, TRUE)
<1>1. CandidatesAt(m, ResolveChain(m)) = At(t, ResolveChain(m))
  BY DEF CandidatesAt, At
<1>2. I = {i \in Positions(m) : ProviderAt(m, i) \in AllowedProviders}
  BY PositionsOfModel DEF AllowedPositions, AllowedProviders
<1>3. chain = At(t, I)
  <2>1. AllowedProviders \in SUBSET Providers
    BY DEF AllowedProviders
  <2> QED
    BY <1>2, <2>1, ChainIsCut
<1>4. CASE FallbackEnabled
  <2>1. ResolveChain(m) = I
    BY <1>4 DEF ResolveChain, AllowedPositions
  <2>2. Chain(m, AllowedProviders, FallbackEnabled) = chain
    BY <1>4 DEF Chain
  <2> QED
    BY <1>1, <1>3, <2>1, <2>2
<1>5. CASE ~FallbackEnabled
  <2>1. Chain(m, AllowedProviders, FallbackEnabled) = IF chain = <<>> THEN chain ELSE <<Head(chain)>>
    BY <1>5 DEF Chain
  <2>2. Len(t) \in Nat /\ I \in SUBSET (1 .. Len(t)) /\ I \in SUBSET Nat
    BY CandidatesAssumption DEF AllowedPositions, Positions
  <2>3. ResolveChain(m) = {i \in I : \A j \in I : i <= j}
    BY <1>5 DEF ResolveChain
  <2> HIDE DEF I, t, chain
  <2>4. CASE I = {}
    <3>1. ResolveChain(m) = I
      BY <2>3, <2>4
    <3>2. chain = <<>>
      <4>1. {} \in SUBSET (1 .. Len(t)) /\ {} \in SUBSET Nat
        OBVIOUS
      <4>2. Lists(chain, {}, Before, t)
        <5>1. Lists(At(t, {}), {}, Before, t)
          BY <2>2, <4>1, AtLists
        <5> QED
          BY <1>3, <2>4, <5>1
      <4>3. Lists(<<>>, {}, Before, t)
        <5>1. <<>> \in [1 .. 0 -> {}]
          OBVIOUS
        <5> QED
          BY <5>1, ShortLists
      <4>4. Strict(Before, {})
        BY <4>1, OrdersAreStrict
      <4> QED
        BY <4>2, <4>3, <4>4, OneListing
    <3> QED
      BY <1>1, <1>3, <2>1, <3>1, <3>2
  <2>5. CASE I # {}
    <3>1. PICK i \in I : \A j \in I : i <= j
      BY <2>2, <2>5, FirstExists
    <3>2. ResolveChain(m) = {i}
      <4>1. \A j \in I : j <= i /\ i <= j => j = i
        BY <2>2, <3>1
      <4>2. i \in ResolveChain(m)
        BY <2>3, <3>1
      <4>3. \A j \in ResolveChain(m) : j \in I /\ j <= i /\ i <= j
        BY <2>3, <3>1
      <4> QED
        BY <4>1, <4>2, <4>3
    <3>3. chain # <<>> /\ <<Head(chain)>> = At(t, {i})
      BY <1>3, <2>2, <3>1, FirstOfAt
    <3> QED
      BY <1>1, <2>1, <3>2, <3>3
  <2> QED
    BY <2>4, <2>5
<1> QED
  BY <1>4, <1>5

\* The list the code filters, sorts and cuts is always the one Router walks.
THEOREM ResolvedChain == Spec => []ChainIsResolved
BY ResolvedAsWalked, PTL

-----------------------------------------------------------------------------
(* The first call                                                           *)

\* The candidates for "cheapest" cost more and more, and show every priced
\* model of every entry.
LEMMA CandidatesByPrice ==
    ASSUME NEW m \in ByPrice, m \in Models \cup Aliases
    PROVE  /\ \A i \in Positions(m) : Price(m, i) \in Nat
           /\ \A i, j \in Positions(m) : i < j => Price(m, i) <= Price(m, j)
           /\ \A p \in Providers : \A n \in ToSet(Listed[p]) \cap DOMAIN InputPrice :
                 \E j \in Positions(m) : Candidates[m][j] = Asked(p, n)
<1> DEFINE t == Candidates[m]
           S == {x \in Pairs(Providers) : AskedAt[x].provider \in Providers}
<1>1. Lists(t, S, ByCost, AskedAt)
  <2>1. Ranks(m, Pairs(Providers), ByCost, AskedAt)
    BY RanksByPrice
  <2>2. Lists(Chain(m, Providers, TRUE), S, ByCost, AskedAt)
    BY <2>1 DEF Ranks
  <2> QED
    BY <2>2, CandidatesAreListed
<1>2. /\ \A x \in S : x \in Pairs(Providers)
      /\ \A x \in Pairs(Providers) : x \in S
  BY PairIsPriced
<1> HIDE DEF S
<1>3. PICK n \in Nat : \E h : Numbers(h, n, S, ByCost) /\ t = [k \in 1 .. n |-> AskedAt[h[k]]]
  BY <1>1 DEF Lists
<1>4. PICK h :
      /\ h \in [1 .. n -> S] /\ t = [k \in 1 .. n |-> AskedAt[h[k]]]
      /\ \A x \in S : \E k \in 1 .. n : h[k] = x
      /\ \A j, k \in 1 .. n : j < k => <<h[j], h[k]>> \in ByCost
  BY <1>3 DEF Numbers
<1>5. Positions(m) = 1 .. n
  BY <1>4 DEF Positions
<1>6. \A i \in 1 .. n : h[i] \in Pairs(Providers) /\ t[i] = AskedAt[h[i]] /\ Price(m, i) = CostAt(h[i])
  BY <1>2, <1>4 DEF Price, CostAt
<1>7. \A x \in Pairs(Providers) : CostAt(x) \in Nat
  BY PairIsPriced DEF CostAt
<1>8. ASSUME NEW i \in 1 .. n, NEW j \in 1 .. n, i < j PROVE Price(m, i) <= Price(m, j)
  <2>1. CostAt(h[i]) < CostAt(h[j]) \/ CostAt(h[i]) = CostAt(h[j])
    BY <1>4, <1>8 DEF ByCost
  <2>2. CostAt(h[i]) \in Nat /\ CostAt(h[j]) \in Nat
    BY <1>6, <1>7
  <2> QED
    BY <1>6, <2>1, <2>2
<1>9. ASSUME NEW p \in Providers, NEW name \in ToSet(Listed[p]) \cap DOMAIN InputPrice
      PROVE  \E j \in 1 .. n : t[j] = Asked(p, name)
  <2>1. PICK k \in 1 .. Len(Registered) : Registered[k] = p
    BY Registry, ProvidersAssumption
  <2>2. PICK i \in PricedAt(p) : i \in Nat /\ Listed[p][i] = name
    BY PricedLists, ProvidersAssumption
  <2>3. <<k, i>> \in Pairs(Providers) /\ AskedAt[<<k, i>>] = Asked(p, name)
    BY <2>1, <2>2 DEF Pairs, AskedAt
  <2> QED
    BY <1>2, <1>4, <1>6, <2>3
<1> QED
  BY <1>5, <1>6, <1>7, <1>8, <1>9

\* Where the loop begins, nothing that could be called costs less.
LEMMA FirstIsCheapest ==
    ASSUME TypeOK, NEW m \in ByPrice, m \in Models \cup Aliases,
           NEW i \in NextPosition(Resolved(m), AfterResolve(m)),
           NEW p \in AllowedProviders, NEW n \in ToSet(Listed[p]) \cap DOMAIN InputPrice
    PROVE  Price(m, i) <= InputPrice[n]
<1>1. p \in Providers /\ Allows(breaker[p])
  BY DEF AllowedProviders
<1>2. PICK j \in Positions(m) : Candidates[m][j] = Asked(p, n)
  BY <1>1, CandidatesByPrice
<1>3. j \in AllowedPositions(m)
  BY <1>1, <1>2 DEF AllowedPositions, ProviderAt, Asked
<1>4. /\ Resolved(m).chain = ResolveChain(m) /\ Resolved(m).at = 0 /\ Resolved(m).model = m
  BY DEF Resolved
<1>5. i \in ResolveChain(m) /\ i \in Positions(m) /\ i \in Nat /\ j \in Nat \ {0}
  BY <1>4, NextPositionIsNext, PositionsOfModel DEF ResolveChain, AllowedPositions
<1>6. i <= j
  <2>1. CASE FallbackEnabled
    <3>1. j \in ResolveChain(m)
      BY <1>3, <2>1 DEF ResolveChain
    <3>2. Allows(AfterResolve(m)[ProviderAt(m, j)])
      BY <3>1, ResolvedOK
    <3> QED
      BY <1>4, <1>5, <3>1, <3>2 DEF NextPosition
  <2>2. CASE ~FallbackEnabled
    BY <1>3, <1>5, <2>2 DEF ResolveChain
  <2> QED
    BY <2>1, <2>2
<1>7. Price(m, i) <= Price(m, j)
  <2>1. Price(m, i) \in Nat /\ (i < j => Price(m, i) <= Price(m, j))
    BY <1>2, <1>5, CandidatesByPrice
  <2>2. i < j \/ i = j
    BY <1>5, <1>6
  <2> QED
    BY <2>1, <2>2
<1>8. Price(m, j) = InputPrice[n]
  BY <1>2 DEF Price, Asked
<1> QED
  BY <1>7, <1>8

\* A loop that begins a call leaves the position called with its request.
LEMMA ProceedCallsNext ==
    ASSUME Inv, NEW r \in Requests, NEW m \in Models \cup Aliases, NEW q \in RequestFor(m),
           NEW brk, Proceed(r, q, brk), NEW s \in Requests, BeginsCall(s)
    PROVE  \E i \in NextPosition(q, brk) : req'[s] = CallAt(q, i)
<1>1. req \in [Requests -> Request]
  BY DEF Inv, TypeOK
<1>2. NextPosition(q, brk) # {}
  <2> SUFFICES ASSUME NextPosition(q, brk) = {} PROVE FALSE
    OBVIOUS
  <2>1. req' = [req EXCEPT ![r] = Ended(q, "all_failed")]
    BY DEF Proceed
  <2>2. Ended(q, "all_failed").pc # "calling"
    BY DEF Ended
  <2> QED
    BY <2>1, <2>2, EndBeginsNoCall
<1>3. PICK i \in NextPosition(q, brk) : req' = [req EXCEPT ![r] = CallAt(q, i)]
  BY <1>2 DEF Proceed
<1>4. s = r
  BY <1>1, <1>3 DEF BeginsCall
<1> QED
  BY <1>1, <1>3, <1>4

\* The first call for "cheapest" or "fastest" goes to no model that costs more
\* than another whose breaker allows a call (resolve_chain, route).
THEOREM FirstCall == Spec => FirstCallIsCheapest
<1>1. Inv /\ [Next]_vars => [\A r \in Requests : FirstCallIsCheapestFor(r)]_vars
  <2> SUFFICES ASSUME Inv, Next, NEW s \in Requests, BeginsCall(s),
                      req'[s].attempts = {req'[s].at}, req'[s].model \in ByPrice,
                      NEW p \in AllowedProviders, NEW n \in ToSet(Listed[p]) \cap DOMAIN InputPrice
               PROVE  Price(req'[s].model, req'[s].at) <= InputPrice[n]
    BY DEF FirstCallIsCheapestFor
  <2>1. req \in [Requests -> Request]
    BY DEF Inv, TypeOK
  <2>2. ASSUME NEW r \in Requests, NEW m \in Models \cup Aliases, Route(r, m)
        PROVE  Price(req'[s].model, req'[s].at) <= InputPrice[n]
    <3>1. Resolved(m) \in RequestFor(m) /\ Resolved(m).model = m /\ Resolved(m).pc # "calling"
      BY ResolvedOK DEF Resolved, Inv
    <3>2. Proceed(r, Resolved(m), AfterResolve(m))
      BY <2>2, <3>1, EndBeginsNoCall DEF Route
    <3>3. PICK i \in NextPosition(Resolved(m), AfterResolve(m)) :
             req'[s] = CallAt(Resolved(m), i)
      BY <3>1, <3>2, ProceedCallsNext
    <3>4. req'[s].model = m /\ req'[s].at = i
      BY <3>1, <3>3 DEF CallAt
    <3> QED
      BY <3>3, <3>4, FirstIsCheapest DEF Inv
  <2>3. ASSUME NEW r \in Requests, ChatFailsRetryably(r) PROVE FALSE
    <3>1. PICK brk : Calling(r) /\ Proceed(r, req[r], brk)
      BY <2>3 DEF ChatFailsRetryably
    <3>2. /\ req[r].model \in Models \cup Aliases /\ req[r] \in RequestFor(req[r].model)
          /\ req[r].at \in req[r].attempts
      BY <3>1, CallingIsReady
    <3>3. PICK i \in NextPosition(req[r], brk) : req'[s] = CallAt(req[r], i)
      BY <3>1, <3>2, ProceedCallsNext
    <3>4. i > req[r].at /\ req[r].at \in Nat /\ i \in Nat
      BY <3>2, <3>3, NextPositionIsNext, PositionsOfModel DEF RequestFor
    <3>5. req'[s].at = i /\ req[r].at \in req'[s].attempts
      BY <3>2, <3>3 DEF CallAt
    <3> QED
      BY <3>4, <3>5
  <2>4. ASSUME NEW r \in Requests, ChatSucceeds(r) \/ ChatFailsForGood(r) PROVE FALSE
    <3>1. Ended(req[r], "ok").pc # "calling" /\ Ended(req[r], "all_failed").pc # "calling"
      BY DEF Ended
    <3> QED
      BY <2>4, <3>1, EndBeginsNoCall DEF ChatSucceeds, ChatFailsForGood
  <2>5. ~Tick
    BY DEF Tick, BeginsCall
  <2> QED
    BY <2>2, <2>3, <2>4, <2>5 DEF Next
<1> QED
  BY <1>1, Invariance, PTL DEF Spec, FirstCallIsCheapest
=============================================================================
