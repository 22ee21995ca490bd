---------------------------- MODULE GatewayProofs ----------------------------
(* Theorems about the pipeline, for any number of pods, concurrent requests, *)
(* tenants and models, every allowlist, every deployment, every choice of    *)
(* bodies, and however many completions are paid for.                        *)
EXTENDS Gateway, SequenceTheorems, TLAPS

-----------------------------------------------------------------------------
(* The data                                                                 *)

\* A row more in the table is one copy more of that row, and of no other.
LEMMA InsertAddsOne ==
    ASSUME IsABag(rows), NEW x, rows' = rows (+) SetToBag({x})
    PROVE  /\ IsABag(rows')
           /\ DOMAIN rows' = DOMAIN rows \cup {x}
           /\ rows'[x] = IF x \in DOMAIN rows THEN rows[x] + 1 ELSE 1
           /\ \A y \in DOMAIN rows : y # x => rows'[y] = rows[y]
BY DEF IsABag, (+), SetToBag

\* The usage table is empty at first: a bag without rows.
LEMMA EmptyTable ==
    IsABag(EmptyBag) /\ DOMAIN EmptyBag = {}
BY DEF IsABag, EmptyBag, SetToBag

\* The completions are numbered from 1 on.
LEMMA CompletionsAreNumbered ==
    ASSUME TypeOK
    PROVE  /\ Len(completions) \in Nat
           /\ DOMAIN completions = CompletionIds
           /\ CompletionIds \subseteq Nat \ {0}
           /\ \A i \in CompletionIds : completions[i] \in Completion
<1>1. completions \in Seq(Completion)
  BY DEF TypeOK
<1>2. Len(completions) \in Nat /\ DOMAIN completions = 1 .. Len(completions)
  BY <1>1, LenProperties
<1>3. \A i \in CompletionIds : completions[i] \in Completion
  BY <1>1, ElementOfSeq DEF CompletionIds
<1> QED
  BY <1>2, <1>3 DEF CompletionIds

\* What the locals of a request are, at each place it can wait or end.
LEMMA Locals ==
    ASSUME TypeOK, NEW r \in Requests
    PROVE  /\ req[r] \in Progress
           /\ At(r, "limits") \/ At(r, "budget") =>
                 req[r].tenant \in Tenants /\ req[r].body \in Body \cup {Listing}
           /\ At(r, "calling") \/ Recording(r) \/ Answered(r) =>
                 req[r].tenant \in Tenants /\ req[r].body \in Body
           /\ Recording(r) \/ Answered(r) => req[r].of \in CompletionIds
           /\ At(r, "inserting") => req[r].row \in Row
           /\ Recording(r) <=> At(r, "charging") \/ At(r, "inserting") \/ At(r, "recorded")
<1>1. req[r] \in Progress
  BY DEF TypeOK
<1> QED
  BY <1>1 DEF Progress, At, Recording, Answered, Idle, Refused

\* Completions are not forgotten: what refers to one still does.
LEMMA TypesGrow ==
    ASSUME CompletionIds \subseteq CompletionIds'
    PROVE  Row \subseteq Row' /\ Entry \subseteq Entry' /\ Progress \subseteq Progress'
<1>1. Row \subseteq Row'
  BY DEF Row
<1>2. Entry \subseteq Entry'
  BY DEF Entry
<1>3. Progress \subseteq Progress'
  BY <1>1 DEF Progress
<1> QED
  BY <1>1, <1>2, <1>3

-----------------------------------------------------------------------------
(* Steps that only change what one request does                             *)

AnswerIsTrue(r) ==
    Answered(r) =>
        /\ completions[req[r].of].name \in Upstream[req[r].body.model]
        /\ Allowed(r)
        /\ SameQuestion(completions[req[r].of].prompt, req[r].body.prompt)

\* Nobody changes what a completion says of who asked what.
SameAnswers ==
    \A i \in CompletionIds :
        /\ i \in CompletionIds'
        /\ completions'[i].tenant = completions[i].tenant
        /\ completions'[i].requested = completions[i].requested
        /\ completions'[i].prompt = completions[i].prompt
        /\ completions'[i].name = completions[i].name
        /\ completions'[i].label = completions[i].label

\* So the rows, the cache and the completions there were remain as true.
LEMMA FactsStayTrue ==
    ASSUME Inv, SameAnswers, settings' = settings, schema => schema'
    PROVE  /\ CompletionIds \subseteq CompletionIds'
           /\ \A i \in CompletionIds : CompletionIsTrue(i)' /\ TrueRow(i)' = TrueRow(i)
           /\ \A e \in Entry : EntryIsTrue(e) => EntryIsTrue(e)'
           /\ \A row \in DOMAIN rows : row \in Row /\ row = TrueRow(row.of)'
<1>1. CompletionIds \subseteq CompletionIds'
  BY DEF SameAnswers
<1>2. ASSUME NEW i \in CompletionIds PROVE CompletionIsTrue(i)' /\ TrueRow(i)' = TrueRow(i)
  <2>1. CompletionIsTrue(i)
    BY DEF Inv
  <2> QED
    BY <2>1 DEF SameAnswers, CompletionIsTrue, TrueRow, Redacting, Sensitive
<1>3. ASSUME NEW e \in Entry, EntryIsTrue(e) PROVE EntryIsTrue(e)'
  BY <1>3 DEF SameAnswers, EntryIsTrue, Entry
<1>4. ASSUME NEW row \in DOMAIN rows PROVE row \in Row /\ row = TrueRow(row.of)'
  <2>1. row \in Row /\ row = TrueRow(row.of)
    BY DEF Inv, TypeOK, RowsAreTrue
  <2>2. row.of \in CompletionIds
    BY <2>1 DEF Row
  <2> QED
    BY <1>2, <2>1, <2>2
<1> QED
  BY <1>1, <1>2, <1>3, <1>4

\* A request that does not move is not affected by what others do, as long as
\* they leave the completion alone that it is recording.
LEMMA OthersStayTrue ==
    ASSUME Inv, SameAnswers, settings' = settings, schema => schema',
           NEW s \in Requests, req'[s] = req[s],
           Recording(s) =>
              /\ completions'[req[s].of] = completions[req[s].of]
              /\ Copies(req[s].of)' = Copies(req[s].of)
              /\ \A t \in Requests \ {s} : Recording(t)' => req'[t].of # req[s].of
    PROVE  RequestIsTrue(s)' /\ AnswerIsTrue(s)'
<1>1. RequestIsTrue(s) /\ AnswerIsTrue(s)
  BY DEF Inv, AnswerIsTrue, AnswersAreOfTheModel, AnswersAreToTheQuestion
<1>2. Recording(s) \/ Answered(s) => req[s].of \in CompletionIds
  BY Locals DEF Inv
<1>3. ASSUME Recording(s) PROVE RecordsItsOwn(s)'
  <2>1. RecordsItsOwn(s) /\ req[s].of \in CompletionIds
    BY <1>1, <1>2, <1>3 DEF RequestIsTrue
  <2>2. TrueRow(req[s].of)' = TrueRow(req[s].of)
    BY <2>1 DEF TrueRow, SameAnswers
  <2> QED
    BY <1>3, <2>1, <2>2 DEF RecordsItsOwn, At
<1>4. RequestIsTrue(s)'
  BY <1>1, <1>3
  DEF RequestIsTrue, At, Answered, Recording, Allowed, Redacting, Sensitive
<1>5. AnswerIsTrue(s)'
  BY <1>1, <1>2 DEF SameAnswers, AnswerIsTrue, Answered, At, Allowed, SameQuestion
<1> QED
  BY <1>4, <1>5

\* A step that pays for nothing and enters nothing keeps the invariant, if the
\* request it moves is right about itself.
LEMMA QuietStep ==
    ASSUME Inv, NEW r \in Requests, NEW q \in Progress, req' = [req EXCEPT ![r] = q],
           UNCHANGED <<settings, schema, cache, rows, completions>>,
           RequestIsTrue(r)', AnswerIsTrue(r)',
           Recording(r)' => Recording(r) /\ q.of = req[r].of
    PROVE  Inv'
<1>1. CompletionIds' = CompletionIds /\ SameAnswers
  BY DEF CompletionIds, SameAnswers
<1>2. TypeOK'
  <2>1. req' \in [Requests -> Progress]
    BY DEF Inv, TypeOK
  <2>2. Progress' = Progress /\ Row' = Row /\ Entry' = Entry
    BY <1>1 DEF Progress, Row, Entry
  <2> QED
    BY <2>1, <2>2 DEF Inv, TypeOK
<1>3. \A s \in Requests : RequestIsTrue(s)' /\ AnswerIsTrue(s)'
  <2> SUFFICES ASSUME NEW s \in Requests \ {r}
               PROVE  RequestIsTrue(s)' /\ AnswerIsTrue(s)'
    OBVIOUS
  <2>1. \A t \in Requests : req'[t] = IF t = r THEN q ELSE req[t]
    BY DEF Inv, TypeOK
  <2>2. \A t \in Requests \ {r} : Recording(t)' <=> Recording(t)
    BY <2>1 DEF Recording
  <2>3. ASSUME Recording(s), NEW t \in Requests \ {s}, Recording(t)'
        PROVE  req'[t].of # req[s].of
    <3>1. \A u \in Requests \ {s} : Recording(u) => req[u].of # req[s].of
      BY <2>3 DEF Inv, RequestIsTrue, RecordsItsOwn
    <3> QED
      BY <2>1, <2>2, <2>3, <3>1
  <2>4. \A i : Copies(i)' = Copies(i)
    BY DEF Copies, TrueRow
  <2> QED
    BY <1>1, <2>1, <2>3, <2>4, OthersStayTrue
<1>4. (\A i \in CompletionIds : CompletionIsTrue(i))'
  BY <1>1, FactsStayTrue
<1>5. (\A p \in Pods : \A e \in cache[p] : EntryIsTrue(e))'
  BY DEF Inv, EntryIsTrue
<1>6. RowsAreTrue'
  BY DEF Inv, RowsAreTrue, TrueRow
<1>7. AnswersAreOfTheModel' /\ AnswersAreToTheQuestion'
  BY <1>3 DEF AnswerIsTrue, AnswersAreOfTheModel, AnswersAreToTheQuestion
<1> QED
  BY <1>2, <1>3, <1>4, <1>5, <1>6, <1>7 DEF Inv

\* A request that comes, waits for the limiter or the budget, or is over
\* without an answer, leaves no other trace.
LEMMA LeavingKeepsInv ==
    ASSUME Inv, NEW r \in Requests, NEW q \in Progress, req' = [req EXCEPT ![r] = q],
           q.pc \in {"idle", "refused", "failed", "limits", "budget"},
           UNCHANGED <<settings, schema, cache, rows, completions>>
    PROVE  Inv'
<1>1. req'[r] = q
  BY DEF Inv, TypeOK
<1>2. RequestIsTrue(r)' /\ AnswerIsTrue(r)' /\ ~Recording(r)'
  BY <1>1 DEF RequestIsTrue, AnswerIsTrue, At, Recording, Answered
<1> QED
  BY <1>2, QuietStep

\* What the guardrails return is a body for the same model, and redacted.
LEMMA GuardedBody ==
    ASSUME NEW b \in Body
    PROVE  LET q == [b EXCEPT !.prompt = Guarded(@)]
           IN  /\ q \in Body
               /\ q.model = b.model
               /\ Redacting => ~Sensitive(q.prompt)
<1>1. Guarded(b.prompt) \in Prompt
  BY DEF Guarded, Redacted, Prompt, Body
<1>2. Redacting => ~Sensitive(Guarded(b.prompt))
  BY ItemsAssumption DEF Guarded, Redacted, Prompt, Body, Sensitive
<1> QED
  BY <1>1, <1>2 DEF Body

\* The handler, up to the provider: a hit answers with what an entry says, and
\* a call is made with what was checked and redacted.
LEMMA HandlesKeepsInv ==
    ASSUME Inv, NEW r \in Requests, NEW t \in Tenants, NEW b \in Body \cup {Listing},
           Handles(r, t, b), t \in Budgeted => schema,
           UNCHANGED <<settings, schema, cache, rows>>
    PROVE  Inv'
<1> DEFINE q == [b EXCEPT !.prompt = Guarded(@)]
<1>1. Idle \in Progress /\ Refused \in Progress
      /\ Idle.pc = "idle" /\ Refused.pc = "refused"
  BY DEF Progress, Idle, Refused
<1>2. ASSUME UNCHANGED completions, req' = [req EXCEPT ![r] = Idle] PROVE Inv'
  BY <1>1, <1>2, LeavingKeepsInv
<1>3. ASSUME UNCHANGED completions, req' = [req EXCEPT ![r] = Refused] PROVE Inv'
  BY <1>1, <1>3, LeavingKeepsInv
<1>4. ASSUME b # Listing, ModelAllowed(t, b.model), NEW e \in Found(PodOf[r], q),
             Hits(r, t, q, e)
      PROVE  Inv'
  <2>1. q \in Body /\ q.model = b.model
    BY <1>4, GuardedBody
  <2> HIDE DEF q
  <2> DEFINE a == [pc |-> "answered", tenant |-> t, body |-> q, of |-> e.of, label |-> "hit"]
  <2>2. req' = [req EXCEPT ![r] = a] /\ UNCHANGED completions
    BY <1>4 DEF Hits
  <2>3. e \in cache[PodOf[r]] /\ Serves(e, q.model, q.prompt)
    BY <1>4 DEF Found
  <2>4. e \in Entry /\ EntryIsTrue(e)
    BY <2>3, PodsAssumption DEF Inv, TypeOK
  <2>5. e.of \in CompletionIds /\ CompletionIsTrue(e.of)
    BY <2>4 DEF Entry, Inv
  <2>6. a \in Progress
    BY <2>1, <2>5 DEF Progress
  <2>7. req'[r] = a
    BY <2>2 DEF Inv, TypeOK
  <2>8. RequestIsTrue(r)' /\ ~Recording(r)'
    BY <1>4, <2>1, <2>7 DEF RequestIsTrue, At, Recording, Answered, Allowed, ModelAllowed
  <2>9. AnswerIsTrue(r)'
    <3>1. completions[e.of].name \in Upstream[q.model]
      BY <2>3, <2>4, <2>5 DEF CompletionIsTrue, EntryIsTrue, Serves
    <3>2. SameQuestion(completions[e.of].prompt, q.prompt)
      BY <2>3, <2>4 DEF EntryIsTrue, Serves, SameQuestion
    <3> QED
      BY <1>4, <2>1, <2>2, <2>7, <3>1, <3>2
      DEF AnswerIsTrue, Allowed, ModelAllowed, SameQuestion
  <2> QED
    BY <2>2, <2>6, <2>8, <2>9, QuietStep
<1>5. ASSUME b # Listing, ModelAllowed(t, b.model), UNCHANGED completions,
             req' = [req EXCEPT ![r] = [pc |-> "calling", tenant |-> t, body |-> q]]
      PROVE  Inv'
  <2>1. q \in Body /\ q.model = b.model /\ (Redacting => ~Sensitive(q.prompt))
    BY <1>5, GuardedBody
  <2> HIDE DEF q
  <2> DEFINE c == [pc |-> "calling", tenant |-> t, body |-> q]
  <2>2. c \in Progress
    BY <2>1 DEF Progress
  <2>3. req'[r] = c
    BY <1>5 DEF Inv, TypeOK
  <2>4. RequestIsTrue(r)' /\ AnswerIsTrue(r)' /\ ~Recording(r)'
    BY <1>5, <2>1, <2>3
    DEF RequestIsTrue, AnswerIsTrue, At, Recording, Answered, Allowed, ModelAllowed,
        Redacting, Sensitive
  <2> QED
    BY <1>5, <2>2, <2>4, QuietStep
<1> QED
  BY <1>2, <1>3, <1>4, <1>5 DEF Handles

-----------------------------------------------------------------------------
(* Steps that change what is kept of completions                            *)

\* A completion that was just paid for: nothing is entered of it yet.
LEMMA ProviderAnswersKeepsInv ==
    ASSUME Inv, NEW r \in Requests, NEW name, ProviderAnswers(r, name)
    PROVE  Inv'
<1> SUFFICES ASSUME NEW i, i = Len(completions) + 1,
                    NEW q, q = req[r].body,
                    NEW c, c = Response(q, req[r].tenant, name),
                    NEW a, a = [pc |-> "charging", tenant |-> req[r].tenant, body |-> q,
                                of |-> i]
             PROVE  Inv'
  OBVIOUS
<1>1. /\ At(r, "calling") /\ name \in Upstream[q.model]
      /\ completions' = Append(completions, c)
      /\ cache' = [cache EXCEPT ![PodOf[r]] = Kept(PodOf[r], q, name, i)]
      /\ req' = [req EXCEPT ![r] = a]
      /\ UNCHANGED <<settings, schema, rows>>
  BY DEF ProviderAnswers
<1>2. q \in Body /\ req[r].tenant \in Tenants /\ RequestIsTrue(r)
  BY <1>1, Locals DEF Inv
<1>3. Len(completions) \in Nat /\ completions \in Seq(Completion)
  BY CompletionsAreNumbered DEF Inv, TypeOK
<1>4. c \in Completion
  <2>1. name \in Names
    BY <1>1, <1>2, ModelsAssumption DEF Body
  <2> QED
    BY <1>2, <2>1 DEF Response, Completion, Body
<1>5. /\ completions' \in Seq(Completion) /\ Len(completions') = i
      /\ CompletionIds' = CompletionIds \cup {i} /\ i \notin CompletionIds
      /\ completions'[i] = c
      /\ \A j \in CompletionIds : completions'[j] = completions[j]
  BY <1>1, <1>3, <1>4 DEF CompletionIds
<1>6. SameAnswers
  BY <1>5 DEF SameAnswers
<1>7. /\ c.name = name /\ c.requested = q.model /\ c.prompt = q.prompt
      /\ c.tenant = req[r].tenant /\ c.label = "miss"
      /\ c.spends = 0 /\ c.counts = 0
  BY DEF Response
<1>8. (\A j \in CompletionIds : CompletionIsTrue(j))'
  <2>1. CompletionIsTrue(i)'
    BY <1>1, <1>2, <1>5, <1>7
    DEF CompletionIsTrue, RequestIsTrue, Redacting, Sensitive
  <2> QED
    BY <1>1, <1>5, <1>6, <2>1, FactsStayTrue
<1>9. /\ cache' \in [Pods -> SUBSET Entry']
      /\ (\A p \in Pods : \A e \in cache[p] : EntryIsTrue(e))'
  <2> SUFFICES ASSUME NEW n, n = [model |-> q.model, prompt |-> q.prompt, of |-> i]
               PROVE  /\ cache' \in [Pods -> SUBSET Entry']
                      /\ (\A p \in Pods : \A e \in cache[p] : EntryIsTrue(e))'
    OBVIOUS
  <2>1. n \in Entry' /\ EntryIsTrue(n)'
    BY <1>2, <1>5, <1>7 DEF Entry, EntryIsTrue, Body
  <2>2. Kept(PodOf[r], q, name, i) \subseteq cache[PodOf[r]] \cup {n}
    BY DEF Kept
  <2>3. \A p \in Pods : \A e \in cache[p] : e \in Entry /\ EntryIsTrue(e)
    BY DEF Inv, TypeOK
  <2>4. \A e \in Entry : e \in Entry' /\ (EntryIsTrue(e) => EntryIsTrue(e)')
    BY <1>1, <1>5, <1>6, FactsStayTrue, TypesGrow
  <2>5. cache \in [Pods -> SUBSET Entry]
    BY DEF Inv, TypeOK
  <2>6. \A p \in Pods : cache'[p] = IF p = PodOf[r] THEN Kept(PodOf[r], q, name, i) ELSE cache[p]
    BY <1>1, <2>5
  <2>7. \A p \in Pods : \A e \in cache'[p] : e \in Entry' /\ EntryIsTrue(e)'
    BY <2>1, <2>2, <2>3, <2>4, <2>6, PodsAssumption
  <2>8. cache' \in [Pods -> SUBSET Entry']
    BY <1>1, <2>5, <2>7
  <2> QED
    BY <2>7, <2>8
<1>10. RowsAreTrue' /\ DOMAIN rows \subseteq Row'
  BY <1>1, <1>5, <1>6, FactsStayTrue, TypesGrow DEF RowsAreTrue
<1>11. \A t \in Requests : req'[t] = IF t = r THEN a ELSE req[t]
  BY <1>1 DEF Inv, TypeOK
<1>12. req' \in [Requests -> Progress']
  <2>1. a \in Progress'
    BY <1>2, <1>5 DEF Progress
  <2>2. req \in [Requests -> Progress'] /\ req' = [req EXCEPT ![r] = a]
    BY <1>1, <1>5, TypesGrow DEF Inv, TypeOK
  <2> QED
    BY <2>1, <2>2
<1>13. TypeOK'
  BY <1>1, <1>5, <1>9, <1>10, <1>12 DEF Inv, TypeOK
<1>14. \A t \in Requests \ {r} : (Recording(t)' <=> Recording(t)) /\ req'[t] = req[t]
  BY <1>11 DEF Recording
<1>15. \A t \in Requests : Recording(t) => req[t].of \in CompletionIds
  BY Locals DEF Inv
<1>16. RequestIsTrue(r)' /\ AnswerIsTrue(r)'
  <2>1. Copies(i)' = 0
    <3>1. TrueRow(i)' \notin DOMAIN rows
      BY <1>5 DEF Inv, TypeOK, Row, TrueRow
    <3> QED
      BY <1>1, <3>1 DEF Copies, BagIn, BagToSet
  <2>2. RecordsItsOwn(r)'
    BY <1>5, <1>7, <1>11, <1>14, <1>15, <2>1 DEF RecordsItsOwn, At
  <2>3. Allowed(r)' /\ ~At(r, "calling")' /\ ~Answered(r)'
    BY <1>1, <1>2, <1>11 DEF RequestIsTrue, At, Answered, Allowed
  <2> QED
    BY <2>2, <2>3 DEF RequestIsTrue, AnswerIsTrue
<1>17. ASSUME NEW s \in Requests \ {r} PROVE RequestIsTrue(s)' /\ AnswerIsTrue(s)'
  <2>1. ASSUME Recording(s)
        PROVE  /\ completions'[req[s].of] = completions[req[s].of]
               /\ Copies(req[s].of)' = Copies(req[s].of)
               /\ \A t \in Requests \ {s} : Recording(t)' => req'[t].of # req[s].of
    <3>1. req[s].of \in CompletionIds
      BY <1>15, <2>1
    <3>2. TrueRow(req[s].of)' = TrueRow(req[s].of)
      BY <1>5, <1>14, <3>1 DEF TrueRow
    <3>3. \A t \in Requests \ {s} : Recording(t) => req[t].of # req[s].of
      BY <2>1 DEF Inv, RequestIsTrue, RecordsItsOwn
    <3>4. req'[r].of = i
      BY <1>11
    <3>5. Copies(req[s].of)' = Copies(req[s].of)
      BY <1>1, <3>2 DEF Copies
    <3> QED
      BY <1>5, <1>14, <1>15, <3>1, <3>3, <3>4, <3>5
  <2> QED
    BY <1>1, <1>6, <1>14, <2>1, OthersStayTrue
<1> QED
  BY <1>8, <1>9, <1>10, <1>13, <1>16, <1>17
  DEF Inv, AnswerIsTrue, AnswersAreOfTheModel, AnswersAreToTheQuestion

\* A step of a request in _record_completion: it touches its own completion
\* and, perhaps, adds its own row.
LEMMA RecordingStep ==
    ASSUME Inv, NEW r \in Requests, Recording(r),
           NEW q \in Progress, req' = [req EXCEPT ![r] = q],
           NEW c \in Completion, completions' = [completions EXCEPT ![req[r].of] = c],
           c.tenant = completions[req[r].of].tenant,
           c.requested = completions[req[r].of].requested,
           c.prompt = completions[req[r].of].prompt,
           c.name = completions[req[r].of].name,
           c.label = completions[req[r].of].label,
           UNCHANGED <<settings, schema, cache>>,
           rows' = rows \/ rows' = rows (+) SetToBag({TrueRow(req[r].of)}),
           Recording(r)' => q.of = req[r].of,
           SameAnswers => RequestIsTrue(r)' /\ AnswerIsTrue(r)'
    PROVE  Inv' /\ SameAnswers
<1> SUFFICES ASSUME NEW i, i = req[r].of PROVE Inv' /\ SameAnswers
  OBVIOUS
<1>1. i \in CompletionIds
  BY Locals DEF Inv
<1>2. Len(completions) \in Nat /\ completions \in Seq(Completion)
  BY CompletionsAreNumbered DEF Inv, TypeOK
<1>3. /\ completions' \in Seq(Completion) /\ CompletionIds' = CompletionIds
      /\ \A j \in CompletionIds : completions'[j] = IF j = i THEN c ELSE completions[j]
  BY <1>1, <1>2, ExceptSeq DEF CompletionIds
<1>4. SameAnswers
  BY <1>3 DEF SameAnswers
<1>5. RequestIsTrue(r)' /\ AnswerIsTrue(r)'
  BY <1>4
<1>6. /\ (\A j \in CompletionIds : CompletionIsTrue(j))'
      /\ \A j \in CompletionIds : TrueRow(j)' = TrueRow(j)
      /\ (\A p \in Pods : \A e \in cache[p] : EntryIsTrue(e))'
  BY <1>3, <1>4, FactsStayTrue DEF Inv, TypeOK
<1>7. \A t \in Requests : req'[t] = IF t = r THEN q ELSE req[t]
  BY DEF Inv, TypeOK
<1>8. Progress' = Progress /\ Row' = Row /\ Entry' = Entry
  BY <1>3 DEF Progress, Row, Entry
<1>9. IsABag(rows)' /\ DOMAIN rows' \subseteq DOMAIN rows \cup {TrueRow(i)}
  <2>1. IsABag(rows)
    BY DEF Inv, TypeOK
  <2>2. CASE rows' = rows
    BY <2>1, <2>2 DEF IsABag
  <2>3. CASE rows' = rows (+) SetToBag({TrueRow(i)})
    BY <2>1, <2>3, InsertAddsOne
  <2> QED
    BY <2>2, <2>3
<1>10. TrueRow(i) \in Row
  <2>1. completions[i] \in Completion /\ completions[i].label = "miss"
    BY <1>1, CompletionsAreNumbered DEF Inv, CompletionIsTrue
  <2> QED
    BY <1>1, <2>1 DEF TrueRow, Row, Completion
<1>11. TypeOK'
  <2>1. DOMAIN rows' \subseteq Row'
    BY <1>8, <1>9, <1>10 DEF Inv, TypeOK
  <2>2. req' \in [Requests -> Progress']
    BY <1>8 DEF Inv, TypeOK
  <2> QED
    BY <1>3, <1>8, <1>9, <2>1, <2>2 DEF Inv, TypeOK
<1>12. RowsAreTrue'
  <2>1. \A row \in DOMAIN rows : row = TrueRow(row.of)'
    BY <1>4, FactsStayTrue
  <2>2. TrueRow(i) = TrueRow(i)' /\ TrueRow(i).of = i
    BY <1>1, <1>6 DEF TrueRow
  <2>3. \A row \in DOMAIN rows' : row = TrueRow(row.of)'
    BY <1>9, <2>1, <2>2
  <2> QED
    BY <2>3 DEF RowsAreTrue
<1>13. ASSUME NEW s \in Requests \ {r} PROVE RequestIsTrue(s)' /\ AnswerIsTrue(s)'
  <2>1. ASSUME Recording(s)
        PROVE  /\ completions'[req[s].of] = completions[req[s].of]
               /\ Copies(req[s].of)' = Copies(req[s].of)
               /\ \A t \in Requests \ {s} : Recording(t)' => req'[t].of # req[s].of
    <3>1. req[s].of \in CompletionIds /\ RecordsItsOwn(s)
      BY <2>1, Locals DEF Inv, RequestIsTrue
    <3>2. req[s].of # i
      BY <3>1 DEF RecordsItsOwn
    <3>3. Copies(req[s].of)' = Copies(req[s].of)
      <4>1. TrueRow(req[s].of)' = TrueRow(req[s].of) /\ TrueRow(req[s].of) # TrueRow(i)
        BY <1>6, <3>1, <3>2 DEF TrueRow
      <4>2. CASE rows' = rows
        BY <4>1, <4>2 DEF Copies
      <4>3. CASE rows' = rows (+) SetToBag({TrueRow(i)})
        <5>1. /\ DOMAIN rows' = DOMAIN rows \cup {TrueRow(i)}
              /\ \A y \in DOMAIN rows : y # TrueRow(i) => rows'[y] = rows[y]
          BY <4>3, InsertAddsOne DEF Inv, TypeOK
        <5> QED
          BY <4>1, <5>1 DEF Copies, BagIn, BagToSet
      <4> QED
        BY <4>2, <4>3
    <3>4. \A t \in Requests \ {s} : Recording(t)' => req'[t].of # req[s].of
      BY <1>7, <3>1, <3>2 DEF RecordsItsOwn, Recording
    <3> QED
      BY <1>3, <3>1, <3>2, <3>3, <3>4
  <2> QED
    BY <1>4, <1>7, <2>1, OthersStayTrue
<1> QED
  BY <1>3, <1>4, <1>5, <1>6, <1>11, <1>12, <1>13
  DEF Inv, AnswerIsTrue, AnswersAreOfTheModel, AnswersAreToTheQuestion

\* Once its tokens are counted, a request goes on with the row of its own
\* completion.
LEMMA TokensRecordedKeepsInv ==
    ASSUME Inv, NEW r \in Requests, TokensRecorded(r)
    PROVE  Inv'
<1> SUFFICES ASSUME NEW i, i = req[r].of,
                    NEW q, q = [pc |-> "inserting", tenant |-> req[r].tenant,
                                body |-> req[r].body, of |-> i, row |-> RowOf(i)]
             PROVE  Inv'
  OBVIOUS
<1>1. /\ At(r, "charging") /\ Recording(r) /\ req' = [req EXCEPT ![r] = q]
      /\ UNCHANGED <<settings, schema, cache, rows, completions>>
  BY DEF TokensRecorded, At, Recording
<1>2. /\ RequestIsTrue(r) /\ RecordsItsOwn(r) /\ i \in CompletionIds
      /\ req[r].tenant \in Tenants /\ req[r].body \in Body
  BY <1>1, Locals DEF Inv, RequestIsTrue
<1>3. RowOf(i) = TrueRow(i) /\ RowOf(i) \in Row
  <2>1. completions[i] \in Completion /\ completions[i].label = "miss"
    BY <1>2, CompletionsAreNumbered DEF Inv, CompletionIsTrue
  <2> QED
    BY <1>2, <2>1 DEF RowOf, TrueRow, Row, Completion
<1>4. q \in Progress
  BY <1>2, <1>3 DEF Progress
<1>5. \A t \in Requests : req'[t] = IF t = r THEN q ELSE req[t]
  BY <1>1 DEF Inv, TypeOK
<1>6. RecordsItsOwn(r)'
  <2>1. TrueRow(i)' = TrueRow(i) /\ Copies(i)' = Copies(i)
    BY <1>1 DEF TrueRow, Copies
  <2>2. Copies(i) = 0
    BY <1>1, <1>2 DEF RecordsItsOwn, At
  <2> QED
    BY <1>1, <1>2, <1>3, <1>5, <2>1, <2>2 DEF RecordsItsOwn, At, Recording
<1>7. RequestIsTrue(r)' /\ AnswerIsTrue(r)'
  BY <1>1, <1>2, <1>5, <1>6
  DEF RequestIsTrue, AnswerIsTrue, At, Answered, Recording, Allowed
<1> QED
  BY <1>1, <1>4, <1>5, <1>7, QuietStep

\* Redis fails: the request is over.
LEMMA ChargeFailsKeepsInv ==
    ASSUME Inv, NEW r \in Requests, ChargeFails(r)
    PROVE  Inv' /\ SameAnswers
<1> SUFFICES ASSUME NEW i, i = req[r].of,
                    NEW c, c = [completions[i] EXCEPT !.excused = Books]
             PROVE  Inv' /\ SameAnswers
  OBVIOUS
<1>1. /\ Recording(r) /\ req' = [req EXCEPT ![r] = Failed(TRUE)]
      /\ completions' = [completions EXCEPT ![i] = c]
      /\ UNCHANGED <<settings, schema, cache, rows>>
  BY DEF ChargeFails, At, Recording
<1>2. completions[i] \in Completion
  BY <1>1, Locals, CompletionsAreNumbered DEF Inv
<1>3. /\ c \in Completion /\ c.tenant = completions[i].tenant
      /\ c.requested = completions[i].requested /\ c.prompt = completions[i].prompt
      /\ c.name = completions[i].name /\ c.label = completions[i].label
  BY <1>2 DEF Completion
<1>4. Failed(TRUE) \in Progress
  BY DEF Failed, Progress
<1>5. req'[r] = Failed(TRUE)
  BY <1>1 DEF Inv, TypeOK
<1>6. RequestIsTrue(r)' /\ AnswerIsTrue(r)' /\ ~Recording(r)'
  BY <1>5 DEF RequestIsTrue, AnswerIsTrue, At, Answered, Recording, Failed
<1> HIDE DEF Failed
<1> QED
  BY <1>1, <1>3, <1>4, <1>6, RecordingStep

\* The insert commits or fails: the request goes on to its answer.
LEMMA InsertKeepsInv ==
    ASSUME Inv, NEW r \in Requests, InsertCommits(r) \/ InsertFails(r)
    PROVE  Inv' /\ SameAnswers
<1> SUFFICES ASSUME NEW i, i = req[r].of,
                    NEW q, q = [pc |-> "recorded", tenant |-> req[r].tenant,
                                body |-> req[r].body, of |-> i]
             PROVE  Inv' /\ SameAnswers
  OBVIOUS
<1>1. /\ At(r, "inserting") /\ Recording(r) /\ req' = [req EXCEPT ![r] = q]
      /\ UNCHANGED <<settings, schema, cache>>
  BY DEF InsertCommits, InsertFails, Inserted, At, Recording
<1>2. /\ RequestIsTrue(r) /\ RecordsItsOwn(r) /\ i \in CompletionIds
      /\ req[r].tenant \in Tenants /\ req[r].body \in Body
  BY <1>1, Locals DEF Inv, RequestIsTrue
<1>3. /\ req[r].row = TrueRow(i) /\ Copies(i) = 0
      /\ completions[i] \in Completion
      /\ completions[i].spends = 0 /\ completions[i].counts = 0
  BY <1>1, <1>2, CompletionsAreNumbered DEF RecordsItsOwn, At, Inv
<1>4. q \in Progress /\ q.of = i /\ q.pc = "recorded"
      /\ q.tenant = req[r].tenant /\ q.body = req[r].body
  BY <1>2 DEF Progress
<1>5. \A t \in Requests : req'[t] = IF t = r THEN q ELSE req[t]
  BY <1>1 DEF Inv, TypeOK
<1>6. ASSUME NEW c \in Completion, completions' = [completions EXCEPT ![i] = c],
             c.tenant = completions[i].tenant, c.requested = completions[i].requested,
             c.prompt = completions[i].prompt, c.name = completions[i].name,
             c.label = completions[i].label, c.spends = 0, c.counts = 0,
             \/ rows' = rows /\ "row" \in c.excused
             \/ rows' = rows (+) SetToBag({TrueRow(i)})
      PROVE  Inv' /\ SameAnswers
  <2>1. ASSUME SameAnswers PROVE RequestIsTrue(r)' /\ AnswerIsTrue(r)'
    <3>1. completions'[i] = c
      BY <1>2, <1>6, CompletionsAreNumbered DEF Inv
    <3>2. TrueRow(i)' = TrueRow(i)
      BY <1>2, <2>1 DEF SameAnswers, TrueRow
    <3>3. TrueRow(i) \notin DOMAIN rows
      BY <1>3 DEF Copies, BagIn, BagToSet, Inv, TypeOK, IsABag
    <3>4. Copies(i)' = 1 \/ (Copies(i)' = 0 /\ "row" \in c.excused)
      <4>1. CASE rows' = rows /\ "row" \in c.excused
        BY <1>3, <3>2, <4>1 DEF Copies
      <4>2. CASE rows' = rows (+) SetToBag({TrueRow(i)})
        <5>1. TrueRow(i) \in DOMAIN rows' /\ rows'[TrueRow(i)] = 1
          BY <3>3, <4>2, InsertAddsOne DEF Inv, TypeOK
        <5> QED
          BY <3>2, <5>1 DEF Copies, BagIn, BagToSet
      <4> QED
        BY <1>6, <4>1, <4>2
    <3>5. RecordsItsOwn(r)'
      BY <1>1, <1>2, <1>4, <1>5, <1>6, <3>1, <3>4 DEF RecordsItsOwn, At, Recording
    <3>6. Recording(r)' /\ ~At(r, "calling")' /\ ~Answered(r)' /\ Allowed(r)'
      BY <1>1, <1>2, <1>4, <1>5 DEF RequestIsTrue, At, Answered, Recording, Allowed
    <3> QED
      BY <3>5, <3>6 DEF RequestIsTrue, AnswerIsTrue
  <2>2. rows' = rows \/ rows' = rows (+) SetToBag({TrueRow(i)})
    BY <1>6
  <2>3. Recording(r)' => q.of = i
    BY <1>4
  <2> QED
    BY <1>1, <1>4, <1>6, <2>1, <2>2, <2>3, RecordingStep
<1>7. CASE InsertCommits(r)
  <2>1. completions' = completions /\ rows' = rows (+) SetToBag({TrueRow(i)})
    BY <1>3, <1>7 DEF InsertCommits
  <2>2. completions' = [completions EXCEPT ![i] = completions[i]]
    BY <1>2, <2>1, CompletionsAreNumbered DEF Inv, TypeOK
  <2> QED
    BY <1>3, <1>6, <2>1, <2>2
<1>8. CASE InsertFails(r)
  <2> SUFFICES ASSUME NEW c, c = [completions[i] EXCEPT !.excused = @ \cup {"row"}]
               PROVE  Inv' /\ SameAnswers
    OBVIOUS
  <2>1. completions' = [completions EXCEPT ![i] = c] /\ rows' = rows
    BY <1>8 DEF InsertFails
  <2>2. c \in Completion /\ "row" \in c.excused
        /\ c.tenant = completions[i].tenant /\ c.requested = completions[i].requested
        /\ c.prompt = completions[i].prompt /\ c.name = completions[i].name
        /\ c.label = completions[i].label /\ c.spends = 0 /\ c.counts = 0
    BY <1>3 DEF Completion, Books
  <2> QED
    BY <1>6, <2>1, <2>2
<1> QED
  BY <1>7, <1>8

\* Charging and counting a completion leave what it says of itself.
LEMMA Bookkeeping ==
    ASSUME NEW c \in Completion
    PROVE  LET d == Counted(Charged(c))
           IN  /\ d \in Completion /\ d.tenant = c.tenant /\ d.requested = c.requested
               /\ d.prompt = c.prompt /\ d.name = c.name /\ d.label = c.label
               /\ d.excused = c.excused /\ d.counts = c.counts + 1
               /\ d.spends = IF c.name \in Priced THEN c.spends + 1 ELSE c.spends
<1> SUFFICES ASSUME NEW e, e = Charged(c)
             PROVE  LET d == Counted(e)
                    IN  /\ d \in Completion /\ d.tenant = c.tenant
                        /\ d.requested = c.requested /\ d.prompt = c.prompt
                        /\ d.name = c.name /\ d.label = c.label
                        /\ d.excused = c.excused /\ d.counts = c.counts + 1
                        /\ d.spends = IF c.name \in Priced THEN c.spends + 1 ELSE c.spends
  OBVIOUS
<1>1. /\ e \in Completion /\ e.tenant = c.tenant /\ e.requested = c.requested
      /\ e.prompt = c.prompt /\ e.name = c.name /\ e.label = c.label
      /\ e.excused = c.excused /\ e.counts = c.counts
      /\ e.spends = IF c.name \in Priced THEN c.spends + 1 ELSE c.spends
  <2>1. CASE c.name \in Priced
    BY <2>1 DEF Charged, Completion
  <2>2. CASE c.name \notin Priced
    BY <2>2 DEF Charged, Completion
  <2> QED
    BY <2>1, <2>2
<1> QED
  BY <1>1 DEF Counted, Completion

\* The answer: the spend and the counters, once.
LEMMA AnswersKeepsInv ==
    ASSUME Inv, NEW r \in Requests, Answers(r)
    PROVE  Inv' /\ SameAnswers
<1> SUFFICES ASSUME NEW i, i = req[r].of,
                    NEW q, q = [pc |-> "answered", tenant |-> req[r].tenant,
                                body |-> req[r].body, of |-> i,
                                label |-> completions[i].label],
                    NEW c, c = Counted(Charged(completions[i]))
             PROVE  Inv' /\ SameAnswers
  OBVIOUS
<1>1. /\ At(r, "recorded") /\ Recording(r) /\ req' = [req EXCEPT ![r] = q]
      /\ UNCHANGED <<settings, schema, cache, rows>>
  BY DEF Answers, At, Recording
<1>2. /\ RequestIsTrue(r) /\ RecordsItsOwn(r) /\ i \in CompletionIds
      /\ req[r].tenant \in Tenants /\ req[r].body \in Body
      /\ completions[i] \in Completion /\ CompletionIsTrue(i)
  BY <1>1, Locals, CompletionsAreNumbered DEF Inv, RequestIsTrue
<1>3. completions' = [completions EXCEPT ![i] = c]
  BY DEF Answers
<1>4. /\ c \in Completion /\ c.tenant = completions[i].tenant
      /\ c.requested = completions[i].requested /\ c.prompt = completions[i].prompt
      /\ c.name = completions[i].name /\ c.label = completions[i].label
  BY <1>2, Bookkeeping
<1>5. q \in Progress
  BY <1>2 DEF Progress, Completion
<1>6. req'[r] = q
  BY <1>1 DEF Inv, TypeOK
<1>7. ASSUME SameAnswers PROVE RequestIsTrue(r)' /\ AnswerIsTrue(r)'
  <2>1. Allowed(r)' /\ ~At(r, "calling")' /\ ~Recording(r)'
    BY <1>1, <1>2, <1>6 DEF RequestIsTrue, At, Recording, Allowed
  <2>2. /\ completions'[i].name \in Upstream[q.body.model]
        /\ completions'[i].prompt = q.body.prompt
    BY <1>2, <1>7 DEF SameAnswers, CompletionIsTrue, RecordsItsOwn
  <2> QED
    BY <1>6, <2>1, <2>2 DEF RequestIsTrue, AnswerIsTrue, SameQuestion
<1>8. ~Recording(r)'
  BY <1>6 DEF Recording
<1> QED
  BY <1>1, <1>3, <1>4, <1>5, <1>7, <1>8, RecordingStep

\* A new pod knows nothing, and what the old one was recording is excused.
LEMMA RestartKeepsInv ==
    ASSUME Inv, NEW p \in Pods, Restart(p)
    PROVE  Inv' /\ SameAnswers
<1>1. /\ UNCHANGED <<settings, rows>> /\ (schema => schema') /\ schema' \in BOOLEAN
      /\ cache' = [cache EXCEPT ![p] = {}]
      /\ \A s \in Requests : req'[s] = IF PodOf[s] = p THEN Idle ELSE req[s]
      /\ req' \in [Requests -> Progress]
  <2>1. Idle \in Progress /\ req \in [Requests -> Progress]
    BY DEF Progress, Inv, TypeOK
  <2> QED
    BY <2>1 DEF Restart, Inv, TypeOK
<1>2. \A i \in CompletionIds :
         completions'[i] = IF i \in Held(p)
                           THEN [completions[i] EXCEPT !.excused = Books]
                           ELSE completions[i]
  BY CompletionsAreNumbered DEF Restart, Inv
<1>3. /\ completions' \in Seq(Completion) /\ CompletionIds' = CompletionIds
      /\ SameAnswers
  <2>1. /\ DOMAIN completions' = CompletionIds /\ CompletionIds = 1 .. Len(completions)
        /\ Len(completions) \in Nat
    BY CompletionsAreNumbered DEF Restart, Inv, CompletionIds
  <2>2. \A i \in CompletionIds :
           /\ completions'[i] \in Completion
           /\ completions'[i].tenant = completions[i].tenant
           /\ completions'[i].requested = completions[i].requested
           /\ completions'[i].prompt = completions[i].prompt
           /\ completions'[i].name = completions[i].name
           /\ completions'[i].label = completions[i].label
    <3> TAKE i \in CompletionIds
    <3>1. completions[i] \in Completion
      BY CompletionsAreNumbered DEF Inv
    <3>2. CASE i \in Held(p)
      <4>1. completions'[i] = [completions[i] EXCEPT !.excused = Books]
        BY <1>2, <3>2
      <4> QED
        BY <3>1, <4>1 DEF Completion
    <3>3. CASE i \notin Held(p)
      BY <1>2, <3>1, <3>3
    <3> QED
      BY <3>2, <3>3
  <2>3. completions' \in [1 .. Len(completions) -> Completion]
    BY <2>1, <2>2 DEF Restart
  <2>4. completions' \in Seq(Completion) /\ Len(completions') = Len(completions)
    BY <2>1, <2>3
  <2> QED
    BY <2>2, <2>4 DEF CompletionIds, SameAnswers
<1>4. Progress' = Progress /\ Row' = Row /\ Entry' = Entry
  BY <1>3 DEF Progress, Row, Entry
<1>5. TypeOK'
  <2>1. cache' \in [Pods -> SUBSET Entry]
    BY <1>1 DEF Inv, TypeOK
  <2> QED
    BY <1>1, <1>3, <1>4, <2>1 DEF Inv, TypeOK, IsABag
<1>6. /\ (\A i \in CompletionIds : CompletionIsTrue(i))' /\ RowsAreTrue'
      /\ \A i \in CompletionIds : Copies(i)' = Copies(i)
  <2>1. RowsAreTrue'
    BY <1>1, <1>3, FactsStayTrue DEF RowsAreTrue
  <2>2. \A i \in CompletionIds : CompletionIsTrue(i)' /\ TrueRow(i)' = TrueRow(i)
    BY <1>1, <1>3, FactsStayTrue
  <2> QED
    BY <1>1, <1>3, <2>1, <2>2 DEF Copies
<1>7. (\A o \in Pods : \A e \in cache[o] : EntryIsTrue(e))'
  <2>1. \A o \in Pods : cache'[o] = IF o = p THEN {} ELSE cache[o]
    BY <1>1 DEF Inv, TypeOK
  <2>2. \A e \in Entry : EntryIsTrue(e) => EntryIsTrue(e)'
    BY <1>1, <1>3, FactsStayTrue
  <2>3. \A o \in Pods : \A e \in cache[o] : e \in Entry /\ EntryIsTrue(e)
    BY DEF Inv, TypeOK
  <2> QED
    BY <2>1, <2>2, <2>3
<1>8. ASSUME NEW s \in Requests PROVE RequestIsTrue(s)' /\ AnswerIsTrue(s)'
  <2>1. CASE PodOf[s] = p
    BY <1>1, <2>1 DEF RequestIsTrue, AnswerIsTrue, At, Answered, Recording, Idle
  <2>2. CASE PodOf[s] # p
    <3>1. req'[s] = req[s]
      BY <1>1, <2>2
    <3>2. ASSUME Recording(s)
          PROVE  /\ completions'[req[s].of] = completions[req[s].of]
                 /\ Copies(req[s].of)' = Copies(req[s].of)
                 /\ \A t \in Requests \ {s} : Recording(t)' => req'[t].of # req[s].of
      <4>1. RecordsItsOwn(s) /\ req[s].of \in CompletionIds
        BY <3>2, Locals DEF Inv, RequestIsTrue
      <4>2. req[s].of \notin Held(p)
        BY <2>2, <4>1 DEF Held, RecordsItsOwn
      <4>3. \A t \in Requests : Recording(t)' => Recording(t) /\ req'[t] = req[t]
        BY <1>1 DEF Recording, Idle
      <4>4. Copies(req[s].of)' = Copies(req[s].of)
        BY <1>6, <3>1, <4>1
      <4> QED
        BY <1>2, <4>1, <4>2, <4>3, <4>4 DEF RecordsItsOwn
    <3> QED
      BY <1>1, <1>3, <3>1, <3>2, OthersStayTrue
  <2> QED
    BY <2>1, <2>2
<1> QED
  BY <1>3, <1>5, <1>6, <1>7, <1>8
  DEF Inv, AnswerIsTrue, AnswersAreOfTheModel, AnswersAreToTheQuestion

-----------------------------------------------------------------------------
(* The invariant                                                            *)

\* Before the first request there is nothing to disagree about.
LEMMA InitEstablishesInv ==
    ASSUME Init
    PROVE  Inv
<1>1. CompletionIds = {}
  BY DEF Init, CompletionIds
<1>2. completions \in Seq(Completion)
  BY DEF Init
<1>3. Idle \in Progress /\ \A r \in Requests : req[r] = Idle
  BY DEF Init, Progress
<1>4. IsABag(rows) /\ DOMAIN rows = {}
  BY EmptyTable DEF Init
<1>5. TypeOK
  BY <1>2, <1>3, <1>4, DeploymentsAssumption DEF Init, TypeOK
<1>6. \A r \in Requests : RequestIsTrue(r) /\ AnswerIsTrue(r)
  BY <1>3 DEF RequestIsTrue, AnswerIsTrue, At, Answered, Recording, Idle
<1> QED
  BY <1>1, <1>4, <1>5, <1>6
  DEF Init, Inv, RowsAreTrue, AnswerIsTrue, AnswersAreOfTheModel, AnswersAreToTheQuestion

\* Every action keeps the invariant, each by the lemma of its kind.
LEMMA StepKeepsInv ==
    ASSUME Inv, [Next]_vars
    PROVE  Inv'
<1>1. ASSUME NEW r \in Requests, NEW b \in Asks[r] \cup {Listing}, ArriveOpen(r, b)
      PROVE  Inv'
  <2>1. b \in Body \cup {Listing}
    BY BodiesAssumption
  <2> QED
    BY <1>1, <2>1, TenantsAssumption, HandlesKeepsInv DEF ArriveOpen
<1>2. ASSUME NEW r \in Requests, NEW b \in Asks[r] \cup {Listing}, Arrive(r, b)
      PROVE  Inv'
  <2> SUFFICES ASSUME NEW q, q = [pc |-> "limits", tenant |-> TenantOf[r], body |-> b]
               PROVE  Inv'
    OBVIOUS
  <2>1. q \in Progress /\ q.pc = "limits"
    BY BodiesAssumption, TenantsAssumption DEF Progress
  <2> QED
    BY <1>2, <2>1, LeavingKeepsInv DEF Arrive
<1>3. Refused \in Progress /\ Refused.pc = "refused"
      /\ Failed(FALSE) \in Progress /\ Failed(FALSE).pc = "failed"
  BY DEF Progress, Refused, Failed
<1>4. ASSUME NEW r \in Requests,
             ArriveUnknown(r) \/ Limited(r) \/ OverBudget(r) \/ ProviderFails(r)
      PROVE  Inv'
  BY <1>3, <1>4, LeavingKeepsInv
  DEF ArriveUnknown, Limited, OverBudget, ProviderFails
<1>5. ASSUME NEW r \in Requests, LimiterFails(r) \/ QueryFails(r)
      PROVE  Inv'
  BY <1>3, <1>5, LeavingKeepsInv DEF LimiterFails, QueryFails
<1>6. ASSUME NEW r \in Requests, WithinLimits(r)
      PROVE  Inv'
  <2>1. req[r].tenant \in Tenants /\ req[r].body \in Body \cup {Listing}
    BY <1>6, Locals DEF Inv, WithinLimits
  <2>2. CASE Handles(r, req[r].tenant, req[r].body) /\ (req[r].tenant \in Budgeted => schema)
    BY <1>6, <2>1, <2>2, HandlesKeepsInv DEF WithinLimits
  <2>3. CASE /\ req' = [req EXCEPT ![r] =
                   [pc |-> "budget", tenant |-> @.tenant, body |-> @.body]]
             /\ UNCHANGED completions
    <3> SUFFICES ASSUME NEW q, q = [pc |-> "budget", tenant |-> req[r].tenant, body |-> req[r].body]
                 PROVE  Inv'
      OBVIOUS
    <3>1. q \in Progress /\ q.pc = "budget"
      BY <2>1 DEF Progress
    <3> QED
      BY <1>6, <2>3, <3>1, LeavingKeepsInv DEF WithinLimits
  <2> QED
    BY <1>6, <2>2, <2>3 DEF WithinLimits
<1>7. ASSUME NEW r \in Requests, UnderBudget(r)
      PROVE  Inv'
  <2>1. req[r].tenant \in Tenants /\ req[r].body \in Body \cup {Listing}
    BY <1>7, Locals DEF Inv, UnderBudget
  <2> QED
    BY <1>7, <2>1, HandlesKeepsInv DEF UnderBudget
<1>8. ASSUME NEW r \in Requests,
             \/ \E name \in Names : ProviderAnswers(r, name)
             \/ TokensRecorded(r) \/ ChargeFails(r)
             \/ InsertCommits(r) \/ InsertFails(r) \/ Answers(r)
      PROVE  Inv'
  BY <1>8, ProviderAnswersKeepsInv, TokensRecordedKeepsInv, ChargeFailsKeepsInv,
     InsertKeepsInv, AnswersKeepsInv
<1>9. ASSUME NEW p \in Pods, Restart(p) PROVE Inv'
  BY <1>9, RestartKeepsInv
<1>10. CASE UNCHANGED vars
  <2>1. CompletionIds' = CompletionIds /\ SameAnswers
    BY <1>10 DEF vars, CompletionIds, SameAnswers
  <2>2. \A r \in Requests : RequestIsTrue(r)' /\ AnswerIsTrue(r)'
    <3> SUFFICES ASSUME NEW r \in Requests PROVE RequestIsTrue(r)' /\ AnswerIsTrue(r)'
      OBVIOUS
    <3>1. Recording(r) => RecordsItsOwn(r)
      BY DEF Inv, RequestIsTrue
    <3> QED
      BY <1>10, <2>1, <3>1, OthersStayTrue
      DEF vars, RecordsItsOwn, Recording, Copies, TrueRow
  <2> QED
    BY <1>10, <2>1, <2>2 DEF vars, Inv, TypeOK, Progress, Row, Entry, CompletionIsTrue,
       EntryIsTrue, RowsAreTrue, TrueRow, AnswerIsTrue, AnswersAreOfTheModel,
       AnswersAreToTheQuestion, Redacting, Sensitive, IsABag
<1> QED
  BY <1>1, <1>2, <1>4, <1>5, <1>6, <1>7, <1>8, <1>9, <1>10 DEF Next, Step

\* The pipeline, its caches and its books agree in every reachable state.
THEOREM Invariance == Spec => []Inv
<1>1. Init => Inv
  BY InitEstablishesInv
<1>2. Inv /\ [Next]_vars => Inv'
  BY StepKeepsInv
<1> QED
  BY <1>1, <1>2, PTL DEF Spec

\* The state of the pipeline is always well typed.
THEOREM TypeCorrectness == Spec => []TypeOK
BY Invariance, PTL DEF Inv

\* Nobody gets a model other than the one asked for, or one that is not on the
\* allowlist, neither from a provider nor from the shared cache (model_allowed).
THEOREM OnlyAllowedModels == Spec => []AnswersAreOfTheModel
BY Invariance, PTL DEF Inv

\* Every answer, cached or not, is one to the question (chat_completions).
THEOREM OnlyTheirQuestions == Spec => []AnswersAreToTheQuestion
BY Invariance, PTL DEF Inv

\* No row of the usage table tells of another completion, tenant, model or label
\* than the one it was written for (_record_completion).
THEOREM OnlyTrueRows == Spec => []RowsAreTrue
BY Invariance, PTL DEF Inv

\* What is redacted before the lookup and the call is nowhere else either.
THEOREM OnlyRedacted == Spec => []NothingSensitiveLeaves
<1>1. Inv => NothingSensitiveLeaves
  <2> SUFFICES ASSUME Inv, Redacting
               PROVE  /\ \A i \in CompletionIds : ~Sensitive(completions[i].prompt)
                      /\ \A p \in Pods : \A e \in cache[p] : ~Sensitive(e.prompt)
    BY DEF NothingSensitiveLeaves
  <2>1. \A i \in CompletionIds : ~Sensitive(completions[i].prompt)
    BY DEF Inv, CompletionIsTrue
  <2>2. ASSUME NEW p \in Pods, NEW e \in cache[p] PROVE ~Sensitive(e.prompt)
    <3>1. e \in Entry /\ EntryIsTrue(e)
      BY DEF Inv, TypeOK
    <3>2. e.of \in CompletionIds
      BY <3>1 DEF Entry
    <3> QED
      BY <2>1, <3>1, <3>2 DEF EntryIsTrue
  <2> QED
    BY <2>1, <2>2
<1> QED
  BY <1>1, Invariance, PTL

\* Without the usage table no tenant with a budget has a provider called
\* (check_budget).
THEOREM OnlyWithTheTable == Spec => []BudgetsNeedTheTable
<1>1. Inv => BudgetsNeedTheTable
  BY DEF Inv, CompletionIsTrue, BudgetsNeedTheTable
<1> QED
  BY <1>1, Invariance, PTL

-----------------------------------------------------------------------------
(* The books                                                                *)

\* An entry, book by book.
LEMMA EntryFields ==
    ASSUME Inv, NEW i \in CompletionIds
    PROVE  /\ EntryOf(i).tenant = completions[i].tenant
           /\ EntryOf(i).due = {b \in Books : b = "spend" => completions[i].name \in Priced}
           /\ EntryOf(i).excused = completions[i].excused
           /\ EntryOf(i).open <=> \E r \in Requests : Recording(r) /\ req[r].of = i
           /\ EntryOf(i).times["row"] = Copies(i)
           /\ EntryOf(i).times["spend"] = completions[i].spends
           /\ EntryOf(i).times["counters"] = completions[i].counts
BY DEF EntryOf, AsEntry, Times, Books

\* The ledger is as long as the list of completions.
LEMMA EntriesAreNumbered ==
    ASSUME TypeOK
    PROVE  /\ DOMAIN Entries = CompletionIds /\ Len(Entries) = Len(completions)
           /\ \A i \in CompletionIds : Entries[i] = EntryOf(i)
<1>1. Len(completions) \in Nat
  BY CompletionsAreNumbered
<1>2. DOMAIN Entries = CompletionIds /\ \A i \in CompletionIds : Entries[i] = EntryOf(i)
  BY DEF Entries
<1> DEFINE S == {EntryOf(i) : i \in CompletionIds}
<1>3. Entries \in [1 .. Len(completions) -> S]
  BY DEF Entries, CompletionIds
<1> HIDE DEF S
<1>4. Len(Entries) = Len(completions)
  BY <1>1, <1>3
<1> QED
  BY <1>2, <1>4

\* What goes on of an entry, book by book.
LEMMA EntryGoesOn ==
    ASSUME Inv, Inv', SameAnswers, NEW i \in CompletionIds,
           EntryOf(i).open,
           completions[i].excused \subseteq completions'[i].excused,
           Copies(i)' = Copies(i) \/ (Copies(i) = 0 /\ Copies(i)' = 1),
           \/ completions'[i].spends = completions[i].spends
           \/ /\ completions[i].spends = 0 /\ completions'[i].spends = 1
              /\ completions[i].name \in Priced,
           \/ completions'[i].counts = completions[i].counts
           \/ completions[i].counts = 0 /\ completions'[i].counts = 1,
           completions[i].spends = 0,
           \/ EntryOf(i).open'
           \/ completions'[i].excused = Books
           \/ /\ Copies(i)' = 1 \/ "row" \in completions'[i].excused
              /\ completions'[i].counts = 1
              /\ completions[i].name \in Priced => completions'[i].spends = 1
    PROVE  L!GoesOn(EntryOf(i), EntryOf(i)')
<1> SUFFICES ASSUME NEW e, e = EntryOf(i), NEW f, f = EntryOf(i)'
             PROVE  L!GoesOn(e, f)
  OBVIOUS
<1>1. /\ e.tenant = completions[i].tenant
      /\ e.due = {b \in Books : b = "spend" => completions[i].name \in Priced}
      /\ e.excused = completions[i].excused /\ e.open
      /\ e.times["row"] = Copies(i)
      /\ e.times["spend"] = completions[i].spends
      /\ e.times["counters"] = completions[i].counts
  BY EntryFields
<1>2. i \in CompletionIds' /\ completions'[i].name = completions[i].name
      /\ completions'[i].tenant = completions[i].tenant
  BY DEF SameAnswers
<1>3. /\ f.tenant = completions'[i].tenant
      /\ f.due = {b \in Books : b = "spend" => completions'[i].name \in Priced}
      /\ f.excused = completions'[i].excused
      /\ f.times["row"] = Copies(i)'
      /\ f.times["spend"] = completions'[i].spends
      /\ f.times["counters"] = completions'[i].counts
  <2>1. /\ f.tenant = completions'[i].tenant
        /\ f.due = {b \in Books : b = "spend" => completions'[i].name \in Priced}
        /\ f.excused = completions'[i].excused
        /\ f.times = [b \in Books |-> CASE b = "row" -> Copies(i)'
                                        [] b = "spend" -> completions'[i].spends
                                        [] b = "counters" -> completions'[i].counts]
    BY DEF EntryOf, AsEntry, Times
  <2> QED
    BY <2>1 DEF Books
<1>4. Books = {"row", "spend", "counters"}
  BY DEF Books
<1>5. f.tenant = e.tenant /\ f.due = e.due /\ e.excused \subseteq f.excused
  BY <1>1, <1>2, <1>3
<1>6. \A b \in Books : f.times[b] = e.times[b] \/ (e.times[b] = 0 /\ f.times[b] = 1)
  BY <1>1, <1>3, <1>4
<1>7. L!Entered(f) \subseteq e.due
  BY <1>1, <1>3, <1>4 DEF L!Entered
<1>8. f.open \/ e.due \subseteq L!Entered(f) \cup f.excused
  BY <1>1, <1>3, <1>4 DEF L!Entered
<1> QED
  BY <1>1, <1>5, <1>6, <1>7, <1>8 DEF L!GoesOn

\* An entry stays as it is if nobody touches its completion, its row, or the
\* request that records it.
LEMMA EntryStays ==
    ASSUME NEW i, completions'[i] = completions[i], Copies(i)' = Copies(i),
           \A r \in Requests :
               (Recording(r) /\ req[r].of = i) <=> (Recording(r) /\ req[r].of = i)'
    PROVE  EntryOf(i)' = EntryOf(i)
<1> SUFFICES ASSUME NEW o, o = (\E r \in Requests : Recording(r) /\ req[r].of = i),
                    NEW k, k = Copies(i), NEW c, c = completions[i]
             PROVE  EntryOf(i)' = EntryOf(i)
  OBVIOUS
<1>1. (\E r \in Requests : Recording(r) /\ req[r].of = i)' = o
  <2>1. (\E r \in Requests : Recording(r) /\ req[r].of = i)'
            <=> (\E r \in Requests : Recording(r) /\ req[r].of = i)
    OBVIOUS
  <2> QED
    BY <2>1
<1>2. EntryOf(i) = AsEntry(c, k, o)
  BY DEF EntryOf
<1>3. completions'[i] = c /\ Copies(i)' = k
  OBVIOUS
<1>4. EntryOf(i)' = AsEntry(c, k, o)
  BY <1>1, <1>3 DEF EntryOf
<1> QED
  BY <1>2, <1>4

\* As long as no request takes up or drops a completion, and none is entered
\* anywhere, the ledger stands still.
LEMMA LedgerStands ==
    ASSUME Inv, UNCHANGED <<rows, completions>>,
           NEW r \in Requests, NEW q, req' = [req EXCEPT ![r] = q],
           \/ q.pc \notin {"charging", "inserting", "recorded"} /\ ~Recording(r)
           \/ q.pc = "inserting" /\ Recording(r) /\ q.of = req[r].of
    PROVE  UNCHANGED Entries
<1>1. \A s \in Requests : req'[s] = IF s = r THEN q ELSE req[s]
  BY DEF Inv, TypeOK
<1>2. \A i, s \in Requests :
         (Recording(s) /\ req[s].of = i) <=> (Recording(s) /\ req[s].of = i)'
  BY <1>1 DEF Recording
<1>3. \A i : EntryOf(i)' = EntryOf(i)
  <2> TAKE i
  <2>1. Copies(i)' = Copies(i)
    BY DEF Copies, TrueRow
  <2>2. \A s \in Requests :
           (Recording(s) /\ req[s].of = i) <=> (Recording(s) /\ req[s].of = i)'
    BY <1>1 DEF Recording
  <2> QED
    BY <2>1, <2>2, EntryStays
<1>4. CompletionIds' = CompletionIds
  BY DEF CompletionIds
<1> QED
  BY <1>3, <1>4 DEF Entries

\* A completion that is paid for is a new entry.
LEMMA ProviderAnswersPays ==
    ASSUME Inv, Inv', NEW r \in Requests, NEW name, ProviderAnswers(r, name)
    PROVE  L!Pay(Entries, Entries')
<1> SUFFICES ASSUME NEW i, i = Len(completions) + 1,
                    NEW q, q = req[r].body,
                    NEW c, c = Response(q, req[r].tenant, name),
                    NEW a, a = [pc |-> "charging", tenant |-> req[r].tenant, body |-> q,
                                of |-> i]
             PROVE  L!Pay(Entries, Entries')
  OBVIOUS
<1>1. /\ At(r, "calling") /\ completions' = Append(completions, c)
      /\ req' = [req EXCEPT ![r] = a] /\ rows' = rows
  BY DEF ProviderAnswers
<1>2. Len(completions) \in Nat /\ completions \in Seq(Completion)
      /\ req[r].tenant \in Tenants
  BY <1>1, CompletionsAreNumbered, Locals DEF Inv, TypeOK
<1>3. /\ CompletionIds = 1 .. Len(completions) /\ CompletionIds' = 1 .. i
      /\ completions'[i] = c
      /\ \A j \in CompletionIds : completions'[j] = completions[j]
  <2>1. completions' \in Seq(Completion)
    BY DEF Inv, TypeOK
  <2> QED
    BY <1>1, <1>2, <2>1 DEF CompletionIds
<1>4. \A s \in Requests : req'[s] = IF s = r THEN a ELSE req[s]
  BY <1>1 DEF Inv, TypeOK
<1>5. ASSUME NEW j \in CompletionIds PROVE EntryOf(j)' = EntryOf(j)
  <2>1. completions'[j] = completions[j] /\ Copies(j)' = Copies(j)
    BY <1>1, <1>3 DEF Copies, TrueRow
  <2>2. \A s \in Requests :
           (Recording(s) /\ req[s].of = j) <=> (Recording(s) /\ req[s].of = j)'
    BY <1>1, <1>2, <1>3, <1>4 DEF Recording, At
  <2> QED
    BY <2>1, <2>2, EntryStays
<1>6. \E t \in Tenants, due \in SUBSET Books : EntryOf(i)' = L!NewEntry(t, due)
  <2>1. RecordsItsOwn(r)' /\ Recording(r)' /\ req'[r].of = i
    BY <1>4 DEF Inv, RequestIsTrue, Recording
  <2>2. Copies(i)' = 0 /\ c.spends = 0 /\ c.counts = 0 /\ c.excused = {}
        /\ c.tenant = req[r].tenant
    BY <1>3, <1>4, <2>1 DEF RecordsItsOwn, At, Response
  <2>3. EntryOf(i)' = [tenant |-> c.tenant,
                       due |-> {b \in Books : b = "spend" => c.name \in Priced},
                       times |-> [b \in Books |-> 0], excused |-> {}, open |-> TRUE]
    <3>1. Times(c, 0) = [b \in Books |-> 0]
      BY <2>2 DEF Times, Books
    <3>2. (\E s \in Requests : Recording(s) /\ req[s].of = i)' = TRUE
      BY <2>1
    <3>3. EntryOf(i)' = AsEntry(c, 0, TRUE)
      BY <1>3, <2>2, <3>2 DEF EntryOf
    <3> QED
      BY <2>2, <3>1, <3>3 DEF AsEntry
  <2>4. {b \in Books : b = "spend" => c.name \in Priced} \in SUBSET Books
    OBVIOUS
  <2> QED
    BY <1>2, <2>2, <2>3, <2>4 DEF L!NewEntry
<1>7. /\ DOMAIN Entries = CompletionIds /\ Len(Entries) = Len(completions)
      /\ \A j \in CompletionIds : Entries[j] = EntryOf(j)
  BY EntriesAreNumbered DEF Inv
<1>8. /\ Len(Entries') = i /\ \A j \in CompletionIds' : Entries'[j] = EntryOf(j)'
  <2> DEFINE S == {EntryOf(j)' : j \in CompletionIds'}
  <2>1. Entries' \in [1 .. i -> S] /\ \A j \in CompletionIds' : Entries'[j] = EntryOf(j)'
    BY <1>3 DEF Entries
  <2> HIDE DEF S
  <2>2. Len(Entries') = i
    BY <1>2, <2>1
  <2> QED
    BY <2>1, <2>2
<1> QED
  BY <1>2, <1>3, <1>5, <1>6, <1>7, <1>8 DEF L!Pay

\* If every entry stays or goes on, so does the ledger.
LEMMA LedgerGoesOn ==
    ASSUME Inv, CompletionIds' = CompletionIds,
           \A j \in CompletionIds :
               EntryOf(j)' = EntryOf(j) \/ L!GoesOn(EntryOf(j), EntryOf(j)')
    PROVE  L!KeepBooks(Entries, Entries')
<1>1. Len(completions) \in Nat /\ CompletionIds = 1 .. Len(completions)
  BY CompletionsAreNumbered DEF Inv, CompletionIds
<1>2. /\ DOMAIN Entries = CompletionIds /\ Len(Entries) = Len(completions)
      /\ \A j \in CompletionIds : Entries[j] = EntryOf(j)
  BY EntriesAreNumbered DEF Inv
<1> DEFINE S == {EntryOf(j)' : j \in CompletionIds}
<1>3. /\ Entries' \in [1 .. Len(completions) -> S]
      /\ \A j \in CompletionIds : Entries'[j] = EntryOf(j)'
  BY <1>1 DEF Entries
<1> HIDE DEF S
<1>4. Len(Entries') = Len(completions)
  BY <1>1, <1>3
<1> QED
  BY <1>2, <1>3, <1>4 DEF L!KeepBooks

\* In _record_completion a request enters its own completion in one more book,
\* or is excused; with its last step the entry is complete.
LEMMA RecordingKeepsBooks ==
    ASSUME Inv, Inv', SameAnswers, NEW r \in Requests,
           ChargeFails(r) \/ InsertCommits(r) \/ InsertFails(r) \/ Answers(r)
    PROVE  L!KeepBooks(Entries, Entries')
<1> SUFFICES ASSUME NEW i, i = req[r].of
             PROVE  L!KeepBooks(Entries, Entries')
  OBVIOUS
<1>1. Recording(r)
  BY DEF ChargeFails, InsertCommits, InsertFails, Answers, At, Recording
<1>2. /\ i \in CompletionIds /\ RecordsItsOwn(r) /\ completions[i] \in Completion
      /\ completions \in Seq(Completion) /\ DOMAIN completions = CompletionIds
  BY <1>1, Locals, CompletionsAreNumbered DEF Inv, TypeOK, RequestIsTrue
<1>3. /\ \A s \in Requests \ {r} : req'[s] = req[s]
      /\ Recording(r)' => req'[r].of = i /\ At(r, "recorded")'
  <2>1. req \in [Requests -> Progress]
    BY DEF Inv, TypeOK
  <2>2. CASE ChargeFails(r)
    BY <2>1, <2>2 DEF ChargeFails, Recording, Failed
  <2>3. CASE InsertCommits(r) \/ InsertFails(r)
    BY <2>1, <2>3 DEF InsertCommits, InsertFails, Inserted, At
  <2>4. CASE Answers(r)
    BY <2>1, <2>4 DEF Answers, Recording
  <2> QED
    BY <2>2, <2>3, <2>4
<1>4. /\ \A j \in CompletionIds \ {i} : completions'[j] = completions[j]
      /\ DOMAIN completions' = DOMAIN completions
  BY <1>2 DEF ChargeFails, InsertCommits, InsertFails, Answers
<1>5. CompletionIds' = CompletionIds
  <2>1. completions' \in Seq(Completion)
    BY DEF Inv, TypeOK
  <2>2. DOMAIN completions' = 1 .. Len(completions') /\ DOMAIN completions = 1 .. Len(completions)
    BY <1>2, <2>1, LenProperties
  <2> QED
    BY <1>4, <2>2 DEF CompletionIds
<1>6. ASSUME NEW j \in CompletionIds \ {i} PROVE EntryOf(j)' = EntryOf(j)
  <2>1. TrueRow(j)' = TrueRow(j) /\ TrueRow(j) # TrueRow(i)
    BY <1>4 DEF TrueRow
  <2>2. Copies(j)' = Copies(j)
    <3>1. CASE rows' = rows
      BY <2>1, <3>1 DEF Copies
    <3>2. CASE InsertCommits(r)
      <4>1. rows' = rows (+) SetToBag({TrueRow(i)})
        BY <1>2, <3>2 DEF InsertCommits, RecordsItsOwn
      <4>2. /\ DOMAIN rows' = DOMAIN rows \cup {TrueRow(i)}
            /\ \A y \in DOMAIN rows : y # TrueRow(i) => rows'[y] = rows[y]
        BY <4>1, InsertAddsOne DEF Inv, TypeOK
      <4> QED
        BY <2>1, <4>2 DEF Copies, BagIn, BagToSet
    <3> QED
      BY <3>1, <3>2 DEF ChargeFails, InsertFails, Answers
  <2>3. \A s \in Requests :
           (Recording(s) /\ req[s].of = j) <=> (Recording(s) /\ req[s].of = j)'
    BY <1>3 DEF Recording
  <2> QED
    BY <1>4, <2>1, <2>2, <2>3, EntryStays
<1>7. L!GoesOn(EntryOf(i), EntryOf(i)')
  <2>1. EntryOf(i).open
    BY <1>1, <1>2, EntryFields
  <2>2. /\ completions[i].spends = 0 /\ completions[i].counts = 0
        /\ completions[i].excused \subseteq Books /\ TrueRow(i)' = TrueRow(i)
    BY <1>2 DEF RecordsItsOwn, Completion, SameAnswers, TrueRow
  <2>3. CASE ChargeFails(r)
    <3>1. completions'[i] = [completions[i] EXCEPT !.excused = Books] /\ rows' = rows
      BY <1>2, <2>3 DEF ChargeFails
    <3>2. /\ completions'[i].excused = Books
          /\ completions'[i].spends = completions[i].spends
          /\ completions'[i].counts = completions[i].counts
      BY <1>2, <3>1 DEF Completion
    <3>3. Copies(i)' = Copies(i)
      BY <2>2, <3>1 DEF Copies
    <3> QED
      BY <1>2, <2>1, <2>2, <3>2, <3>3, EntryGoesOn
  <2>4. CASE InsertCommits(r) \/ InsertFails(r)
    <3>1. Recording(r)' /\ req'[r].of = i /\ At(r, "recorded")' /\ At(r, "inserting")
      BY <2>4 DEF InsertCommits, InsertFails, Inserted, Recording, At, Inv, TypeOK
    <3>2. Copies(i) = 0
      BY <1>2, <3>1 DEF RecordsItsOwn, At
    <3>3. RecordsItsOwn(r)'
      BY <3>1 DEF Inv, RequestIsTrue
    <3>4. Copies(i)' = 1 \/ Copies(i)' = 0
      BY <3>1, <3>3 DEF RecordsItsOwn
    <3>5. /\ completions'[i].spends = 0 /\ completions'[i].counts = 0
      BY <3>1, <3>3 DEF RecordsItsOwn
    <3>6. completions[i].excused \subseteq completions'[i].excused
      <4>1. CASE InsertCommits(r)
        BY <4>1 DEF InsertCommits
      <4>2. CASE InsertFails(r)
        <5>1. completions'[i] = [completions[i] EXCEPT !.excused = @ \cup {"row"}]
          BY <1>2, <4>2 DEF InsertFails
        <5> QED
          BY <1>2, <5>1 DEF Completion
      <4> QED
        BY <2>4, <4>1, <4>2
    <3>7. EntryOf(i).open'
      <4>1. (\E s \in Requests : Recording(s) /\ req[s].of = i)'
        BY <3>1
      <4> QED
        BY <4>1 DEF EntryOf, AsEntry
    <3> QED
      BY <1>2, <2>1, <2>2, <3>2, <3>4, <3>5, <3>6, <3>7, EntryGoesOn
  <2>5. CASE Answers(r)
    <3> SUFFICES ASSUME NEW c, c = Counted(Charged(completions[i]))
                 PROVE  L!GoesOn(EntryOf(i), EntryOf(i)')
      OBVIOUS
    <3>1. completions'[i] = c /\ rows' = rows /\ At(r, "recorded")
      BY <1>2, <2>5 DEF Answers
    <3>2. /\ c.excused = completions[i].excused /\ c.counts = 1
          /\ c.spends = IF completions[i].name \in Priced THEN 1 ELSE 0
      BY <1>2, <2>2, Bookkeeping
    <3>3. Copies(i)' = Copies(i)
      BY <2>2, <3>1 DEF Copies
    <3>4. Copies(i) = 1 \/ "row" \in completions[i].excused
      BY <1>2, <3>1 DEF RecordsItsOwn
    <3> QED
      BY <1>2, <2>1, <2>2, <3>1, <3>2, <3>3, <3>4, EntryGoesOn
  <2> QED
    BY <2>3, <2>4, <2>5
<1> QED
  BY <1>5, <1>6, <1>7, LedgerGoesOn

\* When a pod goes, what it was recording is excused.
LEMMA RestartKeepsBooks ==
    ASSUME Inv, Inv', SameAnswers, NEW p \in Pods, Restart(p)
    PROVE  L!KeepBooks(Entries, Entries')
<1>1. /\ rows' = rows
      /\ \A s \in Requests : req'[s] = IF PodOf[s] = p THEN Idle ELSE req[s]
  BY DEF Restart
<1>2. /\ \A i \in CompletionIds :
            completions'[i] = IF i \in Held(p)
                              THEN [completions[i] EXCEPT !.excused = Books]
                              ELSE completions[i]
      /\ \A i \in CompletionIds : completions[i] \in Completion
      /\ DOMAIN completions' = DOMAIN completions
  BY CompletionsAreNumbered DEF Restart, Inv
<1>3. CompletionIds' = CompletionIds
  <2>1. completions \in Seq(Completion) /\ completions' \in Seq(Completion)
    BY DEF Inv, TypeOK
  <2>2. DOMAIN completions' = 1 .. Len(completions') /\ DOMAIN completions = 1 .. Len(completions)
    BY <2>1, LenProperties
  <2> QED
    BY <1>2, <2>2 DEF CompletionIds
<1>4. \A i \in CompletionIds : Copies(i)' = Copies(i)
  BY <1>1 DEF SameAnswers, Copies, TrueRow
<1>5. ASSUME NEW i \in CompletionIds, i \notin Held(p)
      PROVE  EntryOf(i)' = EntryOf(i)
  <2>1. \A s \in Requests :
           (Recording(s) /\ req[s].of = i) <=> (Recording(s) /\ req[s].of = i)'
    BY <1>1, <1>5 DEF Held, Recording, Idle
  <2> QED
    BY <1>2, <1>4, <1>5, <2>1, EntryStays
<1>6. ASSUME NEW i \in CompletionIds, i \in Held(p)
      PROVE  L!GoesOn(EntryOf(i), EntryOf(i)')
  <2>1. PICK s \in Requests : Recording(s) /\ req[s].of = i
    BY <1>6 DEF Held
  <2>2. EntryOf(i).open
    BY <2>1, EntryFields
  <2>3. completions[i].spends = 0 /\ completions[i].counts = 0
    BY <2>1 DEF Inv, RequestIsTrue, RecordsItsOwn
  <2>4. completions'[i] = [completions[i] EXCEPT !.excused = Books]
    BY <1>2, <1>6
  <2>5. /\ completions'[i].excused = Books /\ completions[i].excused \subseteq Books
        /\ completions'[i].spends = completions[i].spends
        /\ completions'[i].counts = completions[i].counts
    BY <1>2, <2>4 DEF Completion
  <2> QED
    BY <1>4, <2>2, <2>3, <2>5, EntryGoesOn
<1> QED
  BY <1>3, <1>5, <1>6, LedgerGoesOn

\* Every step of the pipeline is one of the ledger, or leaves it alone.
LEMMA StepImplementsLedger ==
    ASSUME Inv, Inv', [Next]_vars
    PROVE  [L!Next]_Entries
<1>1. Refused.pc = "refused" /\ Idle.pc = "idle" /\ \A paid : Failed(paid).pc = "failed"
  BY DEF Refused, Idle, Failed
<1>2. ASSUME NEW r \in Requests, NEW t, NEW b, Handles(r, t, b), ~Recording(r), rows' = rows
      PROVE  UNCHANGED Entries
  <2> SUFFICES ASSUME NEW q, q = [b EXCEPT !.prompt = Guarded(@)] PROVE UNCHANGED Entries
    OBVIOUS
  <2>1. PICK n : /\ req' = [req EXCEPT ![r] = n] /\ UNCHANGED completions
                 /\ n.pc \in {"idle", "refused", "answered", "calling"}
    BY <1>1, <1>2 DEF Handles, Hits
  <2> QED
    BY <1>2, <2>1, LedgerStands
<1>3. ASSUME NEW r \in Requests, NEW b, ArriveOpen(r, b) PROVE UNCHANGED Entries
  <2>1. ~Recording(r)
    BY <1>3 DEF ArriveOpen, Busy, Recording
  <2> QED
    BY <1>2, <1>3, <2>1 DEF ArriveOpen
<1>4. ASSUME NEW r \in Requests, NEW b, Arrive(r, b) PROVE UNCHANGED Entries
  <2>1. ~Recording(r)
    BY <1>4 DEF Arrive, Busy, Recording
  <2> QED
    BY <1>4, <2>1, LedgerStands DEF Arrive
<1>5. ASSUME NEW r \in Requests,
             \/ ArriveUnknown(r) \/ Limited(r) \/ LimiterFails(r) \/ QueryFails(r)
             \/ OverBudget(r) \/ ProviderFails(r)
      PROVE  UNCHANGED Entries
  <2>1. ~Recording(r)
    BY <1>5 DEF ArriveUnknown, Limited, LimiterFails, QueryFails, OverBudget, ProviderFails,
       Busy, Recording, At
  <2>2. PICK n : /\ req' = [req EXCEPT ![r] = n] /\ UNCHANGED <<rows, completions>>
                 /\ n.pc \in {"refused", "failed"}
    BY <1>1, <1>5 DEF ArriveUnknown, Limited, LimiterFails, QueryFails, OverBudget, ProviderFails
  <2> QED
    BY <2>1, <2>2, LedgerStands
<1>6. ASSUME NEW r \in Requests, WithinLimits(r) \/ UnderBudget(r)
      PROVE  UNCHANGED Entries
  <2>1. ~Recording(r) /\ rows' = rows
    BY <1>6 DEF WithinLimits, UnderBudget, Recording, At
  <2>2. CASE Handles(r, req[r].tenant, req[r].body)
    BY <1>2, <2>1, <2>2
  <2>3. CASE /\ req' = [req EXCEPT ![r] =
                   [pc |-> "budget", tenant |-> @.tenant, body |-> @.body]]
             /\ UNCHANGED completions
    BY <2>1, <2>3, LedgerStands
  <2> QED
    BY <1>6, <2>2, <2>3 DEF WithinLimits, UnderBudget
<1>7. ASSUME NEW r \in Requests, TokensRecorded(r) PROVE UNCHANGED Entries
  <2>1. Recording(r)
    BY <1>7 DEF TokensRecorded, Recording, At
  <2> QED
    BY <1>7, <2>1, LedgerStands DEF TokensRecorded
<1>8. ASSUME NEW r \in Requests, NEW name, ProviderAnswers(r, name) PROVE L!Next
  BY <1>8, ProviderAnswersPays DEF L!Next
<1>9. ASSUME NEW r \in Requests,
             ChargeFails(r) \/ InsertCommits(r) \/ InsertFails(r) \/ Answers(r)
      PROVE  L!Next
  <2>1. SameAnswers
    BY <1>9, ChargeFailsKeepsInv, InsertKeepsInv, AnswersKeepsInv
  <2> QED
    BY <1>9, <2>1, RecordingKeepsBooks DEF L!Next
<1>10. ASSUME NEW p \in Pods, Restart(p) PROVE L!Next
  BY <1>10, RestartKeepsInv, RestartKeepsBooks DEF L!Next
<1>11. CASE UNCHANGED vars
  <2>1. CompletionIds' = CompletionIds /\ \A i : EntryOf(i)' = EntryOf(i)
    BY <1>11, EntryStays DEF vars, CompletionIds, Copies, TrueRow, Recording
  <2> QED
    BY <2>1 DEF Entries
<1> QED
  BY <1>3, <1>4, <1>5, <1>6, <1>7, <1>8, <1>9, <1>10, <1>11 DEF Next, Step

\* The pipeline keeps the books: whatever fails, every completion that was
\* paid for is entered once in each book, or excused from it, for the tenant
\* that asked for it.
THEOREM GatewayKeepsBooks == Spec => ImplementsLedger
<1>1. Init => L!Init
  <2> SUFFICES ASSUME Init PROVE Entries = <<>>
    BY DEF L!Init
  <2>1. CompletionIds = {}
    BY DEF Init, CompletionIds
  <2> QED
    BY <2>1 DEF Entries
<1>2. Inv /\ Inv' /\ [Next]_vars => [L!Next]_Entries
  BY StepImplementsLedger
<1> QED
  BY <1>1, <1>2, Invariance, PTL DEF Spec, ImplementsLedger, L!Spec

-----------------------------------------------------------------------------
(* Every request comes to its end                                           *)

\* The steps that a request may still take.
StepsLeft(q) ==
    CASE q.pc = "limits"    -> 6
      [] q.pc = "budget"    -> 5
      [] q.pc = "calling"   -> 4
      [] q.pc = "charging"  -> 3
      [] q.pc = "inserting" -> 2
      [] q.pc = "recorded"  -> 1
      [] q.pc \in {"idle", "refused", "answered", "failed"} -> 0

\* A step leaves fewer, and nothing else but the end of its pod touches a
\* request under way.
RunsDown(r) ==
    /\ Step(r) => StepsLeft(req'[r]) < StepsLeft(req[r])
    /\ Busy(r) /\ ~Step(r) => req'[r] \in {req[r], Idle}

\* How many at each place.
LEMMA StepsLeftIs ==
    ASSUME NEW q
    PROVE  /\ q.pc = "limits" => StepsLeft(q) = 6
           /\ q.pc = "budget" => StepsLeft(q) = 5
           /\ q.pc = "calling" => StepsLeft(q) = 4
           /\ q.pc = "charging" => StepsLeft(q) = 3
           /\ q.pc = "inserting" => StepsLeft(q) = 2
           /\ q.pc = "recorded" => StepsLeft(q) = 1
           /\ q.pc \in {"idle", "refused", "answered", "failed"} => StepsLeft(q) = 0
BY DEF StepsLeft

\* The handler answers, refuses, or calls a provider.
LEMMA HandlesRunsDown ==
    ASSUME req \in [Requests -> Progress], NEW r \in Requests, NEW t, NEW b, Handles(r, t, b)
    PROVE  req'[r].pc \in {"idle", "refused", "answered", "calling"}
<1>1. CASE UNCHANGED completions /\ (\/ req' = [req EXCEPT ![r] = Idle]
                                     \/ req' = [req EXCEPT ![r] = Refused])
  BY <1>1 DEF Idle, Refused
<1>2. CASE \E q : req' = [req EXCEPT ![r] = [pc |-> "calling", tenant |-> t, body |-> q]]
  BY <1>2
<1>3. CASE \E q, e : Hits(r, t, q, e)
  BY <1>3 DEF Hits
<1> QED
  BY <1>1, <1>2, <1>3 DEF Handles

\* Every step of a request takes it on.
LEMMA StepRunsDown ==
    ASSUME TypeOK, NEW r \in Requests, Step(r)
    PROVE  StepsLeft(req'[r]) < StepsLeft(req[r])
<1>1. req \in [Requests -> Progress]
  BY DEF TypeOK
<1>2. ASSUME Limited(r) \/ LimiterFails(r) \/ QueryFails(r) \/ OverBudget(r) \/ ProviderFails(r)
             \/ ChargeFails(r)
      PROVE  /\ req[r].pc \in {"limits", "budget", "calling", "charging"}
             /\ req'[r].pc \in {"refused", "failed"}
  <2>1. req[r].pc \in {"limits", "budget", "calling", "charging"}
    BY <1>2 DEF Limited, LimiterFails, QueryFails, OverBudget, ProviderFails, ChargeFails, At
  <2>2. PICK q \in {Refused, Failed(FALSE), Failed(TRUE)} : req' = [req EXCEPT ![r] = q]
    BY <1>2 DEF Limited, LimiterFails, QueryFails, OverBudget, ProviderFails, ChargeFails
  <2>3. req'[r] = q
    BY <1>1, <2>2
  <2>4. q.pc \in {"refused", "failed"}
    BY <2>2 DEF Refused, Failed
  <2> QED
    BY <2>1, <2>3, <2>4
<1>3. ASSUME WithinLimits(r)
      PROVE  req[r].pc = "limits" /\ req'[r].pc \in {"idle", "refused", "answered", "calling", "budget"}
  BY <1>1, <1>3, HandlesRunsDown DEF WithinLimits, At
<1>4. ASSUME UnderBudget(r)
      PROVE  req[r].pc = "budget" /\ req'[r].pc \in {"idle", "refused", "answered", "calling"}
  BY <1>1, <1>4, HandlesRunsDown DEF UnderBudget, At
<1>5. ASSUME NEW name \in Names, ProviderAnswers(r, name)
      PROVE  req[r].pc = "calling" /\ req'[r].pc = "charging"
  BY <1>1, <1>5 DEF ProviderAnswers, At
<1>6. ASSUME TokensRecorded(r) PROVE req[r].pc = "charging" /\ req'[r].pc = "inserting"
  BY <1>1, <1>6 DEF TokensRecorded, At
<1>7. ASSUME InsertCommits(r) \/ InsertFails(r)
      PROVE  req[r].pc = "inserting" /\ req'[r].pc = "recorded"
  BY <1>1, <1>7 DEF InsertCommits, InsertFails, Inserted, At
<1>8. ASSUME Answers(r) PROVE req[r].pc = "recorded" /\ req'[r].pc = "answered"
  BY <1>1, <1>8 DEF Answers, At
<1>9. /\ req[r].pc \in {"limits", "budget", "calling", "charging"} => StepsLeft(req[r]) > 2
      /\ req'[r].pc \in {"idle", "refused", "answered", "failed"} => StepsLeft(req'[r]) = 0
      /\ req'[r].pc = "calling" => StepsLeft(req'[r]) = 4
  BY StepsLeftIs
<1> QED
  BY <1>1, <1>2, <1>3, <1>4, <1>5, <1>6, <1>7, <1>8, <1>9, StepsLeftIs DEF Step

\* A request runs down: each of its steps, failures included, takes it nearer
\* to its end, and nothing that other requests or pods do takes it back; a
\* restart ends it (get_current_tenant, chat_completions).  It remains of
\* EveryRequestEnds that the steps are taken.
THEOREM RequestsRunDown ==
    Spec => /\ [](\A r \in Requests : StepsLeft(req[r]) \in 0 .. 6)
            /\ [][\A r \in Requests : RunsDown(r)]_vars
<1>1. Inv => \A r \in Requests : StepsLeft(req[r]) \in 0 .. 6
  <2> SUFFICES ASSUME Inv, NEW r \in Requests PROVE StepsLeft(req[r]) \in 0 .. 6
    OBVIOUS
  <2>1. req[r] \in Progress
    BY DEF Inv, TypeOK
  <2>2. req[r].pc \in {"idle", "refused", "answered", "failed", "limits", "budget", "calling",
                      "charging", "inserting", "recorded"}
    BY <2>1 DEF Progress, Idle, Refused
  <2> QED
    BY <2>2, StepsLeftIs
<1>2. Inv /\ [Next]_vars => [\A r \in Requests : RunsDown(r)]_vars
  <2> SUFFICES ASSUME Inv, Next, NEW r \in Requests PROVE RunsDown(r)
    OBVIOUS
  <2>1. TypeOK /\ req \in [Requests -> Progress]
    BY DEF Inv, TypeOK
  <2>2. Step(r) => StepsLeft(req'[r]) < StepsLeft(req[r])
    BY <2>1, StepRunsDown
  <2>3. ASSUME Busy(r), ~Step(r) PROVE req'[r] \in {req[r], Idle}
    <3>1. ASSUME NEW s \in Requests, NEW b, ArriveOpen(s, b) \/ Arrive(s, b) \/ ArriveUnknown(s)
          PROVE  req'[r] = req[r]
      <4>1. s # r
        BY <2>3, <3>1 DEF ArriveOpen, Arrive, ArriveUnknown
      <4> QED
        BY <2>1, <3>1, <4>1 DEF ArriveOpen, Arrive, ArriveUnknown, Handles, Hits
    <3>2. ASSUME NEW s \in Requests, Step(s) PROVE req'[r] = req[r]
      <4>1. s # r
        BY <2>3, <3>2
      <4>2. ASSUME NEW t, NEW b, Handles(s, t, b) PROVE req'[r] = req[r]
        BY <2>1, <4>1, <4>2 DEF Handles, Hits
      <4>3. ASSUME WithinLimits(s) \/ UnderBudget(s) PROVE req'[r] = req[r]
        BY <2>1, <4>1, <4>2, <4>3 DEF WithinLimits, UnderBudget
      <4>4. ASSUME \/ Limited(s) \/ LimiterFails(s) \/ QueryFails(s) \/ OverBudget(s)
                   \/ ProviderFails(s) \/ \E name \in Names : ProviderAnswers(s, name)
                   \/ TokensRecorded(s) \/ ChargeFails(s) \/ InsertCommits(s) \/ InsertFails(s)
                   \/ Answers(s)
            PROVE  req'[r] = req[r]
        BY <2>1, <4>1, <4>4
        DEF Limited, LimiterFails, QueryFails, OverBudget, ProviderFails, ProviderAnswers,
            TokensRecorded, ChargeFails, InsertCommits, InsertFails, Inserted, Answers
      <4> QED
        BY <3>2, <4>3, <4>4 DEF Step
    <3>3. ASSUME NEW p \in Pods, Restart(p) PROVE req'[r] \in {req[r], Idle}
      BY <2>1, <3>3 DEF Restart
    <3> QED
      BY <3>1, <3>2, <3>3 DEF Next
  <2> QED
    BY <2>2, <2>3 DEF RunsDown
<1> QED
  BY <1>1, <1>2, Invariance, PTL DEF Spec
=============================================================================
