------------------------------- MODULE MCCache -------------------------------
(* Six bodies: a base; one that differs from it in its sampling only, one in *)
(* its model only, one in the name of a message only; one that says          *)
(* something similar, and one that says something similar to that, but not   *)
(* to the base.  And the base with what cache_key leaves out changed: the    *)
(* name of a message, the stop sequences, or the user.                      *)
EXTENDS Cache

Capital == "capital of France?"
Paraphrase == "what's the capital of France"
France == "what is France"

MCModels == {"gpt-4o", "auto"}
MCTexts == {Capital, Paraphrase, France}

Place == [p \in MCTexts |-> CASE p = Capital -> 0 [] p = Paraphrase -> 1 [] p = France -> 2]

Distance(p, q) == IF p > q THEN p - q ELSE q - p

MCSimilarity == [p \in MCTexts |-> [q \in MCTexts |-> 10 - Distance(Place[p], Place[q])]]

Base == [model |-> "gpt-4o", messages |-> [said |-> Capital, marks |-> "none"],
         sampling |-> "cold", stop |-> "none", user |-> "none"]

Named == [Base EXCEPT !.messages.marks = "name"]

MCQueries ==
    {Base, Named, [Base EXCEPT !.sampling = "hot"], [Base EXCEPT !.model = "auto"],
     [Base EXCEPT !.messages.said = Paraphrase], [Base EXCEPT !.messages.said = France]}

MCUnhashedQueries ==
    {Base, Named, [Base EXCEPT !.stop = "newline"], [Base EXCEPT !.user = "alice"]}
\* The slots for requests are alike.
Symmetry == Permutations(Requests)
=============================================================================
