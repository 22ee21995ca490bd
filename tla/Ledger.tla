-------------------------------- MODULE Ledger --------------------------------
(* What the books of the gateway promise about the completions that are paid *)
(* for upstream, whatever requests, pods, Redis and the database do: every   *)
(* completion belongs to one tenant, is entered in each of its books once,   *)
(* before it is closed, and is missing in a book only for a reason that      *)
(* excuses that book.                                                       *)
EXTENDS Naturals, Sequences

CONSTANTS
    Tenants,
    Books      \* what a completion can be entered in

VARIABLE
    entries    \* the completions, in the order they were paid for

Entry ==
    [tenant  : Tenants,
     due     : SUBSET Books,       \* the books it has to be entered in,
     times   : [Books -> Nat],     \* how often it was,
     excused : SUBSET Books,       \* and where a fault got in the way
     open    : BOOLEAN]

NewEntry(t, due) ==
    [tenant |-> t, due |-> due, times |-> [b \in Books |-> 0], excused |-> {},
     open |-> TRUE]

Entered(e) == {b \in Books : e.times[b] = 1}

\* An entry goes on only while it is open.
GoesOn(e, f) ==
    /\ e.open
    /\ f.tenant = e.tenant
    /\ f.due = e.due
    /\ e.excused \subseteq f.excused
    /\ \A b \in Books : f.times[b] = e.times[b] \/ (e.times[b] = 0 /\ f.times[b] = 1)
    /\ Entered(f) \subseteq e.due
    /\ f.open \/ e.due \subseteq Entered(f) \cup f.excused

\* Another completion is paid for.
Pay(old, new) ==
    /\ Len(new) = Len(old) + 1
    /\ \A i \in DOMAIN old : new[i] = old[i]
    /\ \E t \in Tenants, due \in SUBSET Books : new[Len(new)] = NewEntry(t, due)

KeepBooks(old, new) ==
    /\ Len(new) = Len(old)
    /\ \A i \in DOMAIN old : new[i] = old[i] \/ GoesOn(old[i], new[i])

Init == entries = <<>>

Next ==
    LET old == entries
        new == entries'
    IN  Pay(old, new) \/ KeepBooks(old, new)

Spec == Init /\ [][Next]_entries
=============================================================================
