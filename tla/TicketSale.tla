----------------------------- MODULE TicketSale -----------------------------
(***************************************************************************)
(* What the ticket backend promises, whatever runs it: every purchase is   *)
(* decided once, an unnumbered one is granted exactly while tickets are    *)
(* left and a numbered one exactly while its seat is free.  Nothing here   *)
(* counts, stores seats or knows of retries: the outcomes are the state.   *)
(***************************************************************************)
EXTENDS Integers, FiniteSets

CONSTANTS TOTAL_TICKETS, Purchases

VARIABLE outcome    \* [Purchases -> {"nil", "OK", "REJECTED"}]

Granted(kind) == {p \in Purchases : p.type = kind /\ outcome[p] = "OK"}

\* May p still be granted?
Available(p) ==
    IF p.type = "unnumbered"
    THEN Cardinality(Granted("unnumbered")) < TOTAL_TICKETS
    ELSE \A q \in Granted("numbered") : q.seat_id # p.seat_id

Init == outcome = [p \in Purchases |-> "nil"]

Decide(p) ==
    /\ outcome[p] = "nil"
    /\ outcome' = [outcome EXCEPT ![p] = IF Available(p) THEN "OK" ELSE "REJECTED"]

\* A fresh run forgets every outcome.
Reset == outcome' = [p \in Purchases |-> "nil"]

Next == Reset \/ \E p \in Purchases : Decide(p)

Spec == Init /\ [][Next]_outcome
=============================================================================
