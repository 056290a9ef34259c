--------------------------- MODULE MC_TicketStore ---------------------------
(***************************************************************************)
(* Instances of TicketStore for TLC.  Two seats and two tickets are the    *)
(* least at which a seat can be free while another is taken, and at which  *)
(* a ticket can be left after the first sale.                              *)
(***************************************************************************)
EXTENDS TicketStore

U(c, r) == [type |-> "unnumbered", client_id |-> c, seat_id |-> "", request_id |-> r]
N(c, s, r) == [type |-> "numbered", client_id |-> c, seat_id |-> s, request_id |-> r]

\* As many requests of each model as exhaust it and one more.  The two
\* models share request ids on purpose: each has a dedup hash of its own.
MixedPurchases ==
    {U("c1", "r1"), U("c2", "r2"), U("c3", "r3"),
     N("c1", "A", "r1"), N("c2", "A", "r2"), N("c3", "B", "r3")}

\* Enough purchases to compare service times, and no more.
TimedPurchases == {U("c1", "r1"), N("c1", "A", "r2")}

\* Two lines of a benchmark for which _uid() returned the same eight digits.
CollidingPurchases == {N("c1", "A", "r1"), N("c2", "A", "r1"), N("c3", "B", "r2")}

OneEach ==
    {[node_id |-> "w1", arch |-> "indirect"], [node_id |-> "s1", arch |-> "direct"]}
=============================================================================
