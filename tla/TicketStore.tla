----------------------------- MODULE TicketStore -----------------------------
(***************************************************************************)
(* TicketStore instances sharing one Redis: the buy scripts of every node, *)
(* interleaved with resets, on Redis' own clock.  A purchase may be sent   *)
(* any number of times, to any store: this is what redelivery by RabbitMQ  *)
(* and a retry by NGINX or a client look like from here.                   *)
(***************************************************************************)
EXTENDS RedisBackend

CONSTANTS
    Deliveries,     \* bound: the counts of a metric namespace that admit one more buy
    MaxClock        \* bound: the largest value TIME returns

ASSUME BoundsAssumption == Deliveries \subseteq Nat /\ MaxClock \in Nat

VARIABLES
    db,         \* the Redis keys
    clock,      \* the last reading of TIME
    answers,    \* the statuses buy_* has returned for each purchase
    forgotten,  \* history: the ledger entries at the last reset_metrics
    slipped     \* history: was the clock set back since the metrics were cleared?

vars == <<db, clock, answers, forgotten, slipped>>

\* The ledger: the (ticket model, request id) pairs with a given outcome.
Ledger(status) ==
    {e \in Kinds \X Requests : db.processed[e[1]][e[2]] = status}
Sold(kind) == {r \in Requests : db.processed[kind][r] = "OK"}

\* No two purchases of a ticket model share a request id.
UniqueRequestIds ==
    \A p, q \in Purchases : p.type = q.type /\ p.request_id = q.request_id => p = q

\* TIME is a wall clock: its next reading t may be lower than the last.
ReadClock(t) ==
    /\ clock' = t
    /\ slipped' = (slipped \/ t < clock)

Init ==
    /\ db = EmptyDb
    /\ clock = 0
    /\ answers = [p \in Purchases |-> {}]
    /\ forgotten = {}
    /\ slipped = FALSE

\* Store s runs the script of p's ticket model and returns its outcome.
Attempt(s, p) ==
    /\ db.metrics[s.arch].count \in Deliveries
    /\ \E t1 \in 0..MaxClock : ReadClock(t1) /\ db' = Buy(db, s, p, clock, t1)
    /\ answers' = [answers EXCEPT ![p] = @ \cup {Outcome(Sell(db, p), p)}]
    /\ UNCHANGED forgotten

BuyUnnumbered(s, p) == p.type = "unnumbered" /\ Attempt(s, p)

BuyNumbered(s, p) == p.type = "numbered" /\ Attempt(s, p)

\* Time passes between two scripts.
Tick ==
    /\ \E t \in 0..MaxClock : ReadClock(t)
    /\ UNCHANGED <<db, answers, forgotten>>

\* reset_all: one DEL of every key.  The answers of a fresh run are new.
ResetAll ==
    /\ db' = EmptyDb
    /\ answers' = [p \in Purchases |-> {}]
    /\ forgotten' = {}
    /\ slipped' = FALSE
    /\ UNCHANGED clock

\* reset_metrics: the tickets and the dedup state stay.
ResetMetrics ==
    /\ db' = ClearMetrics(db)
    /\ forgotten' = Ledger("OK") \cup Ledger("REJECTED")
    /\ slipped' = FALSE
    /\ UNCHANGED <<clock, answers>>

Next ==
    \/ \E s \in Stores, p \in Purchases : BuyUnnumbered(s, p) \/ BuyNumbered(s, p)
    \/ Tick
    \/ ResetAll
    \/ ResetMetrics

Spec == Init /\ [][Next]_vars

-----------------------------------------------------------------------------
TypeOK ==
    /\ db \in Db
    /\ clock \in Nat
    /\ answers \in [Purchases -> SUBSET Outcomes]
    /\ forgotten \subseteq Kinds \X Requests
    /\ slipped \in BOOLEAN

\* The counter and the dedup hash are two records of the same sales: the
\* number of tickets sold is the number of requests whose outcome is OK, and
\* never more than the capacity, however often requests are replayed
\* (redis_backend.py:99-112).
NoOverselling ==
    /\ db.sold = Cardinality(Sold("unnumbered"))
    /\ db.sold <= TOTAL_TICKETS

\* The same for numbered tickets: as many seats are taken as requests were
\* granted one, so no request took a second seat and no seat was taken twice
\* (redis_backend.py:125-131).
OneSeatPerSale == Cardinality(db.seats) = Cardinality(Sold("numbered"))

\* A purchase delivered again gets the answer it got first
\* (tests/test_backend_fakeredis.py:74,95).
AnswersAgree ==
    \A p \in Purchases : answers[p] \subseteq {Outcome(db, p)}

\* Nobody is turned away while a ticket is left: a purchase answered REJECTED
\* met a sold-out counter or a seat that is taken.
NoSpuriousRejection ==
    \A p \in Purchases : "REJECTED" \in answers[p] =>
        IF p.type = "unnumbered" THEN db.sold = TOTAL_TICKETS
                                 ELSE p.seat_id \in db.seats

\* No two buyers are both told OK for one seat, and no more buyers are told
\* OK for unnumbered tickets than there are tickets.
Told(kind) == {p \in Purchases : p.type = kind /\ "OK" \in answers[p]}

NoDoubleSell ==
    /\ \A p, q \in Told("numbered") : p.seat_id = q.seat_id => p = q
    /\ Cardinality(Told("unnumbered")) <= TOTAL_TICKETS

\* The metrics of both namespaces account for every ledger entry made since
\* the metrics were last cleared, once, under the outcome it got; what
\* read_metrics derives as unique_requests is exactly that
\* (redis_backend.py:65-72, 265-269).
MetricsMatchLedger ==
    LET m == db.metrics
    IN /\ m["direct"].ok + m["indirect"].ok = Cardinality(Ledger("OK") \ forgotten)
       /\ m["direct"].rejected + m["indirect"].rejected
             = Cardinality(Ledger("REJECTED") \ forgotten)
       /\ \A a \in ARCHITECTURES :
             m[a].count = m[a].ok + m[a].rejected + m[a].replays

\* Every service time lies between the recorded extremes, so the average
\* read_metrics derives does too (redis_backend.py:73-79, 272-274).
LatencyBounds ==
    \A a \in ARCHITECTURES :
        LET m == db.metrics[a]
        IN m.count > 0 => /\ 0 <= m.lat_min
                          /\ m.count * m.lat_min <= m.lat_sum
                          /\ m.lat_sum <= m.count * m.lat_max

\* Redis runs one script at a time, so unless the clock was set back (which
\* can even make it negative) the processing window read_metrics
\* divides by is at least the time spent serving all requests but the one it
\* starts at the end of (redis_backend.py:81-84, 259).
WindowCoversService ==
    \A a \in ARCHITECTURES :
        LET m == db.metrics[a]
        IN m.count > 0 /\ ~slipped => m.lat_sum - m.lat_max <= m.last_ts - m.first_ts

\* The store implements the abstract sale: each script decides one purchase
\* or replays a decision.
Sale == INSTANCE TicketSale WITH
            outcome <- [p \in Purchases |-> Outcome(db, p)]
ImplementsSale == Sale!Spec
=============================================================================
