-------------------------- MODULE RedisBackendProofs --------------------------
(***************************************************************************)
(* Lemmas about what the buy scripts of RedisBackend do to the keys, for   *)
(* any database, store and purchase.                                       *)
(***************************************************************************)
EXTENDS RedisBackend, FiniteSetTheorems, TLAPS

\* The ledger after a new decision.
LEMMA RecordOutcomeType ==
    ASSUME NEW d \in Db, NEW k \in Kinds, NEW r \in Requests, NEW o \in Outcomes
    PROVE  [d.processed EXCEPT ![k][r] = o] \in [Kinds -> [Requests -> Outcomes \cup {"nil"}]]
<1>1. d.processed \in [Kinds -> [Requests -> Outcomes \cup {"nil"}]]
  BY DEF Db
<1>2. [d.processed[k] EXCEPT ![r] = o] \in [Requests -> Outcomes \cup {"nil"}]
  BY <1>1
<1> QED
  BY <1>1, <1>2

\* A script leaves well-formed keys, and selling leaves the metrics alone.
LEMMA SellType ==
    ASSUME NEW d \in Db, NEW p \in Purchases
    PROVE  /\ Sell(d, p) \in Db
           /\ Sell(d, p).metrics = d.metrics
           /\ Sell(d, p).nodes = d.nodes
<1> DEFINE r == p.request_id
           P(k, o) == [d.processed EXCEPT ![k][r] = o]
<1>1. p.type \in Kinds /\ r \in Requests /\ p.seat_id \in Seats
  BY PurchasesAssumption DEF Requests, Seats
<1>2. ASSUME NEW k \in Kinds, NEW o \in Outcomes
      PROVE  P(k, o) \in [Kinds -> [Requests -> Outcomes \cup {"nil"}]]
  BY <1>1, RecordOutcomeType
<1>3. ASSUME NEW n \in Nat, NEW seats \in SUBSET Seats, NEW k \in Kinds, NEW o \in Outcomes,
             Sell(d, p) = [d EXCEPT !.sold = n, !.seats = seats, !.processed = P(k, o)]
      PROVE  Sell(d, p) \in Db /\ Sell(d, p).metrics = d.metrics /\ Sell(d, p).nodes = d.nodes
  <2> HIDE DEF P
  <2>1. P(k, o) \in [Kinds -> [Requests -> Outcomes \cup {"nil"}]]
    BY <1>2, <1>3
  <2>2. /\ Sell(d, p) = [d EXCEPT !.sold = n, !.seats = seats, !.processed = P(k, o)]
        /\ n \in Nat /\ seats \in SUBSET Seats
    BY <1>3
  <2> QED  BY <2>1, <2>2, Zenon DEF Db
<1>4. d.sold \in Nat /\ d.seats \in SUBSET Seats /\ d.sold + 1 \in Nat
        /\ d.seats \cup {p.seat_id} \in SUBSET Seats
  BY <1>1 DEF Db
<1>5. Sell(d, p) = d \/ \E n \in Nat, seats \in SUBSET Seats, k \in Kinds, o \in Outcomes :
        Sell(d, p) = [d EXCEPT !.sold = n, !.seats = seats, !.processed = P(k, o)]
  <2>1. SellUnnumbered(d, p) \in
          {d, [d EXCEPT !.sold = d.sold + 1, !.seats = d.seats,
                        !.processed = P("unnumbered", "OK")],
              [d EXCEPT !.sold = d.sold, !.seats = d.seats,
                        !.processed = P("unnumbered", "REJECTED")]}
    BY DEF SellUnnumbered, SellBelow, Db
  <2>2. SellNumbered(d, p) \in
          {d, [d EXCEPT !.sold = d.sold, !.seats = d.seats \cup {p.seat_id},
                        !.processed = P("numbered", "OK")],
              [d EXCEPT !.sold = d.sold, !.seats = d.seats,
                        !.processed = P("numbered", "REJECTED")]}
    BY DEF SellNumbered, Db
  <2> HIDE DEF P
  <2> QED  BY <2>1, <2>2, <1>4 DEF Sell, Kinds, Outcomes
<1> HIDE DEF P
<1> QED
  BY <1>3, <1>5

\* Recording a buy keeps the metrics hash well formed.
LEMMA RecordMetricsType ==
    ASSUME NEW m \in Metrics, NEW replay \in BOOLEAN, NEW outcome,
           NEW t0 \in Nat, NEW t1 \in Nat
    PROVE  RecordMetrics(m, replay, outcome, t0, t1) \in Metrics
<1> DEFINE lat == Latency(t0, t1)
<1>1. lat \in Nat
  BY DEF Latency
<1> HIDE DEF lat
<1> QED
  BY <1>1 DEF RecordMetrics, Metrics, Absent, lat

\* Buy is Sell with bookkeeping: the tickets and the ledger are Sell's.
LEMMA BuyType ==
    ASSUME NEW d \in Db, NEW s \in Stores, NEW p \in Purchases,
           NEW t0 \in Nat, NEW t1 \in Nat
    PROVE  /\ Buy(d, s, p, t0, t1) \in Db
           /\ Buy(d, s, p, t0, t1).sold = Sell(d, p).sold
           /\ Buy(d, s, p, t0, t1).seats = Sell(d, p).seats
           /\ Buy(d, s, p, t0, t1).processed = Sell(d, p).processed
<1> DEFINE after == Sell(d, p)
           m == RecordMetrics(after.metrics[s.arch], IsReplay(d, p), Outcome(after, p), t0, t1)
           M == [after.metrics EXCEPT ![s.arch] = m]
           L == [after.nodes EXCEPT ![s.arch][s.node_id] = @ + 1]
<1>1. after \in Db
  BY SellType
<1>2. s.arch \in ARCHITECTURES /\ s.node_id \in Nodes
  BY StoresAssumption DEF Nodes
<1>3. m \in Metrics
  BY <1>1, <1>2, RecordMetricsType DEF Db, IsReplay
<1>4. M \in [ARCHITECTURES -> Metrics]
  <2> HIDE DEF m, after
  <2> QED  BY <1>1, <1>2, <1>3 DEF Db
<1>5. L \in [ARCHITECTURES -> [Nodes -> Nat]]
  <2> HIDE DEF after
  <2>1. after.nodes \in [ARCHITECTURES -> [Nodes -> Nat]]
    BY <1>1 DEF Db
  <2>2. [after.nodes[s.arch] EXCEPT ![s.node_id] = @ + 1] \in [Nodes -> Nat]
    BY <2>1, <1>2
  <2> QED  BY <2>1, <2>2, <1>2
<1>6. Buy(d, s, p, t0, t1) = [after EXCEPT !.metrics = M, !.nodes = L]
  BY <1>1 DEF Buy, Db
<1> HIDE DEF after, M, L
<1> QED
  BY <1>1, <1>4, <1>5, <1>6 DEF Db, after

\* What reset_all leaves is well formed.
LEMMA EmptyDbType == EmptyDb \in Db
BY DEF EmptyDb, Db, NoMetrics, NoLoad, EmptyMetrics, Metrics, Absent

\* reset_metrics touches the metrics only.
LEMMA ClearMetricsType ==
    ASSUME NEW d \in Db
    PROVE  /\ ClearMetrics(d) \in Db
           /\ ClearMetrics(d).sold = d.sold
           /\ ClearMetrics(d).seats = d.seats
           /\ ClearMetrics(d).processed = d.processed
BY DEF ClearMetrics, Db, NoMetrics, NoLoad, EmptyMetrics, Metrics, Absent

\* After a script the request has an outcome, old or new.
LEMMA SellDecides ==
    ASSUME NEW d \in Db, NEW p \in Purchases
    PROVE  Outcome(Sell(d, p), p) \in Outcomes
<1>1. p.type \in Kinds /\ p.request_id \in Requests
  BY PurchasesAssumption DEF Requests
<1>2. CASE IsReplay(d, p)
  <2>1. Sell(d, p) = d
    BY <1>2 DEF Sell, SellUnnumbered, SellBelow, SellNumbered
  <2>2. Outcome(d, p) \in Outcomes \cup {"nil"} /\ Outcome(d, p) # "nil"
    BY <1>1, <1>2 DEF Db, Outcome, IsReplay
  <2> QED  BY <2>1, <2>2
<1>3. CASE ~IsReplay(d, p)
  BY <1>1, <1>3 DEF Sell, SellUnnumbered, SellBelow, SellNumbered, Outcome, Outcomes, Db, Kinds
<1> QED
  BY <1>2, <1>3

\* The metrics after a buy: one namespace has recorded it.
LEMMA BuyMetrics ==
    ASSUME NEW d \in Db, NEW s \in Stores, NEW p \in Purchases,
           NEW t0 \in Nat, NEW t1 \in Nat
    PROVE  Buy(d, s, p, t0, t1).metrics =
              [d.metrics EXCEPT ![s.arch] =
                  RecordMetrics(@, IsReplay(d, p), Outcome(Sell(d, p), p), t0, t1)]
<1>1. Sell(d, p) \in Db /\ Sell(d, p).metrics = d.metrics
  BY SellType
<1> DEFINE after == Sell(d, p)
<1> HIDE DEF after
<1>2. after \in Db => [after EXCEPT
          !.metrics[s.arch] =
              RecordMetrics(@, IsReplay(d, p), Outcome(after, p), t0, t1),
          !.nodes[s.arch][s.node_id] = @ + 1].metrics =
        [after.metrics EXCEPT ![s.arch] =
            RecordMetrics(@, IsReplay(d, p), Outcome(after, p), t0, t1)]
  BY DEF Db
<1> QED
  BY <1>1, <1>2 DEF Buy, after

\* After a buy its node has one more, and nobody else has.
LEMMA BuyLoad ==
    ASSUME NEW d \in Db, NEW s \in Stores, NEW p \in Purchases,
           NEW t0 \in Nat, NEW t1 \in Nat
    PROVE  LET e == Buy(d, s, p, t0, t1)
           IN /\ e.nodes[s.arch][s.node_id] = d.nodes[s.arch][s.node_id] + 1
              /\ \A n \in Nodes : n # s.node_id => e.nodes[s.arch][n] = d.nodes[s.arch][n]
              /\ \A a \in ARCHITECTURES, n \in Nodes :
                    a # s.arch => e.nodes[a][n] = d.nodes[a][n]
<1>1. Sell(d, p) \in Db /\ Sell(d, p).nodes = d.nodes
  BY SellType
<1> DEFINE after == Sell(d, p)
<1> HIDE DEF after
<1>2. after \in Db => [after EXCEPT
          !.metrics[s.arch] =
              RecordMetrics(@, IsReplay(d, p), Outcome(after, p), t0, t1),
          !.nodes[s.arch][s.node_id] = @ + 1].nodes =
        [after.nodes EXCEPT ![s.arch][s.node_id] = @ + 1]
  BY DEF Db
<1>3. Buy(d, s, p, t0, t1).nodes = [d.nodes EXCEPT ![s.arch][s.node_id] = @ + 1]
  BY <1>1, <1>2 DEF Buy, after
<1>4. /\ d.nodes \in [ARCHITECTURES -> [Nodes -> Nat]]
      /\ s.arch \in ARCHITECTURES /\ s.node_id \in Nodes
  BY StoresAssumption DEF Db, Nodes
<1> QED
  BY <1>3, <1>4

-----------------------------------------------------------------------------
\* What a script does to the tickets and to the ledger.
Decided(d, e, p, o) == e.processed = [d.processed EXCEPT ![p.type][p.request_id] = o]

\* All that a buy script may do to tickets and ledger: nothing for a replay, else grant
\* and record, or reject and record.
LEMMA SellCases ==
    ASSUME NEW d \in Db, NEW p \in Purchases
    PROVE  LET e == Sell(d, p)
           IN \/ IsReplay(d, p) /\ e = d
              \/ /\ ~IsReplay(d, p) /\ p.type = "unnumbered" /\ d.sold < TOTAL_TICKETS
                 /\ e.sold = d.sold + 1 /\ e.seats = d.seats /\ Decided(d, e, p, "OK")
              \/ /\ ~IsReplay(d, p) /\ p.type = "unnumbered" /\ ~(d.sold < TOTAL_TICKETS)
                 /\ e.sold = d.sold /\ e.seats = d.seats /\ Decided(d, e, p, "REJECTED")
              \/ /\ ~IsReplay(d, p) /\ p.type = "numbered" /\ p.seat_id \notin d.seats
                 /\ e.sold = d.sold /\ e.seats = d.seats \cup {p.seat_id}
                 /\ Decided(d, e, p, "OK")
              \/ /\ ~IsReplay(d, p) /\ p.type = "numbered" /\ p.seat_id \in d.seats
                 /\ e.sold = d.sold /\ e.seats = d.seats /\ Decided(d, e, p, "REJECTED")
<1>1. p.type \in {"unnumbered", "numbered"}
  BY PurchasesAssumption DEF Kinds
<1>2. CASE IsReplay(d, p)
  BY <1>2 DEF Sell, SellUnnumbered, SellBelow, SellNumbered
<1>3. CASE ~IsReplay(d, p) /\ p.type = "unnumbered"
  BY <1>3 DEF Sell, SellUnnumbered, SellBelow, Decided, Db
<1>4. CASE ~IsReplay(d, p) /\ p.type = "numbered"
  BY <1>4 DEF Sell, SellNumbered, Decided, Db
<1> QED
  BY <1>1, <1>2, <1>3, <1>4

\* A decision stands: a script changes the outcome of its own request only,
\* and only if it had none.
LEMMA OutcomesStand ==
    ASSUME NEW d \in Db, NEW p \in Purchases, NEW q \in Purchases
    PROVE  Outcome(d, q) # "nil" => Outcome(Sell(d, p), q) = Outcome(d, q)
<1>1. /\ p.type \in Kinds /\ p.request_id \in Requests
      /\ q.type \in Kinds /\ q.request_id \in Requests
  BY PurchasesAssumption DEF Requests
<1>2. CASE IsReplay(d, p)
  BY <1>2 DEF Sell, SellUnnumbered, SellBelow, SellNumbered
<1>3. ASSUME ~IsReplay(d, p), NEW o, Decided(d, Sell(d, p), p, o), Outcome(d, q) # "nil"
      PROVE  Outcome(Sell(d, p), q) = Outcome(d, q)
  <2>1. d.processed \in [Kinds -> [Requests -> Outcomes \cup {"nil"}]]
    BY DEF Db
  <2>2. p.type # q.type \/ p.request_id # q.request_id
    BY <1>3 DEF IsReplay, Outcome
  <2> QED
    BY <1>1, <1>3, <2>1, <2>2 DEF Decided, Outcome
<1> QED
  BY <1>2, <1>3, SellCases

\* The requests of model k that the ledger of d has as o.
Entries(d, k, o) == {r \in Requests : d.processed[k][r] = o}

\* A new decision adds one request to the entries of its model and outcome,
\* and no entry disappears.
LEMMA DecidedEntries ==
    ASSUME NEW d \in Db, NEW e, NEW p \in Purchases, NEW o \in Outcomes,
           ~IsReplay(d, p), Decided(d, e, p, o), NEW k \in Kinds, NEW x \in Outcomes
    PROVE  Entries(e, k, x) = IF k = p.type /\ x = o
                              THEN Entries(d, k, x) \cup {p.request_id}
                              ELSE Entries(d, k, x)
<1>1. p.type \in Kinds /\ p.request_id \in Requests
  BY PurchasesAssumption DEF Requests
<1>2. d.processed \in [Kinds -> [Requests -> Outcomes \cup {"nil"}]]
  BY DEF Db
<1>3. d.processed[p.type][p.request_id] = "nil"
  BY DEF IsReplay, Outcome
<1>4. \A r \in Requests : e.processed[k][r] =
        IF k = p.type /\ r = p.request_id THEN o ELSE d.processed[k][r]
  BY <1>1, <1>2 DEF Decided
<1> QED
  BY <1>1, <1>3, <1>4 DEF Entries, Outcomes

\* A request that is no replay has no entry yet.
LEMMA NewRequest ==
    ASSUME NEW d \in Db, NEW p \in Purchases, ~IsReplay(d, p), NEW o \in Outcomes
    PROVE  p.request_id \notin Entries(d, p.type, o)
BY DEF IsReplay, Outcome, Entries, Outcomes

\* Counter and seats tally with the ledger's OK entries.
Tallied(d) ==
    /\ \A k \in Kinds : IsFiniteSet(Entries(d, k, "OK"))
    /\ IsFiniteSet(d.seats)
    /\ d.sold = Cardinality(Entries(d, "unnumbered", "OK")) /\ d.sold <= TOTAL_TICKETS
    /\ Cardinality(d.seats) = Cardinality(Entries(d, "numbered", "OK"))

\* After a reset nothing is sold and nothing is on record.
LEMMA EmptyTallied == Tallied(EmptyDb)
<1>1. \A k \in Kinds : Entries(EmptyDb, k, "OK") = {}
  BY DEF Entries, EmptyDb
<1>2. EmptyDb.sold = 0 /\ EmptyDb.seats = {}
  BY DEF EmptyDb
<1> QED
  BY <1>1, <1>2, FS_EmptySet, CapacityAssumption DEF Tallied, Kinds

\* A script adds to counter or seats what it adds to the ledger's OK entries.
LEMMA SellTallied ==
    ASSUME NEW d \in Db, NEW p \in Purchases, Tallied(d)
    PROVE  Tallied(Sell(d, p))
<1> DEFINE e == Sell(d, p)
<1>1. /\ \A k \in Kinds : IsFiniteSet(Entries(d, k, "OK"))
      /\ IsFiniteSet(d.seats)
      /\ d.sold = Cardinality(Entries(d, "unnumbered", "OK")) /\ d.sold <= TOTAL_TICKETS
      /\ Cardinality(d.seats) = Cardinality(Entries(d, "numbered", "OK"))
  BY DEF Tallied
<1>2. d.sold \in Nat /\ TOTAL_TICKETS \in Nat
  BY CapacityAssumption DEF Db
<1> SUFFICES
      /\ \A k \in Kinds : IsFiniteSet(Entries(e, k, "OK"))
      /\ IsFiniteSet(e.seats)
      /\ e.sold = Cardinality(Entries(e, "unnumbered", "OK")) /\ e.sold <= TOTAL_TICKETS
      /\ Cardinality(e.seats) = Cardinality(Entries(e, "numbered", "OK"))
  BY DEF Tallied
<1> HIDE DEF e
<1>3. CASE IsReplay(d, p) /\ e = d
  BY <1>1, <1>3
<1>4. CASE /\ ~IsReplay(d, p) /\ p.type = "unnumbered" /\ d.sold < TOTAL_TICKETS
           /\ e.sold = d.sold + 1 /\ e.seats = d.seats /\ Decided(d, e, p, "OK")
  <2>1. /\ Entries(e, "unnumbered", "OK") = Entries(d, "unnumbered", "OK") \cup {p.request_id}
        /\ Entries(e, "numbered", "OK") = Entries(d, "numbered", "OK")
    BY <1>4, DecidedEntries DEF Kinds, Outcomes
  <2>2. p.request_id \notin Entries(d, "unnumbered", "OK")
    BY <1>4, NewRequest DEF Outcomes
  <2>3. /\ IsFiniteSet(Entries(e, "unnumbered", "OK"))
        /\ Cardinality(Entries(e, "unnumbered", "OK")) =
              Cardinality(Entries(d, "unnumbered", "OK")) + 1
    BY <1>1, <2>1, <2>2, FS_AddElement DEF Kinds
  <2> QED
    BY <1>1, <1>2, <1>4, <2>1, <2>3 DEF Kinds
<1>5. CASE /\ ~IsReplay(d, p) /\ p.type = "numbered" /\ p.seat_id \notin d.seats
           /\ e.sold = d.sold /\ e.seats = d.seats \cup {p.seat_id}
           /\ Decided(d, e, p, "OK")
  <2>1. /\ Entries(e, "numbered", "OK") = Entries(d, "numbered", "OK") \cup {p.request_id}
        /\ Entries(e, "unnumbered", "OK") = Entries(d, "unnumbered", "OK")
    BY <1>5, DecidedEntries DEF Kinds, Outcomes
  <2>2. p.request_id \notin Entries(d, "numbered", "OK")
    BY <1>5, NewRequest DEF Outcomes
  <2>3. /\ IsFiniteSet(Entries(e, "numbered", "OK"))
        /\ Cardinality(Entries(e, "numbered", "OK")) =
              Cardinality(Entries(d, "numbered", "OK")) + 1
    BY <1>1, <2>1, <2>2, FS_AddElement DEF Kinds
  <2>4. IsFiniteSet(e.seats) /\ Cardinality(e.seats) = Cardinality(d.seats) + 1
    <3>1. /\ IsFiniteSet(d.seats) /\ p.seat_id \notin d.seats
          /\ e.seats = d.seats \cup {p.seat_id}
      BY <1>1, <1>5
    <3>2. /\ IsFiniteSet(d.seats \cup {p.seat_id})
          /\ Cardinality(d.seats \cup {p.seat_id}) = Cardinality(d.seats) + 1
      BY <3>1, FS_AddElement
    <3> QED  BY <3>1, <3>2
  <2> QED
    BY <1>1, <1>5, <2>1, <2>3, <2>4 DEF Kinds
<1>6. CASE /\ ~IsReplay(d, p) /\ Decided(d, e, p, "REJECTED")
            /\ e.sold = d.sold /\ e.seats = d.seats
  <2>1. \A k \in Kinds : Entries(e, k, "OK") = Entries(d, k, "OK")
    BY <1>6, DecidedEntries DEF Outcomes
  <2> QED
    BY <1>1, <1>6, <2>1 DEF Kinds
<1> QED
  BY <1>3, <1>4, <1>5, <1>6, SellCases DEF e

\* A script puts its own request on record and no other.
LEMMA SellRecords ==
    ASSUME NEW d \in Db, NEW p \in Purchases, NEW k \in Kinds, NEW r \in Requests,
           Sell(d, p).processed[k][r] # d.processed[k][r]
    PROVE  k = p.type /\ r = p.request_id
<1>1. /\ d.processed \in [Kinds -> [Requests -> Outcomes \cup {"nil"}]]
      /\ p.type \in Kinds /\ p.request_id \in Requests
  BY PurchasesAssumption DEF Db, Requests
<1>2. ASSUME NEW o, Decided(d, Sell(d, p), p, o) PROVE k = p.type /\ r = p.request_id
  <2>1. k # p.type \/ r # p.request_id =>
           [d.processed EXCEPT ![p.type][p.request_id] = o][k][r] = d.processed[k][r]
    BY <1>1
  <2> QED  BY <1>2, <2>1 DEF Decided
<1>3. Sell(d, p) = d \/ \E o : Decided(d, Sell(d, p), p, o)
  BY SellCases
<1> QED
  BY <1>2, <1>3

\* What a whole script does to the outcomes: it decides its own request, once,
\* and leaves the others as they are.
LEMMA BuyOutcomes ==
    ASSUME NEW d \in Db, NEW s \in Stores, NEW p \in Purchases
    PROVE  LET e == Buy(d, s, p, 0, 0)
           IN /\ e \in Db
              /\ Outcome(e, p) \in Outcomes
              /\ \A q \in Purchases : Outcome(d, q) # "nil" => Outcome(e, q) = Outcome(d, q)
              /\ \A q \in Purchases :
                    q.type # p.type \/ q.request_id # p.request_id =>
                        Outcome(e, q) = Outcome(d, q)
<1> DEFINE e == Buy(d, s, p, 0, 0)
<1>1. e \in Db /\ e.processed = Sell(d, p).processed
  BY BuyType
<1>2. \A q : Outcome(e, q) = Outcome(Sell(d, p), q)
  BY <1>1 DEF Outcome
<1>3. ASSUME NEW q \in Purchases, q.type # p.type \/ q.request_id # p.request_id
      PROVE  Outcome(Sell(d, p), q) = Outcome(d, q)
  <2>1. CASE IsReplay(d, p)
    BY <2>1 DEF Sell, SellUnnumbered, SellBelow, SellNumbered
  <2>2. CASE ~IsReplay(d, p)
    <3>1. PICK o \in Outcomes : Decided(d, Sell(d, p), p, o)
      BY <2>2, SellCases DEF Outcomes
    <3>2. /\ d.processed \in [Kinds -> [Requests -> Outcomes \cup {"nil"}]]
          /\ p.type \in Kinds /\ p.request_id \in Requests
          /\ q.type \in Kinds /\ q.request_id \in Requests
      BY PurchasesAssumption DEF Db, Requests
    <3> QED  BY <1>3, <3>1, <3>2 DEF Decided, Outcome
  <2> QED  BY <2>1, <2>2
<1>4. Outcome(Sell(d, p), p) \in Outcomes
  BY SellDecides
<1> HIDE DEF e
<1>5. \A q \in Purchases : Outcome(d, q) # "nil" => Outcome(e, q) = Outcome(d, q)
  BY <1>2, OutcomesStand
<1>6. Outcome(e, p) \in Outcomes
  BY <1>2, <1>4
<1>7. \A q \in Purchases : q.type # p.type \/ q.request_id # p.request_id =>
          Outcome(e, q) = Outcome(d, q)
  BY <1>2, <1>3
<1> QED
  BY <1>1, <1>5, <1>6, <1>7 DEF e

\* A fresh database has decided nothing.
LEMMA EmptyOutcomes == \A p \in Purchases : Outcome(EmptyDb, p) = "nil"
BY PurchasesAssumption DEF Outcome, EmptyDb, Requests
=============================================================================
