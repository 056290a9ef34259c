-------------------------- MODULE SharedStoreProofs --------------------------
(***************************************************************************)
(* Proofs about SharedStore: whatever touches the keys with nothing but    *)
(* buy scripts and resets implements TicketStore, so what is proved of     *)
(* that holds of it.  The proofs about the two architectures show that     *)
(* they are such systems.                                                  *)
(***************************************************************************)
EXTENDS SharedStore, RedisBackendProofs

\* All that a system may do to the keys in one step.
Touched ==
    \/ db' = db
    \/ db' = EmptyDb
    \/ \E s \in Stores, p \in Purchases : db' = Buy(db, s, p, 0, 0)

\* A system that touches them in no other way.
Keys == db = EmptyDb /\ [][Touched]_db

\* The operators of the instance are those of RedisBackend.
LEMMA StoreOperators ==
    /\ Store!EmptyDb = EmptyDb
    /\ \A d, p : Store!Outcome(d, p) = Outcome(d, p)
    /\ \A d, p : Store!Sell(d, p) = Sell(d, p)
    /\ \A d, s, p : Store!Buy(d, s, p, 0, 0) = Buy(d, s, p, 0, 0)
<1>1. Store!EmptyDb = EmptyDb
  BY DEF Store!EmptyDb, EmptyDb, Store!Kinds, Kinds, Store!Requests, Requests, Store!NoMetrics,
         NoMetrics, Store!NoLoad, NoLoad, Store!ARCHITECTURES, ARCHITECTURES, Store!Nodes, Nodes,
         Store!EmptyMetrics, EmptyMetrics, Store!Absent, Absent
<1>2. ASSUME NEW d, NEW p PROVE Store!Outcome(d, p) = Outcome(d, p)
  BY DEF Store!Outcome, Outcome
<1>3. ASSUME NEW d, NEW p PROVE Store!IsReplay(d, p) = IsReplay(d, p)
  BY <1>2 DEF Store!IsReplay, IsReplay
<1>4. ASSUME NEW d, NEW p PROVE Store!Sell(d, p) = Sell(d, p)
  BY <1>3 DEF Store!Sell, Sell, Store!SellUnnumbered, SellUnnumbered, Store!SellBelow, SellBelow,
              Store!SellNumbered, SellNumbered
<1>5. ASSUME NEW m, NEW replay, NEW o
      PROVE  Store!RecordMetrics(m, replay, o, 0, 0) = RecordMetrics(m, replay, o, 0, 0)
  BY Zenon DEF Store!RecordMetrics, RecordMetrics, Store!Latency, Latency, Store!Absent, Absent
<1>6. ASSUME NEW d, NEW s, NEW p PROVE Store!Buy(d, s, p, 0, 0) = Buy(d, s, p, 0, 0)
  <2>1. Store!Sell(d, p) = Sell(d, p)
    BY <1>4
  <2>2. Store!Outcome(Sell(d, p), p) = Outcome(Sell(d, p), p)
    BY <1>2
  <2>3. Store!IsReplay(d, p) = IsReplay(d, p)
    BY <1>3
  <2>4. ASSUME NEW m
        PROVE  Store!RecordMetrics(m, Store!IsReplay(d, p), Store!Outcome(Store!Sell(d, p), p), 0, 0)
                 = RecordMetrics(m, IsReplay(d, p), Outcome(Sell(d, p), p), 0, 0)
    BY <1>5, <2>1, <2>2, <2>3, Zenon
  <2> QED
    BY <2>1, <2>4, Zenon DEF Store!Buy, Buy
<1> QED
  BY <1>1, <1>2, <1>4, <1>6

\* A buy script is an attempt: it gives the purchase the answer on record and
\* changes nobody else's.
LEMMA BuyIsAttempt ==
    ASSUME Store!UniqueRequestIds, db \in Db, NEW s \in Stores, NEW p \in Purchases,
           db' = Buy(db, s, p, 0, 0)
    PROVE  Store!Next
<1>1. Store!Attempt(s, p)
  <2>1. db.metrics[s.arch].count \in Nat
    BY StoresAssumption DEF Db, Metrics
  <2>2. db' = Store!Buy(db, s, p, 0, 0)
    BY StoreOperators
  <2>3. Store!ReadClock(0)
    <3>1. ~(0 < 0)
      OBVIOUS
    <3> QED  BY <3>1, Zenon DEF Store!ReadClock
  <2>4. \E t1 \in 0..0 : Store!ReadClock(t1) /\ db' = Store!Buy(db, s, p, 0, t1)
    <3>1. 0 \in 0..0
      OBVIOUS
    <3> QED  BY <2>2, <2>3, <3>1, Zenon
  <2>5. AnswersGiven' = [AnswersGiven EXCEPT ![p] =
                             @ \cup {Store!Outcome(Store!Sell(db, p), p)}]
    <3>1. \A q \in Purchases : Outcome(db', q) = IF q = p THEN Outcome(Sell(db, p), p)
                                                         ELSE Outcome(db, q)
      <4>1. ASSUME NEW q \in Purchases, q # p PROVE Outcome(db', q) = Outcome(db, q)
        <5>1. q.type # p.type \/ q.request_id # p.request_id
          BY <4>1 DEF Store!UniqueRequestIds
        <5> QED  BY <5>1, BuyOutcomes
      <4>2. Outcome(db', p) = Outcome(Sell(db, p), p)
        BY BuyType DEF Outcome
      <4> QED  BY <4>1, <4>2
    <3>2. Outcome(Sell(db, p), p) \in Outcomes /\ (Outcome(db, p) # "nil" =>
              Outcome(Sell(db, p), p) = Outcome(db, p))
      BY SellDecides, OutcomesStand
    <3>3. Outcome(Sell(db, p), p) # "nil"
      BY <3>2 DEF Outcomes
    <3>4. AnswersGiven'[p] = AnswersGiven[p] \cup {Outcome(Sell(db, p), p)}
      BY <3>1, <3>2, <3>3 DEF AnswersGiven
    <3>5. \A q \in Purchases : q # p => AnswersGiven'[q] = AnswersGiven[q]
      BY <3>1 DEF AnswersGiven
    <3>6. Store!Outcome(Store!Sell(db, p), p) = Outcome(Sell(db, p), p)
      BY StoreOperators
    <3> QED  BY <3>4, <3>5, <3>6 DEF AnswersGiven
  <2> QED
    BY <2>1, <2>4, <2>5, Zenon DEF Store!Attempt
<1> QED
  BY <1>1, PurchasesAssumption DEF Store!Next, Store!BuyUnnumbered, Store!BuyNumbered, Kinds

\* The keys always hold what the scripts expect to find in them.
LEMMA KeysType == Keys => [](db \in Db)
<1>1. db = EmptyDb => db \in Db
  BY EmptyDbType
<1>2. db \in Db /\ [Touched]_db => (db \in Db)'
  BY EmptyDbType, BuyType DEF Touched
<1> QED
  BY <1>1, <1>2, PTL DEF Keys

\* If no two purchases of a ticket model share a request id, every step is
\* an attempt, a reset or nothing to the store.
LEMMA KeysImplementStore ==
    ASSUME Store!UniqueRequestIds
    PROVE  Keys => ImplementsStore
<1>1. db = EmptyDb => Store!Init
  <2> SUFFICES ASSUME db = EmptyDb PROVE Store!Init
    OBVIOUS
  <2>1. db = Store!EmptyDb
    BY StoreOperators
  <2>2. AnswersGiven = [p \in Purchases |-> {}]
    BY EmptyOutcomes DEF AnswersGiven
  <2> QED
    BY <2>1, <2>2, Zenon DEF Store!Init
<1>2. db \in Db /\ [Touched]_db => [Store!Next]_Store!vars
  <2> SUFFICES ASSUME db \in Db, [Touched]_db PROVE [Store!Next]_Store!vars
    OBVIOUS
  <2>1. CASE db' = db
    <3>1. AnswersGiven' = AnswersGiven
      BY <2>1 DEF AnswersGiven, Outcome
    <3> QED  BY <2>1, <3>1 DEF Store!vars
  <2>2. CASE db' = EmptyDb
    <3>1. db' = Store!EmptyDb
      BY <2>2, StoreOperators
    <3>2. AnswersGiven' = [p \in Purchases |-> {}]
      BY <2>2, EmptyOutcomes DEF AnswersGiven
    <3> QED  BY <3>1, <3>2, Zenon DEF Store!ResetAll, Store!Next
  <2>3. CASE \E s \in Stores, p \in Purchases : db' = Buy(db, s, p, 0, 0)
    BY <2>3, BuyIsAttempt
  <2> QED
    BY <2>1, <2>2, <2>3 DEF Touched
<1> QED
  BY <1>1, <1>2, KeysType, PTL DEF Keys, ImplementsStore, Store!Spec

-----------------------------------------------------------------------------
(* TicketStoreProofs is about any store: here, about this one.             *)

Proved == INSTANCE TicketStoreProofs WITH
            Deliveries <- Nat, MaxClock <- 0, clock <- 0,
            answers <- AnswersGiven, forgotten <- {}, slipped <- FALSE

\* The store that the proofs are about begins and steps as the one implemented does.
LEMMA SameSteps ==
    /\ Store!Init => Proved!Init
    /\ [Store!Next]_Store!vars => [Proved!Next]_Proved!vars
<1>1. Store!EmptyDb = Proved!EmptyDb
  BY DEF Store!EmptyDb, Proved!EmptyDb, Store!Kinds, Proved!Kinds, Store!Requests,
         Proved!Requests, Store!NoMetrics, Proved!NoMetrics, Store!NoLoad, Proved!NoLoad,
         Store!ARCHITECTURES, Proved!ARCHITECTURES, Store!Nodes, Proved!Nodes,
         Store!EmptyMetrics, Proved!EmptyMetrics, Store!Absent, Proved!Absent
<1>2. ASSUME NEW d, NEW p PROVE Store!Outcome(d, p) = Proved!Outcome(d, p)
  BY DEF Store!Outcome, Proved!Outcome
<1>3. ASSUME NEW d, NEW p PROVE Store!IsReplay(d, p) = Proved!IsReplay(d, p)
  BY <1>2 DEF Store!IsReplay, Proved!IsReplay
<1>4. ASSUME NEW d, NEW p PROVE Store!Sell(d, p) = Proved!Sell(d, p)
  BY <1>3 DEF Store!Sell, Proved!Sell, Store!SellUnnumbered, Proved!SellUnnumbered,
              Store!SellBelow, Proved!SellBelow, Store!SellNumbered, Proved!SellNumbered
<1>5. ASSUME NEW m, NEW replay, NEW o, NEW t0, NEW t1
      PROVE  Store!RecordMetrics(m, replay, o, t0, t1) = Proved!RecordMetrics(m, replay, o, t0, t1)
  BY Zenon DEF Store!RecordMetrics, Proved!RecordMetrics, Store!Latency, Proved!Latency,
               Store!Absent, Proved!Absent
<1>6. ASSUME NEW d, NEW s, NEW p, NEW t0, NEW t1
      PROVE  Store!Buy(d, s, p, t0, t1) = Proved!Buy(d, s, p, t0, t1)
  <2>1. Store!Sell(d, p) = Proved!Sell(d, p)
    BY <1>4
  <2>2. Store!Outcome(Store!Sell(d, p), p) = Proved!Outcome(Proved!Sell(d, p), p)
    BY <1>2, <2>1
  <2>3. ASSUME NEW m
        PROVE  Store!RecordMetrics(m, Store!IsReplay(d, p),
                                   Store!Outcome(Store!Sell(d, p), p), t0, t1)
                 = Proved!RecordMetrics(m, Proved!IsReplay(d, p),
                                   Proved!Outcome(Proved!Sell(d, p), p), t0, t1)
    BY <1>3, <1>5, <2>2, Zenon
  <2> QED
    BY <2>1, <2>3, Zenon DEF Store!Buy, Proved!Buy
<1>7. ASSUME NEW s, NEW p, Store!Attempt(s, p) PROVE Proved!Attempt(s, p)
  <2>1. Store!Outcome(Store!Sell(db, p), p) = Proved!Outcome(Proved!Sell(db, p), p)
    BY <1>2, <1>4
  <2> QED
    BY <1>6, <1>7, <2>1, Zenon
       DEF Store!Attempt, Proved!Attempt, Store!ReadClock, Proved!ReadClock
<1>8. Store!ResetAll => Proved!ResetAll
  BY <1>1, Zenon DEF Store!ResetAll, Proved!ResetAll
<1>9. Store!Tick => Proved!Tick
  BY Zenon DEF Store!Tick, Proved!Tick, Store!ReadClock, Proved!ReadClock
<1>10. Store!ResetMetrics => Proved!ResetMetrics
  <2>1. Store!ClearMetrics(db) = Proved!ClearMetrics(db)
    BY DEF Store!ClearMetrics, Proved!ClearMetrics, Store!NoMetrics, Proved!NoMetrics,
           Store!NoLoad, Proved!NoLoad, Store!ARCHITECTURES, Proved!ARCHITECTURES, Store!Nodes,
           Proved!Nodes, Store!EmptyMetrics, Proved!EmptyMetrics, Store!Absent, Proved!Absent
  <2>2. ASSUME NEW o PROVE Store!Ledger(o) = Proved!Ledger(o)
    BY DEF Store!Ledger, Proved!Ledger, Store!Kinds, Proved!Kinds, Store!Requests,
           Proved!Requests
  <2> QED
    BY <2>1, <2>2, Zenon DEF Store!ResetMetrics, Proved!ResetMetrics
<1>11. Store!Next => Proved!Next
  <2>1. ASSUME NEW s \in Stores, NEW p \in Purchases, Store!BuyUnnumbered(s, p)
        PROVE  Proved!BuyUnnumbered(s, p)
    BY <1>7, <2>1, Zenon DEF Store!BuyUnnumbered, Proved!BuyUnnumbered
  <2>2. ASSUME NEW s \in Stores, NEW p \in Purchases, Store!BuyNumbered(s, p)
        PROVE  Proved!BuyNumbered(s, p)
    BY <1>7, <2>2, Zenon DEF Store!BuyNumbered, Proved!BuyNumbered
  <2> QED
    BY <1>8, <1>9, <1>10, <2>1, <2>2, Zenon DEF Store!Next, Proved!Next
<1>12. UNCHANGED Store!vars => UNCHANGED Proved!vars
  BY DEF Store!vars, Proved!vars
<1>13. Store!Init => Proved!Init
  BY <1>1, Zenon DEF Store!Init, Proved!Init
<1> QED
  BY <1>11, <1>12, <1>13, Zenon

\* What TicketStore assumes of its constants holds of these.
LEMMA ProvedAssumptions ==
    /\ \A p \in Purchases : p.type \in Proved!Kinds
    /\ \A s \in Stores : s.arch \in Proved!ARCHITECTURES
    /\ Nat \subseteq Nat /\ 0 \in Nat
BY PurchasesAssumption, StoresAssumption
   DEF Proved!Kinds, Kinds, Proved!ARCHITECTURES, ARCHITECTURES

\* What is proved of the one store is what is said of the other.
LEMMA SameProperties ==
    /\ Store!UniqueRequestIds => Proved!UniqueRequestIds
    /\ Proved!NoOverselling => Store!NoOverselling
    /\ Proved!NoDoubleSell => Store!NoDoubleSell
<1>1. ASSUME NEW S PROVE Store!Cardinality(S) = Proved!Cardinality(S)
  BY DEF Store!Cardinality, Proved!Cardinality
<1>2. ASSUME NEW k PROVE Store!Sold(k) = Proved!Sold(k) /\ Store!Told(k) = Proved!Told(k)
  BY DEF Store!Sold, Proved!Sold, Store!Requests, Proved!Requests, Store!Told, Proved!Told
<1>3. Store!UniqueRequestIds => Proved!UniqueRequestIds
  BY DEF Store!UniqueRequestIds, Proved!UniqueRequestIds
<1>4. Proved!NoOverselling => Store!NoOverselling
  BY <1>1, <1>2 DEF Store!NoOverselling, Proved!NoOverselling
<1>5. Proved!NoDoubleSell => Store!NoDoubleSell
  BY <1>1, <1>2 DEF Store!NoDoubleSell, Proved!NoDoubleSell
<1> QED
  BY <1>3, <1>4, <1>5

\* So it never sells more unnumbered tickets than there are, nor a seat twice.
LEMMA KeysNeverOversell ==
    ASSUME Store!UniqueRequestIds
    PROVE  Keys => [](Store!NoOverselling /\ Store!NoDoubleSell)
<1>1. Proved!UniqueRequestIds
  BY SameProperties
<1>2. Proved!Spec => []Proved!NoOverselling
  BY ProvedAssumptions, CapacityAssumption, Proved!NeverOversold, Zenon
<1>3. Proved!Spec => []Proved!NoDoubleSell
  BY <1>1, ProvedAssumptions, CapacityAssumption, Proved!NeverDoubleSold, Zenon
<1>4. ImplementsStore => Proved!Spec
  BY SameSteps, PTL DEF ImplementsStore, Store!Spec, Proved!Spec
<1> QED
  BY <1>2, <1>3, <1>4, KeysImplementStore, SameProperties, PTL
=============================================================================
