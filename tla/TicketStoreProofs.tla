-------------------------- MODULE TicketStoreProofs --------------------------
(***************************************************************************)
(* Proofs about TicketStore, for any capacity, any set of purchases, any   *)
(* set of stores and any clock: its tickets and its answers, the abstract  *)
(* sale it implements, and the metrics the buy scripts keep.               *)
(***************************************************************************)
EXTENDS TicketStore, RedisBackendProofs

\* A clock reading is a natural number, whether or not TIME may be set back.
LEMMA ReadingsType ==
    ASSUME NEW t \in 0..MaxClock
    PROVE  t \in Nat
BY BoundsAssumption

\* The keys always hold what the scripts expect to find in them, and only OK
\* and REJECTED are ever answered.
THEOREM TypeCorrect == Spec => []TypeOK
<1>1. Init => TypeOK
  <2>1. Init => slipped \in BOOLEAN
    BY Zenon DEF Init
  <2> QED  BY <2>1, EmptyDbType DEF Init, TypeOK
<1>2. TypeOK /\ [Next]_vars => TypeOK'
  <2> SUFFICES ASSUME TypeOK, [Next]_vars PROVE TypeOK'
    OBVIOUS
  <2> USE DEF TypeOK
  <2>1. ASSUME NEW s \in Stores, NEW p \in Purchases, Attempt(s, p) PROVE TypeOK'
    <3>1. PICK t1 \in 0..MaxClock : ReadClock(t1) /\ db' = Buy(db, s, p, clock, t1)
      BY <2>1 DEF Attempt
    <3>2. t1 \in Nat
      BY ReadingsType
    <3>3. db' \in Db
      BY <3>1, <3>2, BuyType
    <3>4. answers' \in [Purchases -> SUBSET Outcomes]
      BY <2>1, SellDecides DEF Attempt
    <3> QED
      BY <2>1, <3>1, <3>2, <3>3, <3>4 DEF Attempt, ReadClock
  <2>2. CASE Tick
    BY <2>2, ReadingsType DEF Tick, ReadClock
  <2>3. CASE ResetAll
    BY <2>3, EmptyDbType DEF ResetAll
  <2>4. CASE ResetMetrics
    BY <2>4, ClearMetricsType DEF ResetMetrics, Ledger
  <2>5. CASE UNCHANGED vars
    BY <2>5 DEF vars
  <2> QED
    BY <2>1, <2>2, <2>3, <2>4, <2>5 DEF Next, BuyUnnumbered, BuyNumbered
<1> QED
  BY <1>1, <1>2, PTL DEF Spec

-----------------------------------------------------------------------------
\* NoOverselling and OneSeatPerSale are inductive together with the fact
\* that the sets they count are finite.
Counted ==
    /\ \A k \in Kinds : IsFiniteSet(Sold(k))
    /\ IsFiniteSet(db.seats)
    /\ NoOverselling
    /\ OneSeatPerSale

\* The requests sold are the OK entries, before and after a step.
LEMMA SoldEntries ==
    /\ \A k \in Kinds : Sold(k) = Entries(db, k, "OK")
    /\ \A k \in Kinds : Sold(k)' = Entries(db', k, "OK")
BY DEF Sold, Entries

\* So they are counted if the keys tally.
LEMMA CountedIsTallied ==
    /\ Counted <=> Tallied(db)
    /\ Counted' <=> Tallied(db')
BY SoldEntries DEF Counted, NoOverselling, OneSeatPerSale, Tallied, Kinds

\* A buy adds to counter or seats what it adds to the ledger's OK entries.
LEMMA AttemptCounted ==
    ASSUME TypeOK, Counted, NEW s \in Stores, NEW p \in Purchases, Attempt(s, p)
    PROVE  Counted'
<1>1. PICK t1 \in 0..MaxClock : db' = Buy(db, s, p, clock, t1)
  BY DEF Attempt
<1>2. db \in Db /\ clock \in Nat /\ t1 \in Nat
  BY ReadingsType DEF TypeOK
<1>3. Tallied(Sell(db, p))
  BY <1>2, CountedIsTallied, SellTallied
<1>4. /\ db'.sold = Sell(db, p).sold /\ db'.seats = Sell(db, p).seats
      /\ db'.processed = Sell(db, p).processed
  BY <1>1, <1>2, BuyType
<1>5. Tallied(db')
  BY <1>3, <1>4 DEF Tallied, Entries
<1> QED
  BY <1>5, CountedIsTallied

\* Counter, seats and ledger agree throughout.
LEMMA CountedInvariant == Spec => []Counted
<1>1. Init => Counted
  BY EmptyTallied, CountedIsTallied DEF Init
<1>2. TypeOK /\ Counted /\ [Next]_vars => Counted'
  <2> SUFFICES ASSUME TypeOK, Counted, [Next]_vars PROVE Counted'
    OBVIOUS
  <2>1. ASSUME NEW s \in Stores, NEW p \in Purchases, Attempt(s, p) PROVE Counted'
    BY <2>1, AttemptCounted
  <2>2. CASE ResetAll
    BY <2>2, EmptyTallied, CountedIsTallied DEF ResetAll
  <2>3. CASE Tick \/ ResetMetrics \/ UNCHANGED vars
    <3>1. db'.sold = db.sold /\ db'.seats = db.seats /\ db'.processed = db.processed
      BY <2>3, ClearMetricsType DEF Tick, ResetMetrics, vars, TypeOK
    <3>2. \A k \in Kinds : Sold(k)' = Sold(k)
      BY <3>1 DEF Sold
    <3> QED
      BY <3>1, <3>2 DEF Counted, NoOverselling, OneSeatPerSale, Kinds
  <2> QED
    BY <2>1, <2>2, <2>3 DEF Next, BuyUnnumbered, BuyNumbered
<1> QED
  BY <1>1, <1>2, TypeCorrect, PTL DEF Spec

\* No capacity, workload, number of nodes or history of replays and resets
\* makes the store sell more unnumbered tickets than there are, or lose count.
THEOREM NeverOversold == Spec => []NoOverselling
<1>1. Counted => NoOverselling
  BY DEF Counted
<1> QED
  BY <1>1, CountedInvariant, PTL

\* As many seats are taken as numbered requests were granted.
THEOREM SeatsAreSales == Spec => []OneSeatPerSale
<1>1. Counted => OneSeatPerSale
  BY DEF Counted
<1> QED
  BY <1>1, CountedInvariant, PTL

-----------------------------------------------------------------------------
\* However often, and to whichever store, a purchase is sent, it is answered
\* the same, even when another purchase has its request id.
THEOREM AnswersNeverFlip == Spec => []AnswersAgree
<1>1. Init => AnswersAgree
  BY DEF Init, AnswersAgree
<1>2. TypeOK /\ AnswersAgree /\ [Next]_vars => AnswersAgree'
  <2> SUFFICES ASSUME TypeOK, AnswersAgree, [Next]_vars, NEW q \in Purchases
               PROVE  answers'[q] \subseteq {Outcome(db', q)}
    BY DEF AnswersAgree
  <2>1. ASSUME NEW s \in Stores, NEW p \in Purchases, Attempt(s, p)
        PROVE  answers'[q] \subseteq {Outcome(db', q)}
    <3>1. PICK t1 \in 0..MaxClock : db' = Buy(db, s, p, clock, t1)
      BY <2>1 DEF Attempt
    <3>2. db \in Db /\ Outcome(db', q) = Outcome(Sell(db, p), q)
      BY <3>1, BuyType, ReadingsType DEF TypeOK, Outcome
    <3>3. answers[q] \subseteq {Outcome(Sell(db, p), q)}
      <4>1. answers[q] \subseteq Outcomes /\ answers[q] \subseteq {Outcome(db, q)}
        BY DEF TypeOK, AnswersAgree
      <4>2. CASE Outcome(db, q) = "nil"
        BY <4>1, <4>2 DEF Outcomes
      <4>3. CASE Outcome(db, q) # "nil"
        BY <3>2, <4>1, <4>3, OutcomesStand
      <4> QED
        BY <4>2, <4>3
    <3>4. answers' = [answers EXCEPT ![p] = @ \cup {Outcome(Sell(db, p), p)}]
      BY <2>1 DEF Attempt
    <3> QED
      BY <3>2, <3>3, <3>4 DEF TypeOK
  <2>2. CASE ResetAll
    BY <2>2 DEF ResetAll
  <2>3. CASE Tick \/ ResetMetrics \/ UNCHANGED vars
    <3>1. db'.processed = db.processed /\ answers' = answers
      BY <2>3, ClearMetricsType DEF Tick, ResetMetrics, vars, TypeOK
    <3> QED
      BY <3>1 DEF AnswersAgree, Outcome
  <2> QED
    BY <2>1, <2>2, <2>3 DEF Next, BuyUnnumbered, BuyNumbered
<1> QED
  BY <1>1, <1>2, TypeCorrect, PTL DEF Spec

-----------------------------------------------------------------------------
(* What follows needs that no two purchases of a model share a request id, *)
(* which benchmarks/generate.py makes likely and nothing enforces.         *)

GrantedTo(k) == {p \in Purchases : p.type = k /\ Outcome(db, p) = "OK"}

\* The keys say who got what: the counter counts the buyers, the seats are
\* theirs, one each, and whoever was rejected met a sold-out sale.
Allocated ==
    /\ IsFiniteSet(GrantedTo("unnumbered"))
    /\ db.sold = Cardinality(GrantedTo("unnumbered"))
    /\ db.seats = {p.seat_id : p \in GrantedTo("numbered")}
    /\ \A p, q \in GrantedTo("numbered") : p.seat_id = q.seat_id => p = q
    /\ \A p \in Purchases : Outcome(db, p) = "REJECTED" =>
          IF p.type = "unnumbered" THEN db.sold >= TOTAL_TICKETS ELSE p.seat_id \in db.seats

\* With unique ids, deciding one purchase changes no other's outcome.
LEMMA OneOutcomeChanges ==
    ASSUME UniqueRequestIds, NEW d \in Db, NEW e, NEW p \in Purchases, NEW o,
           Decided(d, e, p, o), NEW q \in Purchases
    PROVE  Outcome(e, q) = IF q = p THEN o ELSE Outcome(d, q)
<1>1. /\ p.type \in Kinds /\ p.request_id \in Requests
      /\ q.type \in Kinds /\ q.request_id \in Requests
  BY PurchasesAssumption DEF Requests
<1>2. d.processed \in [Kinds -> [Requests -> Outcomes \cup {"nil"}]]
  BY DEF Db
<1>3. q = p \/ q.type # p.type \/ q.request_id # p.request_id
  BY DEF UniqueRequestIds
<1> QED
  BY <1>1, <1>2, <1>3 DEF Decided, Outcome

\* A buy gives a seat to one purchase and takes none away.
LEMMA AttemptAllocated ==
    ASSUME UniqueRequestIds, TypeOK, Allocated,
           NEW s \in Stores, NEW p \in Purchases, Attempt(s, p)
    PROVE  Allocated'
<1> DEFINE e == Sell(db, p)
           To(k) == {q \in Purchases : q.type = k /\ Outcome(e, q) = "OK"}
<1>1. PICK t1 \in 0..MaxClock : db' = Buy(db, s, p, clock, t1)
  BY DEF Attempt
<1>2. db \in Db /\ db.sold \in Nat /\ TOTAL_TICKETS \in Nat
  BY CapacityAssumption DEF TypeOK, Db
<1>3. db'.sold = e.sold /\ db'.seats = e.seats /\ db'.processed = e.processed
  BY <1>1, BuyType, ReadingsType DEF TypeOK
<1>4. \A q \in Purchases : Outcome(db', q) = Outcome(e, q)
  BY <1>3 DEF Outcome
<1>5. \A k : GrantedTo(k)' = To(k)
  BY <1>4 DEF GrantedTo
<1> SUFFICES
      /\ IsFiniteSet(To("unnumbered"))
      /\ e.sold = Cardinality(To("unnumbered"))
      /\ e.seats = {q.seat_id : q \in To("numbered")}
      /\ \A q, r \in To("numbered") : q.seat_id = r.seat_id => q = r
      /\ \A q \in Purchases : Outcome(e, q) = "REJECTED" =>
            IF q.type = "unnumbered" THEN e.sold >= TOTAL_TICKETS ELSE q.seat_id \in e.seats
  BY <1>3, <1>4, <1>5 DEF Allocated
<1> HIDE DEF e
<1>6. CASE IsReplay(db, p) /\ e = db
  <2>1. \A k : To(k) = GrantedTo(k)
    BY <1>6 DEF GrantedTo
  <2> HIDE DEF To
  <2> QED  BY <1>6, <2>1 DEF Allocated
<1>7. CASE /\ ~IsReplay(db, p) /\ p.type = "unnumbered" /\ db.sold < TOTAL_TICKETS
           /\ e.sold = db.sold + 1 /\ e.seats = db.seats /\ Decided(db, e, p, "OK")
  <2>1. /\ To("unnumbered") = GrantedTo("unnumbered") \cup {p}
        /\ To("numbered") = GrantedTo("numbered")
        /\ p \notin GrantedTo("unnumbered")
    BY <1>2, <1>7, OneOutcomeChanges DEF GrantedTo, IsReplay
  <2>2. \A q \in Purchases : Outcome(e, q) = "REJECTED" => Outcome(db, q) = "REJECTED"
    BY <1>2, <1>7, OneOutcomeChanges
  <2> HIDE DEF To
  <2>3. /\ IsFiniteSet(To("unnumbered"))
        /\ Cardinality(To("unnumbered")) = Cardinality(GrantedTo("unnumbered")) + 1
    BY <2>1, FS_AddElement DEF Allocated
  <2> QED  BY <1>2, <1>7, <2>1, <2>2, <2>3 DEF Allocated
<1>8. CASE /\ ~IsReplay(db, p) /\ p.type = "numbered" /\ p.seat_id \notin db.seats
           /\ e.sold = db.sold /\ e.seats = db.seats \cup {p.seat_id}
           /\ Decided(db, e, p, "OK")
  <2>1. /\ To("numbered") = GrantedTo("numbered") \cup {p}
        /\ To("unnumbered") = GrantedTo("unnumbered")
    BY <1>2, <1>8, OneOutcomeChanges DEF GrantedTo
  <2>2. \A q \in Purchases : Outcome(e, q) = "REJECTED" => Outcome(db, q) = "REJECTED"
    BY <1>2, <1>8, OneOutcomeChanges
  <2>3. \A q \in GrantedTo("numbered") : q.seat_id # p.seat_id
    BY <1>8 DEF Allocated
  <2> HIDE DEF To
  <2>4. e.seats = {q.seat_id : q \in To("numbered")}
    BY <1>8, <2>1 DEF Allocated
  <2>5. \A q, r \in To("numbered") : q.seat_id = r.seat_id => q = r
    BY <2>1, <2>3 DEF Allocated
  <2> QED  BY <1>8, <2>1, <2>2, <2>4, <2>5 DEF Allocated
<1>9. CASE /\ ~IsReplay(db, p) /\ Decided(db, e, p, "REJECTED")
           /\ e.sold = db.sold /\ e.seats = db.seats
           /\ IF p.type = "unnumbered" THEN db.sold >= TOTAL_TICKETS ELSE p.seat_id \in db.seats
  <2>1. \A k : To(k) = GrantedTo(k)
    BY <1>2, <1>9, OneOutcomeChanges DEF GrantedTo, IsReplay
  <2>2. \A q \in Purchases :
          q # p /\ Outcome(e, q) = "REJECTED" => Outcome(db, q) = "REJECTED"
    BY <1>2, <1>9, OneOutcomeChanges
  <2> HIDE DEF To
  <2> QED  BY <1>9, <2>1, <2>2 DEF Allocated
<1> QED
  BY <1>2, <1>6, <1>7, <1>8, <1>9, SellCases DEF e

\* Seats belong to one granted purchase each throughout.
LEMMA AllocatedInvariant ==
    ASSUME UniqueRequestIds
    PROVE  Spec => []Allocated
<1>1. \A d \in Db : d.processed = EmptyDb.processed =>
        \A p \in Purchases : Outcome(d, p) = "nil"
  BY PurchasesAssumption DEF EmptyDb, Outcome, Requests
<1>2. Init => Allocated
  <2> SUFFICES ASSUME Init PROVE Allocated
    OBVIOUS
  <2>1. db = EmptyDb /\ \A p \in Purchases : Outcome(db, p) = "nil"
    BY <1>1, EmptyDbType DEF Init
  <2>2. GrantedTo("unnumbered") = {} /\ GrantedTo("numbered") = {}
    BY <2>1 DEF GrantedTo
  <2> QED
    BY <2>1, <2>2, FS_EmptySet DEF Allocated, EmptyDb
<1>3. TypeOK /\ Allocated /\ [Next]_vars => Allocated'
  <2> SUFFICES ASSUME TypeOK, Allocated, [Next]_vars PROVE Allocated'
    OBVIOUS
  <2>1. ASSUME NEW s \in Stores, NEW p \in Purchases, Attempt(s, p) PROVE Allocated'
    BY <2>1, AttemptAllocated
  <2>2. CASE ResetAll
    <3>1. db' = EmptyDb /\ \A p \in Purchases : Outcome(db', p) = "nil"
      BY <1>1, <2>2, EmptyDbType DEF ResetAll
    <3>2. GrantedTo("unnumbered")' = {} /\ GrantedTo("numbered")' = {}
      BY <3>1 DEF GrantedTo
    <3> QED
      BY <3>1, <3>2, FS_EmptySet DEF Allocated, EmptyDb
  <2>3. CASE Tick \/ ResetMetrics \/ UNCHANGED vars
    <3>1. db'.sold = db.sold /\ db'.seats = db.seats /\ db'.processed = db.processed
      BY <2>3, ClearMetricsType DEF Tick, ResetMetrics, vars, TypeOK
    <3>2. \A p \in Purchases : Outcome(db', p) = Outcome(db, p)
      BY <3>1 DEF Outcome
    <3>3. \A k : GrantedTo(k)' = GrantedTo(k)
      BY <3>2 DEF GrantedTo
    <3> QED
      BY <3>1, <3>2, <3>3 DEF Allocated
  <2> QED
    BY <2>1, <2>2, <2>3 DEF Next, BuyUnnumbered, BuyNumbered
<1> QED
  BY <1>2, <1>3, TypeCorrect, PTL DEF Spec

\* If request ids are unique, nobody is turned away while a ticket is left.
THEOREM RejectionsAreJustified ==
    ASSUME UniqueRequestIds
    PROVE  Spec => []NoSpuriousRejection
<1>1. TypeOK /\ Allocated /\ NoOverselling /\ AnswersAgree => NoSpuriousRejection
  <2> SUFFICES ASSUME TypeOK, Allocated, NoOverselling, AnswersAgree,
                      NEW p \in Purchases, "REJECTED" \in answers[p]
               PROVE  IF p.type = "unnumbered" THEN db.sold = TOTAL_TICKETS
                                               ELSE p.seat_id \in db.seats
    BY DEF NoSpuriousRejection
  <2>1. Outcome(db, p) = "REJECTED"
    BY DEF AnswersAgree
  <2>2. IF p.type = "unnumbered" THEN db.sold >= TOTAL_TICKETS ELSE p.seat_id \in db.seats
    BY <2>1 DEF Allocated
  <2>3. db.sold <= TOTAL_TICKETS /\ db.sold \in Nat
    BY DEF NoOverselling, TypeOK, Db
  <2> QED
    BY <2>2, <2>3, CapacityAssumption
<1> QED
  BY <1>1, TypeCorrect, AllocatedInvariant, NeverOversold, AnswersNeverFlip, PTL

\* If request ids are unique, no seat is promised to two buyers and no more
\* buyers are promised a ticket than there are tickets.
THEOREM NeverDoubleSold ==
    ASSUME UniqueRequestIds
    PROVE  Spec => []NoDoubleSell
<1>1. Allocated /\ NoOverselling /\ AnswersAgree => NoDoubleSell
  <2> SUFFICES ASSUME Allocated, NoOverselling, AnswersAgree PROVE NoDoubleSell
    OBVIOUS
  <2>1. \A k : Told(k) \subseteq GrantedTo(k)
    BY DEF Told, GrantedTo, AnswersAgree
  <2>2. \A p, q \in Told("numbered") : p.seat_id = q.seat_id => p = q
    BY <2>1 DEF Allocated
  <2>3. Cardinality(Told("unnumbered")) <= Cardinality(GrantedTo("unnumbered"))
    BY <2>1, FS_Subset DEF Allocated
  <2>4. IsFiniteSet(Told("unnumbered"))
    BY <2>1, FS_Subset DEF Allocated
  <2>5. Cardinality(Told("unnumbered")) \in Nat /\ Cardinality(GrantedTo("unnumbered")) \in Nat
    BY <2>4, FS_CardinalityType DEF Allocated
  <2> QED
    BY <2>2, <2>3, <2>5, CapacityAssumption DEF NoDoubleSell, Allocated, NoOverselling
<1> QED
  BY <1>1, AllocatedInvariant, NeverOversold, AnswersNeverFlip, PTL

\* If request ids are unique, the store implements the abstract sale: every
\* script decides one purchase by what is available, or changes nothing.
THEOREM StoreImplementsSale ==
    ASSUME UniqueRequestIds
    PROVE  Spec => ImplementsSale
<1> DEFINE out == [p \in Purchases |-> Outcome(db, p)]
<1>1. Init => Sale!Init
  <2>1. \A p \in Purchases : Outcome(EmptyDb, p) = "nil"
    BY PurchasesAssumption DEF EmptyDb, Outcome, Requests
  <2> QED
    BY <2>1 DEF Init, Sale!Init
<1>2. TypeOK /\ Allocated /\ [Next]_vars => [Sale!Next]_out
  <2> SUFFICES ASSUME TypeOK, Allocated, [Next]_vars PROVE [Sale!Next]_out
    OBVIOUS
  <2>1. ASSUME NEW s \in Stores, NEW p \in Purchases, Attempt(s, p)
        PROVE  [Sale!Next]_out
    <3> DEFINE e == Sell(db, p)
    <3>1. PICK t1 \in 0..MaxClock : db' = Buy(db, s, p, clock, t1)
      BY <2>1 DEF Attempt
    <3>2. db \in Db /\ \A q \in Purchases : Outcome(db', q) = Outcome(e, q)
      BY <3>1, BuyType, ReadingsType DEF TypeOK, Outcome
    <3>3. Sale!Granted("unnumbered") = GrantedTo("unnumbered")
            /\ Sale!Granted("numbered") = GrantedTo("numbered")
      BY DEF Sale!Granted, GrantedTo
    <3>0. ASSUME NEW S PROVE Sale!Cardinality(S) = Cardinality(S)
      BY DEF Sale!Cardinality, Cardinality
    <3>4. Sale!Available(p) <=> IF p.type = "unnumbered" THEN db.sold < TOTAL_TICKETS
                                                        ELSE p.seat_id \notin db.seats
      BY <3>3, <3>0 DEF Sale!Available, Allocated
    <3> HIDE DEF e
    <3>5. CASE IsReplay(db, p) /\ e = db
      BY <3>2, <3>5
    <3>6. ASSUME ~IsReplay(db, p), NEW o, Decided(db, e, p, o),
                 o = IF Sale!Available(p) THEN "OK" ELSE "REJECTED"
          PROVE  Sale!Decide(p)
      <4>1. \A q \in Purchases : Outcome(db', q) = IF q = p THEN o ELSE Outcome(db, q)
        BY <3>2, <3>6, OneOutcomeChanges
      <4>2. out' = [out EXCEPT ![p] = o]
        BY <4>1
      <4>3. out[p] = "nil"
        BY <3>6 DEF IsReplay
      <4> QED
        BY <3>6, <4>2, <4>3 DEF Sale!Decide
    <3>7. (IsReplay(db, p) /\ e = db) \/ Sale!Decide(p)
      BY <3>2, <3>4, <3>6, SellCases DEF e
    <3> QED
      BY <3>5, <3>7 DEF Sale!Next
  <2>2. CASE ResetAll
    <3>1. \A p \in Purchases : Outcome(db', p) = "nil"
      BY <2>2, PurchasesAssumption DEF ResetAll, EmptyDb, Outcome, Requests
    <3> QED
      BY <3>1 DEF Sale!Next, Sale!Reset
  <2>3. CASE Tick \/ ResetMetrics \/ UNCHANGED vars
    <3>1. db'.processed = db.processed
      BY <2>3, ClearMetricsType DEF Tick, ResetMetrics, vars, TypeOK
    <3> QED
      BY <3>1 DEF Outcome
  <2> QED
    BY <2>1, <2>2, <2>3 DEF Next, BuyUnnumbered, BuyNumbered
<1> QED
  BY <1>1, <1>2, TypeCorrect, AllocatedInvariant, PTL DEF Spec, ImplementsSale, Sale!Spec

-----------------------------------------------------------------------------
(* The metrics account for the ledger.                                     *)

\* The entries the ledger of d has with outcome o.
Listed(d, o) == {e \in Kinds \X Requests : d.processed[e[1]][e[2]] = o}

\* The ledger's entries with an outcome, before and after a step.
LEMMA LedgerIsListed ==
    /\ \A o : Ledger(o) = Listed(db, o)
    /\ \A o : Ledger(o)' = Listed(db', o)
BY DEF Ledger, Listed

\* A new decision adds one entry, under its outcome.
LEMMA DecidedListed ==
    ASSUME NEW d \in Db, NEW e, NEW p \in Purchases, NEW o \in Outcomes,
           ~IsReplay(d, p), Decided(d, e, p, o), NEW x \in Outcomes
    PROVE  /\ Listed(e, x) = IF x = o THEN Listed(d, x) \cup {<<p.type, p.request_id>>}
                             ELSE Listed(d, x)
           /\ <<p.type, p.request_id>> \notin Listed(d, x)
<1>1. p.type \in Kinds /\ p.request_id \in Requests
  BY PurchasesAssumption DEF Requests
<1>2. d.processed \in [Kinds -> [Requests -> Outcomes \cup {"nil"}]]
  BY DEF Db
<1>3. d.processed[p.type][p.request_id] = "nil"
  BY DEF IsReplay, Outcome
<1>4. \A k \in Kinds, r \in Requests : e.processed[k][r] =
        IF k = p.type /\ r = p.request_id THEN o ELSE d.processed[k][r]
  BY <1>1, <1>2 DEF Decided
<1>5. \A c \in Kinds \X Requests :
        c[1] \in Kinds /\ c[2] \in Requests
          /\ (c = <<p.type, p.request_id>> <=> c[1] = p.type /\ c[2] = p.request_id)
  OBVIOUS
<1>6. x # "nil" /\ o # "nil"
  BY DEF Outcomes
<1>7. <<p.type, p.request_id>> \in Kinds \X Requests
  BY <1>1
<1> QED
  BY <1>1, <1>3, <1>4, <1>5, <1>6, <1>7 DEF Listed

\* MetricsMatchLedger is inductive together with what it counts being finite,
\* and with what was forgotten having been in the ledger.
Accounted ==
    /\ \A o \in Outcomes : IsFiniteSet(Ledger(o) \ forgotten)
    /\ forgotten \subseteq Ledger("OK") \cup Ledger("REJECTED")
    /\ MetricsMatchLedger

\* What an entry of a namespace adds to the sums over both.
OkOf(M) == M["direct"].ok + M["indirect"].ok
RejectedOf(M) == M["direct"].rejected + M["indirect"].rejected
Balanced(M) == \A a \in ARCHITECTURES : M[a].count = M[a].ok + M[a].rejected + M[a].replays

\* A script that is no replay adds one to the sum of its outcome; a replay adds to none.
LEMMA RecordedSums ==
    ASSUME NEW M \in [ARCHITECTURES -> Metrics], NEW a \in ARCHITECTURES, Balanced(M),
           NEW replay \in BOOLEAN, NEW o \in Outcomes, NEW t0 \in Nat, NEW t1 \in Nat
    PROVE  LET N == [M EXCEPT ![a] = RecordMetrics(@, replay, o, t0, t1)]
           IN /\ Balanced(N)
              /\ OkOf(N) = OkOf(M) + (IF ~replay /\ o = "OK" THEN 1 ELSE 0)
              /\ RejectedOf(N) = RejectedOf(M) + (IF ~replay /\ o = "REJECTED" THEN 1 ELSE 0)
<1> DEFINE r == RecordMetrics(M[a], replay, o, t0, t1)
           N == [M EXCEPT ![a] = r]
<1>1. /\ r.count = M[a].count + 1
      /\ r.replays = M[a].replays + (IF replay THEN 1 ELSE 0)
      /\ r.ok = M[a].ok + (IF ~replay /\ o = "OK" THEN 1 ELSE 0)
      /\ r.rejected = M[a].rejected + (IF ~replay /\ o = "REJECTED" THEN 1 ELSE 0)
  BY DEF RecordMetrics, Outcomes
<1>2. \A b \in ARCHITECTURES : /\ M[b].count \in Nat /\ M[b].ok \in Nat
                               /\ M[b].rejected \in Nat /\ M[b].replays \in Nat
  BY DEF Metrics
<1> HIDE DEF r
<1>3. \A b \in ARCHITECTURES : N[b] = IF b = a THEN r ELSE M[b]
  OBVIOUS
<1>4. Balanced(N)
  <2> SUFFICES ASSUME NEW b \in ARCHITECTURES
               PROVE  N[b].count = N[b].ok + N[b].rejected + N[b].replays
    BY DEF Balanced
  <2>1. M[b].count = M[b].ok + M[b].rejected + M[b].replays
    BY DEF Balanced
  <2>2. CASE replay
    BY <1>1, <1>2, <1>3, <2>1, <2>2
  <2>3. CASE ~replay
    BY <1>1, <1>2, <1>3, <2>1, <2>3 DEF Outcomes
  <2> QED  BY <2>2, <2>3
<1>5. a \in {"direct", "indirect"} /\ "direct" \in ARCHITECTURES /\ "indirect" \in ARCHITECTURES
  BY DEF ARCHITECTURES
<1>6. OkOf(N) = OkOf(M) + (IF ~replay /\ o = "OK" THEN 1 ELSE 0)
  BY <1>1, <1>2, <1>3, <1>5 DEF OkOf
<1>7. RejectedOf(N) = RejectedOf(M) + (IF ~replay /\ o = "REJECTED" THEN 1 ELSE 0)
  BY <1>1, <1>2, <1>3, <1>5 DEF RejectedOf
<1> QED
  BY <1>4, <1>6, <1>7 DEF r

\* Cleared metrics are balanced and count nothing.
LEMMA NoSums == OkOf(NoMetrics) = 0 /\ RejectedOf(NoMetrics) = 0 /\ Balanced(NoMetrics)
BY DEF OkOf, RejectedOf, Balanced, NoMetrics, EmptyMetrics, ARCHITECTURES

\* MetricsMatchLedger in terms of the sums over both architectures.
LEMMA MetricsMatchSums ==
    /\ MetricsMatchLedger <=>
         /\ OkOf(db.metrics) = Cardinality(Ledger("OK") \ forgotten)
         /\ RejectedOf(db.metrics) = Cardinality(Ledger("REJECTED") \ forgotten)
         /\ Balanced(db.metrics)
    /\ MetricsMatchLedger' <=>
         /\ OkOf(db'.metrics) = Cardinality(Ledger("OK")' \ forgotten')
         /\ RejectedOf(db'.metrics) = Cardinality(Ledger("REJECTED")' \ forgotten')
         /\ Balanced(db'.metrics)
BY DEF MetricsMatchLedger, OkOf, RejectedOf, Balanced

\* A buy enters as much in the ledger as in the metrics.
LEMMA AttemptAccounted ==
    ASSUME TypeOK, Accounted, NEW s \in Stores, NEW p \in Purchases, Attempt(s, p)
    PROVE  Accounted'
<1> DEFINE e == Sell(db, p)
           o == Outcome(e, p)
           replay == IsReplay(db, p)
           entry == <<p.type, p.request_id>>
<1>1. PICK t1 \in 0..MaxClock : db' = Buy(db, s, p, clock, t1)
  BY DEF Attempt
<1>2. db \in Db /\ clock \in Nat /\ t1 \in Nat /\ forgotten' = forgotten
  BY ReadingsType DEF TypeOK, Attempt
<1>3. /\ db'.processed = e.processed
      /\ db'.metrics = [db.metrics EXCEPT ![s.arch] =
                           RecordMetrics(@, replay, o, clock, t1)]
  BY <1>1, <1>2, BuyType, BuyMetrics
<1>4. o \in Outcomes /\ replay \in BOOLEAN /\ s.arch \in ARCHITECTURES
  BY <1>2, SellDecides, StoresAssumption DEF IsReplay
<1>5. \A x : Ledger(x)' = Listed(e, x)
  BY <1>3 DEF Ledger, Listed
<1>6. \A x : Ledger(x) = Listed(db, x)
  BY LedgerIsListed
<1>7. /\ \A x \in Outcomes : IsFiniteSet(Listed(db, x) \ forgotten)
      /\ forgotten \subseteq Listed(db, "OK") \cup Listed(db, "REJECTED")
      /\ OkOf(db.metrics) = Cardinality(Listed(db, "OK") \ forgotten)
      /\ RejectedOf(db.metrics) = Cardinality(Listed(db, "REJECTED") \ forgotten)
      /\ Balanced(db.metrics)
  BY <1>6, MetricsMatchSums DEF Accounted
<1>8. /\ Balanced(db'.metrics)
      /\ OkOf(db'.metrics) = OkOf(db.metrics) + (IF ~replay /\ o = "OK" THEN 1 ELSE 0)
      /\ RejectedOf(db'.metrics) =
            RejectedOf(db.metrics) + (IF ~replay /\ o = "REJECTED" THEN 1 ELSE 0)
  <2>1. db.metrics \in [ARCHITECTURES -> Metrics]
    BY <1>2 DEF Db
  <2> HIDE DEF replay, o
  <2> QED  BY <1>2, <1>3, <1>4, <1>7, <2>1, RecordedSums
<1> SUFFICES
      /\ \A x \in Outcomes : IsFiniteSet(Listed(e, x) \ forgotten)
      /\ forgotten \subseteq Listed(e, "OK") \cup Listed(e, "REJECTED")
      /\ OkOf(db'.metrics) = Cardinality(Listed(e, "OK") \ forgotten)
      /\ RejectedOf(db'.metrics) = Cardinality(Listed(e, "REJECTED") \ forgotten)
  BY <1>2, <1>5, <1>8, MetricsMatchSums DEF Accounted
<1>9. CASE replay
  <2>1. e = db
    BY <1>9 DEF Sell, SellUnnumbered, SellBelow, SellNumbered
  <2>2. OkOf(db'.metrics) = OkOf(db.metrics) /\ RejectedOf(db'.metrics) = RejectedOf(db.metrics)
    <3>1. \A b \in ARCHITECTURES : db.metrics[b].ok \in Nat /\ db.metrics[b].rejected \in Nat
      BY <1>2 DEF Db, Metrics
    <3> QED  BY <1>8, <1>9, <3>1 DEF OkOf, RejectedOf, ARCHITECTURES
  <2> HIDE DEF e
  <2> QED
    BY <1>7, <2>1, <2>2
<1>10. CASE ~replay
  <2>1. Decided(db, e, p, o)
    <3>1. PICK y \in Outcomes : Decided(db, e, p, y)
      BY <1>2, <1>10, SellCases DEF Outcomes
    <3>2. p.type \in Kinds /\ p.request_id \in Requests
      BY PurchasesAssumption DEF Requests
    <3>3. o = y
      <4>1. db.processed \in [Kinds -> [Requests -> Outcomes \cup {"nil"}]]
        BY <1>2 DEF Db
      <4>2. e.processed = [db.processed EXCEPT ![p.type][p.request_id] = y]
        BY <3>1 DEF Decided
      <4> HIDE DEF e
      <4> QED  BY <3>2, <4>1, <4>2 DEF Outcome
    <3> QED  BY <3>1, <3>3
  <2> HIDE DEF e, o, replay
  <2>2. ASSUME NEW x \in Outcomes
        PROVE  /\ Listed(e, x) = IF x = o THEN Listed(db, x) \cup {entry} ELSE Listed(db, x)
               /\ entry \notin Listed(db, x)
    BY <1>2, <1>4, <1>10, <2>1, DecidedListed DEF replay
  <2>3. entry \notin forgotten
    BY <1>7, <2>2 DEF Outcomes
  <2> HIDE DEF entry
  <2>4. ASSUME NEW x \in Outcomes
        PROVE  /\ IsFiniteSet(Listed(e, x) \ forgotten)
               /\ Cardinality(Listed(e, x) \ forgotten) =
                     Cardinality(Listed(db, x) \ forgotten) + (IF x = o THEN 1 ELSE 0)
    <3> DEFINE S == Listed(db, x) \ forgotten
    <3>1. IsFiniteSet(S) /\ entry \notin S /\ Cardinality(S) \in Nat
      BY <1>7, <2>2, FS_CardinalityType
    <3>2. Listed(e, x) \ forgotten = IF x = o THEN S \cup {entry} ELSE S
      BY <2>2, <2>3
    <3> HIDE DEF S
    <3>3. IsFiniteSet(S \cup {entry}) /\ Cardinality(S \cup {entry}) = Cardinality(S) + 1
      BY <3>1, FS_AddElement
    <3>4. /\ IsFiniteSet(Listed(e, x) \ forgotten)
          /\ Cardinality(Listed(e, x) \ forgotten) =
                Cardinality(S) + (IF x = o THEN 1 ELSE 0)
      <4>1. CASE x = o
        <5>1. Listed(e, x) \ forgotten = S \cup {entry}
          BY <3>2, <4>1
        <5> QED  BY <3>3, <4>1, <5>1
      <4>2. CASE x # o
        <5>1. Listed(e, x) \ forgotten = S
          BY <3>2, <4>2
        <5> QED  BY <3>1, <4>2, <5>1
      <4> QED  BY <4>1, <4>2
    <3> QED  BY <3>4 DEF S
  <2>5. forgotten \subseteq Listed(e, "OK") \cup Listed(e, "REJECTED")
    BY <1>7, <2>2 DEF Outcomes
  <2> QED
    BY <1>4, <1>7, <1>8, <1>10, <2>4, <2>5 DEF Outcomes
<1> QED
  BY <1>9, <1>10

\* The strengthened invariant holds throughout.
LEMMA AccountedInvariant == Spec => []Accounted
<1>1. ASSUME db = EmptyDb, forgotten = {} PROVE Accounted
  <2>1. \A o \in Outcomes : Ledger(o) = {}
    BY <1>1 DEF Ledger, EmptyDb, Outcomes
  <2>2. db.metrics = NoMetrics
    BY <1>1 DEF EmptyDb
  <2> QED
    BY <1>1, <2>1, <2>2, FS_EmptySet, NoSums, MetricsMatchSums DEF Accounted, Outcomes
<1>2. Init => Accounted
  BY <1>1 DEF Init
<1>3. TypeOK /\ Accounted /\ [Next]_vars => Accounted'
  <2> SUFFICES ASSUME TypeOK, Accounted, [Next]_vars PROVE Accounted'
    OBVIOUS
  <2>1. ASSUME NEW s \in Stores, NEW p \in Purchases, Attempt(s, p) PROVE Accounted'
    BY <2>1, AttemptAccounted
  <2>2. CASE ResetAll
    <3>1. \A o \in Outcomes : Ledger(o)' = {}
      BY <2>2 DEF ResetAll, Ledger, EmptyDb, Outcomes
    <3>2. db'.metrics = NoMetrics /\ forgotten' = {}
      BY <2>2 DEF ResetAll, EmptyDb
    <3> QED
      BY <3>1, <3>2, FS_EmptySet, NoSums, MetricsMatchSums DEF Accounted, Outcomes
  <2>3. CASE ResetMetrics
    <3>1. db'.processed = db.processed /\ db'.metrics = NoMetrics
      BY <2>3 DEF ResetMetrics, ClearMetrics, TypeOK, Db
    <3>2. \A o : Ledger(o)' = Ledger(o)
      BY <3>1 DEF Ledger
    <3>3. forgotten' = Ledger("OK") \cup Ledger("REJECTED")
      BY <2>3 DEF ResetMetrics
    <3>4. \A o \in Outcomes : Ledger(o)' \ forgotten' = {}
      BY <3>2, <3>3 DEF Outcomes
    <3>5. Cardinality(Ledger("OK")' \ forgotten') = 0
            /\ Cardinality(Ledger("REJECTED")' \ forgotten') = 0
      BY <3>4, FS_EmptySet DEF Outcomes
    <3> QED
      BY <3>1, <3>2, <3>3, <3>4, <3>5, FS_EmptySet, NoSums, MetricsMatchSums DEF Accounted
  <2>4. CASE Tick \/ UNCHANGED vars
    <3>1. db' = db /\ forgotten' = forgotten
      BY <2>4 DEF Tick, vars
    <3> QED
      BY <3>1 DEF Accounted, MetricsMatchLedger, Ledger
  <2> QED
    BY <2>1, <2>2, <2>3, <2>4 DEF Next, BuyUnnumbered, BuyNumbered
<1> QED
  BY <1>2, <1>3, TypeCorrect, PTL DEF Spec

\* Whatever is replayed, reset or sold by whichever node, the metrics account
\* once for every ledger entry made since they were cleared.
THEOREM MetricsAccountForLedger == Spec => []MetricsMatchLedger
<1>1. Accounted => MetricsMatchLedger
  BY DEF Accounted
<1> QED
  BY <1>1, AccountedInvariant, PTL
-----------------------------------------------------------------------------
(* Service times and windows.                                              *)

\* Multiplication is monotone.
LEMMA ProductGrows ==
    ASSUME NEW c \in Nat, NEW x \in Nat, NEW y \in Nat, x <= y
    PROVE  /\ c * x \in Nat /\ c * x <= c * y
           /\ (c + 1) * x = c * x + x
OBVIOUS

\* What one namespace records of time: nothing before the first buy; then
\* extremes and readings, of which the last is not ahead of the clock unless
\* the clock was set back.
NoTimes(m) == m.lat_sum = 0 /\ m.lat_max = Absent /\ m.lat_min = Absent /\ m.first_ts = Absent

Times(m, now, back) ==
    IF m.count = 0 THEN NoTimes(m)
    ELSE /\ m.lat_max \in Nat /\ m.lat_min \in Nat
         /\ m.first_ts \in Nat /\ m.last_ts \in Nat
         /\ m.count * m.lat_min <= m.lat_sum /\ m.lat_sum <= m.count * m.lat_max
         /\ ~back => m.last_ts <= now /\ m.lat_sum - m.lat_max <= m.last_ts - m.first_ts

Timed == \A a \in ARCHITECTURES : Times(db.metrics[a], clock, slipped)

\* One more service time keeps the bounds on the sum, and the window covers it, unless the
\* clock is set back.
LEMMA RecordedTimes ==
    ASSUME NEW m \in Metrics, NEW replay \in BOOLEAN, NEW o \in Outcomes,
           NEW t0 \in Nat, NEW t1 \in Nat, NEW back \in BOOLEAN, Times(m, t0, back)
    PROVE  Times(RecordMetrics(m, replay, o, t0, t1), t1, back \/ t1 < t0)
<1> DEFINE lat == Latency(t0, t1)
           r == RecordMetrics(m, replay, o, t0, t1)
<1>1. lat \in Nat /\ (~(t1 < t0) => lat = t1 - t0)
  BY DEF Latency
<1>2. /\ m.count \in Nat /\ m.lat_sum \in Nat
      /\ m.lat_max \in Nat \cup {Absent} /\ m.lat_min \in Nat \cup {Absent}
      /\ m.first_ts \in Nat \cup {Absent} /\ m.last_ts \in Nat \cup {Absent}
  BY DEF Metrics
<1> HIDE DEF lat
<1>3. /\ r.count = m.count + 1 /\ r.lat_sum = m.lat_sum + lat
      /\ r.lat_max = IF lat > m.lat_max THEN lat ELSE m.lat_max
      /\ r.lat_min = IF m.lat_min = Absent \/ lat < m.lat_min THEN lat ELSE m.lat_min
      /\ r.first_ts = IF m.first_ts = Absent THEN t1 ELSE m.first_ts
      /\ r.last_ts = t1
  BY DEF RecordMetrics, lat
<1> SUFFICES Times(r, t1, back \/ t1 < t0)
  BY DEF lat
<1> HIDE DEF r
<1>4. CASE m.count = 0
  <2>1. NoTimes(m)
    BY <1>4 DEF Times
  <2>2. /\ r.count = 1 /\ r.lat_sum = lat /\ r.lat_max = lat /\ r.lat_min = lat
        /\ r.first_ts = t1 /\ r.last_ts = t1
    BY <1>1, <1>3, <1>4, <2>1 DEF NoTimes, Absent
  <2> QED
    BY <1>1, <2>2 DEF Times, Absent
<1>5. CASE m.count # 0
  <2>1. /\ m.lat_max \in Nat /\ m.lat_min \in Nat
        /\ m.first_ts \in Nat /\ m.last_ts \in Nat
        /\ m.count * m.lat_min <= m.lat_sum /\ m.lat_sum <= m.count * m.lat_max
        /\ ~back => m.last_ts <= t0 /\ m.lat_sum - m.lat_max <= m.last_ts - m.first_ts
    BY <1>5 DEF Times
  <2>2. /\ r.lat_max \in Nat /\ lat <= r.lat_max /\ m.lat_max <= r.lat_max
        /\ r.lat_min \in Nat /\ r.lat_min <= lat /\ r.lat_min <= m.lat_min
        /\ r.first_ts = m.first_ts
    BY <1>1, <1>3, <2>1 DEF Absent
  <2>3. r.count * r.lat_min <= r.lat_sum
    <3>1. m.count * r.lat_min <= m.count * m.lat_min /\ m.count * r.lat_min \in Nat
            /\ m.count * m.lat_min \in Nat /\ r.count * r.lat_min = m.count * r.lat_min + r.lat_min
      <4>1. /\ m.count \in Nat /\ r.lat_min \in Nat /\ m.lat_min \in Nat
            /\ r.lat_min <= m.lat_min /\ m.lat_min <= m.lat_min
        BY <1>2, <2>1, <2>2
      <4>2. /\ m.count * r.lat_min <= m.count * m.lat_min /\ m.count * r.lat_min \in Nat
            /\ (m.count + 1) * r.lat_min = m.count * r.lat_min + r.lat_min
        BY Zenon, <4>1, ProductGrows
      <4>3. m.count * m.lat_min \in Nat
        BY Zenon, <4>1, ProductGrows
      <4> QED  BY Zenon, <1>3, <4>2, <4>3
    <3> DEFINE X == m.count * r.lat_min
               Y == m.count * m.lat_min
               Z == r.count * r.lat_min
    <3>2. X \in Nat /\ Y \in Nat /\ X <= Y /\ Z = X + r.lat_min /\ Y <= m.lat_sum
      BY <2>1, <3>1
    <3> HIDE DEF X, Y, Z
    <3>3. Z <= r.lat_sum
      BY <1>1, <1>2, <1>3, <2>2, <3>2
    <3> QED  BY <3>3 DEF Z
  <2>4. r.lat_sum <= r.count * r.lat_max
    <3>1. m.count * m.lat_max <= m.count * r.lat_max /\ m.count * r.lat_max \in Nat
            /\ m.count * m.lat_max \in Nat /\ r.count * r.lat_max = m.count * r.lat_max + r.lat_max
      <4>1. /\ m.count \in Nat /\ r.lat_max \in Nat /\ m.lat_max \in Nat
            /\ m.lat_max <= r.lat_max /\ r.lat_max <= r.lat_max
        BY <1>2, <2>1, <2>2
      <4>2. m.count * m.lat_max <= m.count * r.lat_max /\ m.count * m.lat_max \in Nat
        BY Zenon, <4>1, ProductGrows
      <4>3. /\ m.count * r.lat_max \in Nat
            /\ (m.count + 1) * r.lat_max = m.count * r.lat_max + r.lat_max
        BY Zenon, <4>1, ProductGrows
      <4> QED  BY Zenon, <1>3, <4>2, <4>3
    <3> DEFINE X == m.count * r.lat_max
               Y == m.count * m.lat_max
               Z == r.count * r.lat_max
    <3>2. X \in Nat /\ Y \in Nat /\ Y <= X /\ Z = X + r.lat_max /\ m.lat_sum <= Y
      BY <2>1, <3>1
    <3> HIDE DEF X, Y, Z
    <3>3. r.lat_sum <= Z
      BY <1>1, <1>2, <1>3, <2>2, <3>2
    <3> QED  BY <3>3 DEF Z
  <2>5. ~back /\ ~(t1 < t0) =>
          r.last_ts <= t1 /\ r.lat_sum - r.lat_max <= r.last_ts - r.first_ts
    BY <1>1, <1>2, <1>3, <2>1, <2>2
  <2>6. r.count # 0 /\ r.first_ts \in Nat /\ r.last_ts \in Nat
    BY <1>2, <1>3, <2>1, <2>2
  <2> QED
    BY <2>2, <2>3, <2>4, <2>5, <2>6 DEF Times
<1> QED
  BY <1>4, <1>5

\* Time passes for the namespace that does not buy.
LEMMA IdleTimes ==
    ASSUME NEW m \in Metrics, NEW t0 \in Nat, NEW t1 \in Nat, NEW back \in BOOLEAN,
           Times(m, t0, back)
    PROVE  Times(m, t1, back \/ t1 < t0)
<1>1. CASE m.count = 0
  BY <1>1 DEF Times
<1>2. CASE m.count # 0
  <2>1. m.last_ts \in Nat /\ m.first_ts \in Nat
    BY <1>2 DEF Times
  <2>2. ~(back \/ t1 < t0) => m.last_ts <= t1
    BY <1>2, <2>1 DEF Times
  <2> QED
    BY <1>2, <2>2 DEF Times
<1> QED
  BY <1>1, <1>2

\* Both namespaces keep those bounds throughout.
LEMMA TimedInvariant == Spec => []Timed
<1>1. ASSUME NEW now, NEW back PROVE \A a \in ARCHITECTURES : Times(NoMetrics[a], now, back)
  BY DEF Times, NoTimes, NoMetrics, EmptyMetrics
<1>2. Init => Timed
  BY <1>1 DEF Init, Timed, EmptyDb
<1>3. TypeOK /\ Timed /\ [Next]_vars => Timed'
  <2> SUFFICES ASSUME TypeOK, Timed, [Next]_vars, NEW a \in ARCHITECTURES
               PROVE  Times(db'.metrics[a], clock', slipped')
    BY DEF Timed
  <2>1. /\ Times(db.metrics[a], clock, slipped)
        /\ db \in Db /\ db.metrics \in [ARCHITECTURES -> Metrics]
        /\ clock \in Nat /\ slipped \in BOOLEAN
    BY DEF Timed, TypeOK, Db
  <2>2. ASSUME NEW s \in Stores, NEW p \in Purchases, Attempt(s, p)
        PROVE  Times(db'.metrics[a], clock', slipped')
    <3>1. PICK t1 \in 0..MaxClock : ReadClock(t1) /\ db' = Buy(db, s, p, clock, t1)
      BY <2>2 DEF Attempt
    <3>2. t1 \in Nat /\ clock' = t1 /\ slipped' = (slipped \/ t1 < clock)
      BY <3>1, ReadingsType DEF ReadClock
    <3> DEFINE o == Outcome(Sell(db, p), p)
               replay == IsReplay(db, p)
    <3>3. o \in Outcomes /\ replay \in BOOLEAN /\ s.arch \in ARCHITECTURES
      BY <2>1, SellDecides, StoresAssumption DEF IsReplay
    <3>4. db'.metrics = [db.metrics EXCEPT ![s.arch] = RecordMetrics(@, replay, o, clock, t1)]
      BY <2>1, <3>1, <3>2, BuyMetrics
    <3> HIDE DEF o, replay
    <3>5. CASE a = s.arch
      <4>1. db'.metrics[a] = RecordMetrics(db.metrics[a], replay, o, clock, t1)
        BY <2>1, <3>4, <3>5
      <4>2. Times(RecordMetrics(db.metrics[a], replay, o, clock, t1), t1, slipped \/ t1 < clock)
        BY <2>1, <3>2, <3>3, RecordedTimes
      <4> QED  BY Zenon, <3>2, <4>1, <4>2
    <3>6. CASE a # s.arch
      <4>1. db'.metrics[a] = db.metrics[a]
        BY <2>1, <3>3, <3>4, <3>6
      <4>2. Times(db.metrics[a], t1, slipped \/ t1 < clock)
        BY <2>1, <3>2, IdleTimes
      <4> QED  BY Zenon, <3>2, <4>1, <4>2
    <3> QED  BY <3>5, <3>6
  <2>3. CASE Tick
    <3>1. PICK t \in 0..MaxClock : ReadClock(t)
      BY <2>3 DEF Tick
    <3>2. t \in Nat /\ clock' = t /\ slipped' = (slipped \/ t < clock) /\ db' = db
      BY <2>3, <3>1, ReadingsType DEF ReadClock, Tick
    <3>3. Times(db.metrics[a], t, slipped \/ t < clock)
      BY <2>1, <3>2, IdleTimes
    <3> QED  BY Zenon, <3>2, <3>3
  <2>4. CASE ResetAll \/ ResetMetrics
    <3>1. db'.metrics = NoMetrics
      <4>1. CASE ResetAll
        BY <4>1 DEF ResetAll, EmptyDb
      <4>2. CASE ResetMetrics
        BY <2>1, <4>2 DEF ResetMetrics, ClearMetrics, Db
      <4> QED  BY <2>4, <4>1, <4>2
    <3> QED  BY <1>1, <3>1
  <2>5. CASE UNCHANGED vars
    <3>1. db' = db /\ clock' = clock /\ slipped' = slipped
      BY Zenon, <2>5 DEF vars
    <3> QED  BY Zenon, <2>1, <3>1
  <2> QED
    BY <2>2, <2>3, <2>4, <2>5 DEF Next, BuyUnnumbered, BuyNumbered
<1> QED
  BY <1>2, <1>3, TypeCorrect, PTL DEF Spec

\* Clamped service times never drag an average out of its extremes, however
\* the clock is adjusted.
THEOREM LatenciesAreBounded == Spec => []LatencyBounds
<1>1. TypeOK /\ Timed => LatencyBounds
  <2> SUFFICES ASSUME TypeOK, Timed, NEW a \in ARCHITECTURES, db.metrics[a].count > 0
               PROVE  /\ 0 <= db.metrics[a].lat_min
                      /\ db.metrics[a].count * db.metrics[a].lat_min <= db.metrics[a].lat_sum
                      /\ db.metrics[a].lat_sum <= db.metrics[a].count * db.metrics[a].lat_max
    BY DEF LatencyBounds
  <2>1. Times(db.metrics[a], clock, slipped) /\ db.metrics[a].count # 0
    BY DEF Timed, TypeOK, Db, Metrics
  <2> QED
    BY <2>1 DEF Times
<1> QED
  BY <1>1, TimedInvariant, TypeCorrect, PTL

\* Scripts run one at a time: while the clock is not set back, the window
\* read_metrics divides by covers all service times but the longest.
THEOREM WindowsCoverService == Spec => []WindowCoversService
<1>1. TypeOK /\ Timed => WindowCoversService
  <2> SUFFICES ASSUME TypeOK, Timed, NEW a \in ARCHITECTURES,
                      db.metrics[a].count > 0, ~slipped
               PROVE  db.metrics[a].lat_sum - db.metrics[a].lat_max
                         <= db.metrics[a].last_ts - db.metrics[a].first_ts
    BY DEF WindowCoversService
  <2>1. Times(db.metrics[a], clock, slipped) /\ db.metrics[a].count # 0
    BY DEF Timed, TypeOK, Db, Metrics
  <2> QED
    BY <2>1 DEF Times
<1> QED
  BY <1>1, TimedInvariant, TypeCorrect, PTL
=============================================================================
