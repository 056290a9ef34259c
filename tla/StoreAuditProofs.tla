--------------------------- MODULE StoreAuditProofs ---------------------------
(***************************************************************************)
(* Proofs about StoreAudit: a reader of a store that others are using errs *)
(* in one direction only, and in none if they leave it alone meanwhile.    *)
(***************************************************************************)
EXTENDS StoreAudit, TicketStoreProofs

Load == db.nodes[AuditedArch]
Tickets(d) == IF Benchmark = "numbered" THEN Cardinality(d.seats) ELSE d.sold
TicketsRead == IF Benchmark = "numbered" THEN reads >= 2 ELSE reads >= 1

\* What one would read at once agrees.
StoreAgrees ==
    /\ IsFiniteSet(Credits(Load))
    /\ db.metrics[AuditedArch].count = Cardinality(Credits(Load))
    /\ forgotten = {} => db.metrics[AuditedArch].ok = Tickets(db)

\* What has been read is at most what is there, and what was read first at
\* most what was read later, unless there was a reset in between.
LeansOneWay ==
    "reset" \notin disturbed =>
        /\ TicketsRead => SoldOf(Benchmark) <= Tickets(db)
        /\ reads >= 3 /\ forgotten = {} => SoldOf(Benchmark) <= seen.metrics.ok
        /\ reads >= 3 => seen.metrics.count <= Cardinality(Credits(Load))
        /\ Finished => seen.metrics.count <= ByNode

\* What has been read is still there, if nothing happened since.
StillThere == disturbed = {} => \A i \in 1..reads : seen[ReadOrder[i]] = Stored[ReadOrder[i]]

AuditInv == StoreAgrees /\ LeansOneWay /\ StillThere

-----------------------------------------------------------------------------
(* The store below.                                                        *)

\* A buy is a buy of the purchase's own ticket model.
LEMMA AttemptIsNext ==
    ASSUME NEW s \in Stores, NEW p \in Purchases, Attempt(s, p)
    PROVE  Next
BY PurchasesAssumption DEF Next, BuyUnnumbered, BuyNumbered, Kinds

\* Reading disturbs nothing: the store under audit behaves as any ticket store
\* does, so all that is proved of TicketStore holds of it.
THEOREM AuditedStoreIsAStore == AuditSpec => Spec
<1>1. AuditInit => Init
  BY DEF AuditInit
<1>2. [AuditNext]_<<vars, auditVars>> => [Next]_vars
  <2> SUFFICES ASSUME [AuditNext]_<<vars, auditVars>>, ~UNCHANGED vars PROVE Next
    OBVIOUS
  <2> QED
    BY AttemptIsNext DEF AuditNext, ReadNextKey, AuditAgain, BuyMeanwhile, ResetMeanwhile, Next
<1> QED
  BY <1>1, <1>2, PTL DEF AuditSpec, Spec

\* The four keys, in the order in which they are read.
LEMMA KeysRead ==
    /\ Len(ReadOrder) = 4
    /\ ReadOrder[1] = "unnumbered_sold" /\ ReadOrder[2] = "numbered_sold"
    /\ ReadOrder[3] = "metrics" /\ ReadOrder[4] = "nodes"
BY DEF ReadOrder

\* What can be read at once.
LEMMA StoredType ==
    ASSUME TypeOK, Counted
    PROVE  Stored \in [unnumbered_sold : Nat, numbered_sold : Nat, metrics : Metrics,
                       nodes : [Nodes -> Nat]]
<1>1. Cardinality(db.seats) \in Nat
  BY FS_CardinalityType DEF Counted
<1> QED
  BY <1>1, BenchmarkAssumption DEF Stored, TypeOK, Db

\* Whatever is read is a possible content of the keys.
THEOREM AuditTypeCorrect == AuditSpec => []AuditTypeOK
<1> DEFINE AuditTypes ==
      /\ reads \in 0..Len(ReadOrder)
      /\ seen \in [unnumbered_sold : Nat, numbered_sold : Nat, metrics : Metrics,
                   nodes : [Nodes -> Nat]]
      /\ disturbed \subseteq {"buy", "reset"}
<1>1. NothingSeen \in [unnumbered_sold : Nat, numbered_sold : Nat, metrics : Metrics,
                       nodes : [Nodes -> Nat]]
  BY DEF NothingSeen, EmptyMetrics, Metrics, Absent
<1>2. AuditInit => AuditTypes
  BY <1>1, KeysRead DEF AuditInit
<1>3. TypeOK /\ Counted /\ AuditTypes /\ [AuditNext]_<<vars, auditVars>> => AuditTypes'
  <2> SUFFICES ASSUME TypeOK, Counted, AuditTypes, [AuditNext]_<<vars, auditVars>>
               PROVE  AuditTypes'
    OBVIOUS
  <2>1. CASE ReadNextKey
    <3>1. reads \in 0..3 /\ reads' = reads + 1 /\ disturbed' = disturbed
      BY <2>1, KeysRead DEF ReadNextKey, Finished
    <3>2. seen' = [seen EXCEPT ![ReadOrder[reads + 1]] = Stored[ReadOrder[reads + 1]]]
      BY <2>1 DEF ReadNextKey
    <3>3. reads + 1 \in 1..4
      BY <3>1
    <3>4. ReadOrder[reads + 1] \in {"unnumbered_sold", "numbered_sold", "metrics", "nodes"}
      BY <3>3, KeysRead
    <3> HIDE DEF AuditTypes
    <3>5. seen' \in [unnumbered_sold : Nat, numbered_sold : Nat, metrics : Metrics,
                     nodes : [Nodes -> Nat]]
      BY <3>2, <3>4, StoredType DEF AuditTypes
    <3> QED  BY <3>1, <3>5, KeysRead DEF AuditTypes
  <2>2. CASE AuditAgain
    BY <1>1, <2>2, KeysRead DEF AuditAgain
  <2>3. CASE BuyMeanwhile \/ ResetMeanwhile
    BY <2>3 DEF BuyMeanwhile, ResetMeanwhile, Disturbed
  <2>4. CASE UNCHANGED <<vars, auditVars>>
    BY <2>4 DEF auditVars
  <2> QED
    BY <2>1, <2>2, <2>3, <2>4 DEF AuditNext
<1>4. TypeOK /\ AuditTypes => AuditTypeOK
  BY DEF AuditTypeOK
<1>5. AuditSpec => [](TypeOK /\ Counted)
  BY AuditedStoreIsAStore, TypeCorrect, CountedInvariant, PTL
<1> HIDE DEF AuditTypes
<1> QED
  BY <1>2, <1>3, <1>4, <1>5, PTL DEF AuditSpec

-----------------------------------------------------------------------------
(* What is stored.                                                         *)

\* One more delivery is one more credit.
LEMMA CreditGiven ==
    ASSUME NEW load \in [Nodes -> Nat], NEW more \in [Nodes -> Nat], NEW n \in Nodes,
           more[n] = load[n] + 1, \A v \in Nodes : v # n => more[v] = load[v]
    PROVE  /\ Credits(more) = Credits(load) \cup {<<n, load[n] + 1>>}
           /\ <<n, load[n] + 1>> \notin Credits(load)
<1>1. \A l \in [Nodes -> Nat] : \A c :
        c \in Credits(l) <=> \E v \in Nodes : \E i \in 1..l[v] : c = <<v, i>>
  BY DEF Credits
<1>2. \A i : i \in 1..more[n] <=> i \in 1..load[n] \/ i = load[n] + 1
  OBVIOUS
<1>3. \A v \in Nodes : v # n => 1..more[v] = 1..load[v]
  OBVIOUS
<1>4. load[n] + 1 \notin 1..load[n]
  OBVIOUS
<1>5. ASSUME NEW c PROVE c \in Credits(more) <=> c \in Credits(load) \/ c = <<n, load[n] + 1>>
  BY <1>1, <1>2, <1>3
<1>6. <<n, load[n] + 1>> \notin Credits(load)
  BY <1>1, <1>4
<1> QED
  BY <1>5, <1>6

\* A cleared store has given no credit.
LEMMA NoCredits == Credits(NoLoad[AuditedArch]) = {}
BY BenchmarkAssumption DEF Credits, NoLoad

\* A buy that grants a ticket counts one OK, and any other none.
LEMMA TicketForOK ==
    ASSUME NEW d \in Db, IsFiniteSet(d.seats), NEW p \in Purchases
    PROVE  LET e == Sell(d, p)
           IN Tickets(e) = Tickets(d) + (IF ~IsReplay(d, p) /\ Outcome(e, p) = "OK" THEN 1 ELSE 0)
<1> DEFINE e == Sell(d, p)
<1>1. p.type = Benchmark /\ Benchmark \in Kinds /\ p.request_id \in Requests
  BY BenchmarkAssumption DEF Requests
<1>2. d.sold \in Nat /\ Cardinality(d.seats) \in Nat
  BY FS_CardinalityType DEF Db
<1>3. \A o : Decided(d, e, p, o) => Outcome(e, p) = o
  BY <1>1 DEF Decided, Outcome, Db
<1>4. Cardinality(d.seats \cup {p.seat_id}) =
        IF p.seat_id \in d.seats THEN Cardinality(d.seats) ELSE Cardinality(d.seats) + 1
  BY FS_AddElement
<1> HIDE DEF e
<1>5. \/ IsReplay(d, p) /\ e = d
      \/ /\ ~IsReplay(d, p) /\ p.type = "unnumbered"
         /\ e.sold = d.sold + 1 /\ Outcome(e, p) = "OK"
      \/ /\ ~IsReplay(d, p) /\ p.type = "numbered" /\ p.seat_id \notin d.seats
         /\ e.seats = d.seats \cup {p.seat_id} /\ Outcome(e, p) = "OK"
      \/ /\ ~IsReplay(d, p) /\ e.sold = d.sold /\ e.seats = d.seats
         /\ Outcome(e, p) = "REJECTED"
  BY <1>3, SellCases DEF e
<1>6. Tickets(e) = Tickets(d) + (IF ~IsReplay(d, p) /\ Outcome(e, p) = "OK" THEN 1 ELSE 0)
  <2>1. CASE IsReplay(d, p)
    BY <1>2, <1>5, <2>1 DEF Tickets
  <2>2. CASE ~IsReplay(d, p) /\ Outcome(e, p) = "OK" /\ p.type = "unnumbered"
    BY <1>1, <1>2, <1>5, <2>2 DEF Tickets
  <2>3. CASE ~IsReplay(d, p) /\ Outcome(e, p) = "OK" /\ p.type = "numbered"
    BY <1>1, <1>2, <1>4, <1>5, <2>3 DEF Tickets
  <2>4. CASE ~IsReplay(d, p) /\ Outcome(e, p) # "OK"
    BY <1>2, <1>5, <2>4 DEF Tickets
  <2> QED  BY <1>1, <2>1, <2>2, <2>3, <2>4 DEF Kinds
<1> QED
  BY <1>6 DEF e

\* A buy keeps the keys in agreement, and takes nothing back.
LEMMA BuyAgrees ==
    ASSUME TypeOK, Counted, StoreAgrees, NEW s \in Stores, NEW p \in Purchases, Attempt(s, p)
    PROVE  /\ StoreAgrees'
           /\ Tickets(db) <= Tickets(db')
           /\ Cardinality(Credits(Load)) <= Cardinality(Credits(Load)')
           /\ Tickets(db) \in Nat /\ Tickets(db') \in Nat
           /\ Cardinality(Credits(Load)) \in Nat /\ Cardinality(Credits(Load)') \in Nat
<1>1. PICK t1 \in 0..MaxClock : db' = Buy(db, s, p, clock, t1)
  BY DEF Attempt
<1>2. /\ db \in Db /\ clock \in Nat /\ t1 \in Nat
      /\ s.arch = AuditedArch /\ AuditedArch \in ARCHITECTURES /\ s.node_id \in Nodes
      /\ forgotten' = forgotten
  BY BenchmarkAssumption, ReadingsType DEF TypeOK, Nodes, Attempt
<1>3. db' \in Db /\ db'.sold = Sell(db, p).sold /\ db'.seats = Sell(db, p).seats
  BY <1>1, <1>2, BuyType
<1>4. /\ Load \in [Nodes -> Nat] /\ Load' \in [Nodes -> Nat]
      /\ Load'[s.node_id] = Load[s.node_id] + 1
      /\ \A v \in Nodes : v # s.node_id => Load'[v] = Load[v]
  <2>1. Load \in [Nodes -> Nat] /\ Load' \in [Nodes -> Nat]
    BY <1>2, <1>3 DEF Load, Db
  <2>2. LET e == Buy(db, s, p, clock, t1)
        IN /\ e.nodes[s.arch][s.node_id] = db.nodes[s.arch][s.node_id] + 1
           /\ \A n \in Nodes : n # s.node_id => e.nodes[s.arch][n] = db.nodes[s.arch][n]
    BY <1>2, BuyLoad
  <2> QED  BY <1>1, <1>2, <2>1, <2>2 DEF Load
<1>5. /\ Credits(Load)' = Credits(Load) \cup {<<s.node_id, Load[s.node_id] + 1>>}
      /\ <<s.node_id, Load[s.node_id] + 1>> \notin Credits(Load)
  BY <1>2, <1>4, CreditGiven DEF Credits
<1>6. /\ IsFiniteSet(Credits(Load)')
      /\ Cardinality(Credits(Load)') = Cardinality(Credits(Load)) + 1
      /\ Cardinality(Credits(Load)) \in Nat
  BY <1>5, FS_AddElement, FS_CardinalityType DEF StoreAgrees
<1>7. /\ db'.metrics[AuditedArch].count = db.metrics[AuditedArch].count + 1
      /\ db'.metrics[AuditedArch].ok = db.metrics[AuditedArch].ok
           + (IF ~IsReplay(db, p) /\ Outcome(Sell(db, p), p) = "OK" THEN 1 ELSE 0)
  <2>1. db.metrics \in [ARCHITECTURES -> Metrics]
    BY <1>2 DEF Db
  <2>2. db'.metrics[AuditedArch] =
          RecordMetrics(db.metrics[AuditedArch], IsReplay(db, p), Outcome(Sell(db, p), p), clock, t1)
    <3>1. Buy(db, s, p, clock, t1).metrics =
            [db.metrics EXCEPT ![s.arch] =
                RecordMetrics(@, IsReplay(db, p), Outcome(Sell(db, p), p), clock, t1)]
      BY <1>2, BuyMetrics
    <3> QED  BY <1>1, <1>2, <2>1, <3>1
  <2> QED  BY <2>2 DEF RecordMetrics
<1>8. Tickets(db') = Tickets(Sell(db, p))
  BY <1>3 DEF Tickets
<1>9. Tickets(db') =
        Tickets(db) + (IF ~IsReplay(db, p) /\ Outcome(Sell(db, p), p) = "OK" THEN 1 ELSE 0)
  BY <1>2, <1>8, TicketForOK DEF Counted
<1>10. Tickets(db) \in Nat
  BY <1>2, FS_CardinalityType DEF Tickets, Counted, Db
<1> QED
  BY <1>2, <1>6, <1>7, <1>9, <1>10 DEF StoreAgrees

\* So does a reset: what it forgets, it forgets in all keys.
LEMMA ResetAgrees ==
    ASSUME TypeOK, Counted, ResetAll \/ ResetMetrics
    PROVE  StoreAgrees'
<1>1. /\ db'.nodes[AuditedArch] = NoLoad[AuditedArch]
      /\ db'.metrics[AuditedArch].count = 0 /\ db'.metrics[AuditedArch].ok = 0
  <2>1. db'.nodes = NoLoad /\ db'.metrics = NoMetrics
    <3>1. CASE ResetAll
      BY <3>1 DEF ResetAll, EmptyDb
    <3>2. CASE ResetMetrics
      BY <3>2 DEF ResetMetrics, ClearMetrics, TypeOK, Db
    <3> QED  BY <3>1, <3>2
  <2> QED  BY <2>1, BenchmarkAssumption DEF NoMetrics, EmptyMetrics
<1>2. Credits(Load)' = {}
  BY <1>1, NoCredits DEF Load, Credits
<1>3. forgotten' = {} => Tickets(db') = 0
  <2>1. CASE ResetAll
    BY <2>1, FS_EmptySet DEF ResetAll, EmptyDb, Tickets
  <2>2. CASE ResetMetrics
    <3> SUFFICES ASSUME forgotten' = {} PROVE Tickets(db') = 0
      OBVIOUS
    <3>1. db'.sold = db.sold /\ db'.seats = db.seats
      BY <2>2, ClearMetricsType DEF ResetMetrics, TypeOK
    <3>2. Ledger("OK") = {}
      BY <2>2 DEF ResetMetrics
    <3>3. \A k \in Kinds : Sold(k) = {}
      <4> SUFFICES ASSUME NEW k \in Kinds, NEW r \in Requests, db.processed[k][r] = "OK" PROVE FALSE
        BY DEF Sold
      <4>1. <<k, r>> \in Ledger("OK")
        BY DEF Ledger
      <4> QED  BY <3>2, <4>1
    <3>4. db.sold = 0 /\ Cardinality(db.seats) = 0
      BY <3>3, FS_EmptySet DEF Counted, NoOverselling, OneSeatPerSale, Kinds
    <3> QED  BY <3>1, <3>4 DEF Tickets
  <2> QED  BY <2>1, <2>2
<1> QED
  BY <1>1, <1>2, <1>3, FS_EmptySet DEF StoreAgrees

-----------------------------------------------------------------------------
(* What is read.                                                           *)

\* The next key read is as it is stored; those read before are as they were.
LEMMA ReadsOneMore ==
    ASSUME AuditTypeOK, ReadNextKey
    PROVE  /\ reads \in 0..3 /\ reads' = reads + 1
           /\ Stored' = Stored /\ UNCHANGED <<db, forgotten, disturbed>>
           /\ seen'[ReadOrder[reads']] = Stored[ReadOrder[reads']]
           /\ \A i \in 1..reads : seen'[ReadOrder[i]] = seen[ReadOrder[i]]
<1>1. reads \in 0..3 /\ reads' = reads + 1 /\ UNCHANGED <<db, forgotten, disturbed>>
  BY KeysRead DEF ReadNextKey, Finished, AuditTypeOK, vars
<1>2. seen' = [seen EXCEPT ![ReadOrder[reads + 1]] = Stored[ReadOrder[reads + 1]]]
  BY DEF ReadNextKey
<1>3. \A i \in 1..4 : ReadOrder[i] \in {"unnumbered_sold", "numbered_sold", "metrics", "nodes"}
  BY KeysRead
<1>4. \A i \in 1..reads : i \in 1..4 /\ ReadOrder[i] # ReadOrder[reads + 1]
  BY <1>1, KeysRead
<1>5. DOMAIN seen = {"unnumbered_sold", "numbered_sold", "metrics", "nodes"}
  BY DEF AuditTypeOK
<1>6. reads + 1 \in 1..4
  BY <1>1
<1>7. Stored' = Stored
  BY <1>1 DEF Stored
<1> QED
  BY <1>1, <1>2, <1>3, <1>4, <1>5, <1>6, <1>7

\* A read keeps to the order of the keys.
LEMMA ReadKeepsAudit ==
    ASSUME AuditTypeOK, Counted, AuditInv, ReadNextKey
    PROVE  AuditInv'
<1>1. /\ reads \in 0..3 /\ reads' = reads + 1
      /\ Stored' = Stored /\ UNCHANGED <<db, forgotten, disturbed>>
      /\ seen'[ReadOrder[reads']] = Stored[ReadOrder[reads']]
      /\ \A i \in 1..reads : seen'[ReadOrder[i]] = seen[ReadOrder[i]]
  BY ReadsOneMore
<1>2. StoreAgrees'
  BY <1>1 DEF AuditInv, StoreAgrees, Load, Tickets, Credits
<1>3. StillThere'
  <2> SUFFICES ASSUME disturbed = {}, NEW i \in 1..reads'
               PROVE  seen'[ReadOrder[i]] = Stored[ReadOrder[i]]
    BY <1>1 DEF StillThere
  <2>1. CASE i = reads'
    BY <1>1, <2>1
  <2>2. CASE i # reads'
    <3>1. i \in 1..reads
      BY <1>1, <2>2
    <3> QED  BY <1>1, <3>1 DEF AuditInv, StillThere
  <2> QED  BY <2>1, <2>2
<1>4. LeansOneWay'
  <2> SUFFICES ASSUME "reset" \notin disturbed PROVE LeansOneWay'
    BY <1>1 DEF LeansOneWay
  <2>1. /\ reads = 0 => seen'.unnumbered_sold = db.sold
        /\ reads = 1 => seen'.numbered_sold = Cardinality(db.seats)
        /\ reads = 2 => seen'.metrics = db.metrics[AuditedArch]
        /\ reads = 3 => seen'.nodes = Load
    BY <1>1, KeysRead DEF Stored, Load
  <2>2. /\ reads >= 1 => seen'.unnumbered_sold = seen.unnumbered_sold
        /\ reads >= 2 => seen'.numbered_sold = seen.numbered_sold
        /\ reads >= 3 => seen'.metrics = seen.metrics
    BY <1>1, KeysRead
  <2>3. /\ db.sold \in Nat /\ Cardinality(db.seats) \in Nat /\ Cardinality(Credits(Load)) \in Nat
    BY FS_CardinalityType DEF AuditTypeOK, TypeOK, Db, Counted, AuditInv, StoreAgrees
  <2>4. TicketsRead' => SoldOf(Benchmark)' <= Tickets(db)
    <3>1. TicketsRead => SoldOf(Benchmark)' = SoldOf(Benchmark) /\ SoldOf(Benchmark) <= Tickets(db)
      BY <1>1, <2>2 DEF AuditInv, LeansOneWay, TicketsRead, SoldOf
    <3>2. TicketsRead' /\ ~TicketsRead => SoldOf(Benchmark)' = Tickets(db)
      BY <1>1, <2>1, BenchmarkAssumption DEF TicketsRead, SoldOf, Tickets, Kinds
    <3>3. Tickets(db) \in Nat
      BY <2>3 DEF Tickets
    <3> QED  BY <3>1, <3>2, <3>3
  <2>5. reads' >= 3 /\ forgotten = {} => SoldOf(Benchmark)' <= seen'.metrics.ok
    <3>1. CASE reads = 2
      BY <1>1, <2>1, <2>4, <3>1 DEF AuditInv, StoreAgrees, TicketsRead
    <3>2. CASE reads = 3
      BY <1>1, <2>2, <3>2 DEF AuditInv, LeansOneWay, SoldOf
    <3> QED  BY <1>1, <3>1, <3>2
  <2>6. reads' >= 3 => seen'.metrics.count <= Cardinality(Credits(Load))
    BY <1>1, <2>1, <2>2, <2>3 DEF AuditInv, StoreAgrees, LeansOneWay
  <2>7. Finished' => reads = 3
    BY <1>1, KeysRead DEF Finished
  <2>8. Finished' => seen'.metrics.count <= ByNode'
    BY <1>1, <2>1, <2>6, <2>7 DEF ByNode, Credits
  <2>9. Credits(Load)' = Credits(Load) /\ Tickets(db)' = Tickets(db)
    BY <1>1 DEF Credits, Load, Tickets
  <2> QED  BY <1>1, <2>4, <2>5, <2>6, <2>8, <2>9 DEF LeansOneWay
<1> QED
  BY <1>2, <1>3, <1>4 DEF AuditInv

\* An audit that has read nothing knows nothing that could be wrong.
LEMMA NothingReadIsTrue ==
    ASSUME StoreAgrees, reads = 0
    PROVE  AuditInv
BY KeysRead DEF AuditInv, LeansOneWay, StillThere, TicketsRead, Finished

\* What others do leaves what has been read behind, unless they reset.
LEMMA OthersKeepAudit ==
    ASSUME AuditTypeOK, Counted, AuditInv, BuyMeanwhile \/ ResetMeanwhile
    PROVE  AuditInv'
<1>1. StoreAgrees'
  BY BuyAgrees, ResetAgrees DEF BuyMeanwhile, ResetMeanwhile, AuditTypeOK, AuditInv
<1>2. UNCHANGED <<reads, seen>>
  BY DEF BuyMeanwhile, ResetMeanwhile, Disturbed
<1>3. CASE reads = 0
  BY <1>1, <1>2, <1>3, KeysRead DEF AuditInv, LeansOneWay, StillThere, TicketsRead, Finished
<1>4. CASE reads # 0
  <2>1. StillThere'
    BY <1>4 DEF StillThere, BuyMeanwhile, ResetMeanwhile, Disturbed
  <2>2. LeansOneWay'
    <3>1. CASE ResetMeanwhile
      BY <1>4, <3>1 DEF LeansOneWay, ResetMeanwhile, Disturbed
    <3>2. CASE BuyMeanwhile
      <4> SUFFICES ASSUME "reset" \notin disturbed' PROVE LeansOneWay'
        BY DEF LeansOneWay
      <4>1. "reset" \notin disturbed
        BY <1>4, <3>2 DEF BuyMeanwhile, Disturbed
      <4>2. /\ Tickets(db) <= Tickets(db')
            /\ Cardinality(Credits(Load)) <= Cardinality(Credits(Load)')
            /\ forgotten' = forgotten
        BY <3>2, BuyAgrees DEF BuyMeanwhile, AuditTypeOK, AuditInv, Attempt
      <4>3. /\ Tickets(db) \in Nat /\ Tickets(db') \in Nat
            /\ Cardinality(Credits(Load)) \in Nat /\ Cardinality(Credits(Load)') \in Nat
            /\ SoldOf(Benchmark) \in Nat /\ seen.metrics.count \in Nat
        BY <3>2, BuyAgrees
           DEF BuyMeanwhile, AuditTypeOK, AuditInv, Attempt, SoldOf, Metrics
      <4>4. /\ SoldOf(Benchmark)' = SoldOf(Benchmark) /\ TicketsRead' = TicketsRead
            /\ ByNode' = ByNode /\ Finished' = Finished
        BY <1>2 DEF SoldOf, TicketsRead, ByNode, Credits, Finished
      <4> QED  BY <1>2, <4>1, <4>2, <4>3, <4>4 DEF AuditInv, LeansOneWay, Credits, Load, Tickets
    <3> QED  BY <3>1, <3>2
  <2> QED  BY <1>1, <2>1, <2>2 DEF AuditInv
<1> QED
  BY <1>3, <1>4

\* All this holds of every audit.
LEMMA AuditHolds == AuditSpec => []AuditInv
<1>1. AuditInit => AuditInv
  <2> SUFFICES ASSUME AuditInit PROVE StoreAgrees
    BY NothingReadIsTrue DEF AuditInit
  <2>1. /\ db.nodes[AuditedArch] = NoLoad[AuditedArch] /\ db.metrics[AuditedArch].count = 0
        /\ db.metrics[AuditedArch].ok = 0 /\ Tickets(db) = 0
    BY BenchmarkAssumption, FS_EmptySet
       DEF AuditInit, Init, EmptyDb, NoMetrics, EmptyMetrics, Tickets
  <2> QED  BY <2>1, NoCredits, FS_EmptySet DEF StoreAgrees, Load
<1>2. AuditTypeOK /\ Counted /\ AuditInv /\ [AuditNext]_<<vars, auditVars>> => AuditInv'
  <2> SUFFICES ASSUME AuditTypeOK, Counted, AuditInv, [AuditNext]_<<vars, auditVars>>
               PROVE  AuditInv'
    OBVIOUS
  <2>1. CASE AuditAgain
    <3>1. reads' = 0 /\ UNCHANGED <<db, forgotten>>
      BY <2>1 DEF AuditAgain, vars
    <3>2. StoreAgrees'
      BY <3>1 DEF AuditInv, StoreAgrees, Load, Tickets, Credits
    <3> QED  BY <3>1, <3>2, KeysRead DEF AuditInv, LeansOneWay, StillThere, TicketsRead, Finished
  <2>2. CASE UNCHANGED <<vars, auditVars>>
    BY <2>2 DEF vars, auditVars, AuditInv, StoreAgrees, LeansOneWay, StillThere, Load, Tickets,
                Credits, TicketsRead, SoldOf, ByNode, Finished, Stored
  <2> QED  BY <2>1, <2>2, ReadKeepsAudit, OthersKeepAudit DEF AuditNext
<1>3. AuditSpec => []Counted
  BY AuditedStoreIsAStore, CountedInvariant, PTL
<1> QED
  BY <1>1, <1>2, <1>3, AuditTypeCorrect, PTL DEF AuditSpec

\* However many buy while an audit reads, it errs in one direction only.
THEOREM TornReadsErrOneWay == AuditSpec => []TornReadsLeanOneWay
<1>1. AuditInv => TornReadsLeanOneWay
  BY KeysRead DEF AuditInv, LeansOneWay, TornReadsLeanOneWay, Finished
<1> QED
  BY <1>1, AuditHolds, PTL

\* An audit of a store that is left alone is exact.
THEOREM QuietReadsErrNowhere == AuditSpec => []QuietReadsAreExact
<1>1. AuditInv => QuietReadsAreExact
  <2> SUFFICES ASSUME AuditInv, Finished, disturbed = {}
               PROVE  /\ seen.metrics.count = ByNode
                      /\ forgotten = {} => SoldOf(Benchmark) = seen.metrics.ok
    BY DEF QuietReadsAreExact
  <2>1. /\ seen.unnumbered_sold = db.sold /\ seen.numbered_sold = Cardinality(db.seats)
        /\ seen.metrics = db.metrics[AuditedArch] /\ seen.nodes = Load
    BY KeysRead DEF AuditInv, StillThere, Finished, Stored, Load
  <2> QED  BY <2>1 DEF AuditInv, StoreAgrees, ByNode, SoldOf, Tickets
<1> QED
  BY <1>1, AuditHolds, PTL
=============================================================================
