----------------------------- MODULE StoreAudit -----------------------------
(***************************************************************************)
(* Somebody looking at the store while it works.  stats and read_metrics   *)
(* read four keys one after the other, with no transaction around them:    *)
(* other nodes may buy and reset between any two of the reads.  This is    *)
(* the audit of scripts/fault_tolerance_test.py, and with the first or the *)
(* last two reads alone the /stats and /metrics endpoints.                 *)
(***************************************************************************)
EXTENDS TicketStore, Sequences

CONSTANTS
    Benchmark,      \* the ticket model of the benchmark being run
    AuditedArch     \* the architecture that runs it

ASSUME BenchmarkAssumption ==
    /\ Benchmark \in Kinds /\ AuditedArch \in ARCHITECTURES
    /\ \A p \in Purchases : p.type = Benchmark
    /\ \A s \in Stores : s.arch = AuditedArch

VARIABLES
    reads,      \* how many of the four keys have been read
    seen,       \* what was read
    disturbed   \* history: what other nodes did since the first read

auditVars == <<reads, seen, disturbed>>

\* Mutant: the node loads are read before the totals.
NodesFirst == <<"unnumbered_sold", "numbered_sold", "nodes", "metrics">>

\* stats reads the first two keys, read_metrics the others, in this order.
ReadOrder == <<"unnumbered_sold", "numbered_sold", "metrics", "nodes">>

Stored ==
    [unnumbered_sold |-> db.sold,
     numbered_sold |-> Cardinality(db.seats),
     metrics |-> db.metrics[AuditedArch],
     nodes |-> db.nodes[AuditedArch]]

NothingSeen ==
    [unnumbered_sold |-> 0, numbered_sold |-> 0, metrics |-> EmptyMetrics,
     nodes |-> [n \in Nodes |-> 0]]

Finished == reads = Len(ReadOrder)

AuditInit ==
    /\ Init
    /\ reads = 0
    /\ seen = NothingSeen
    /\ disturbed = {}

ReadNextKey ==
    /\ ~Finished
    /\ LET key == ReadOrder[reads + 1] IN seen' = [seen EXCEPT ![key] = Stored[key]]
    /\ reads' = reads + 1
    /\ UNCHANGED <<disturbed, vars>>

\* The next audit starts from nothing.
AuditAgain ==
    /\ Finished
    /\ reads' = 0
    /\ seen' = NothingSeen
    /\ disturbed' = {}
    /\ UNCHANGED vars

Disturbed(what) ==
    /\ disturbed' = IF reads = 0 THEN {} ELSE disturbed \cup {what}
    /\ UNCHANGED <<reads, seen>>

BuyMeanwhile == (\E s \in Stores, p \in Purchases : Attempt(s, p)) /\ Disturbed("buy")

ResetMeanwhile == (ResetAll \/ ResetMetrics) /\ Disturbed("reset")

AuditNext == ReadNextKey \/ AuditAgain \/ BuyMeanwhile \/ ResetMeanwhile

AuditSpec == AuditInit /\ [][AuditNext]_<<vars, auditVars>>

-----------------------------------------------------------------------------
\* What the readers derive.

SoldOf(kind) == IF kind = "numbered" THEN seen.numbered_sold ELSE seen.unnumbered_sold
\* sum(by_node.values()): what the nodes are credited with, credit by credit.
Credits(load) == UNION {{n} \X (1..load[n]) : n \in Nodes}
ByNode == Cardinality(Credits(seen.nodes))

\* `numbered = "numbered" in basename`: the substring occurs in the names of
\* both generated files, benchmark_numbered and benchmark_unnumbered.
NamesContainingNumbered == {"numbered", "unnumbered"}
AuditedModel == IF Benchmark \in NamesContainingNumbered THEN "numbered" ELSE "unnumbered"

\* The two checks on the tickets that fault_tolerance_test.py prints.
ChecksPass ==
    /\ SoldOf(AuditedModel) <= TOTAL_TICKETS
    /\ seen.metrics.ok = SoldOf(AuditedModel)

-----------------------------------------------------------------------------
AuditTypeOK ==
    /\ TypeOK
    /\ reads \in 0..Len(ReadOrder)
    /\ seen \in [unnumbered_sold : Nat, numbered_sold : Nat, metrics : Metrics,
                 nodes : [Nodes -> Nat]]
    /\ disturbed \subseteq {"buy", "reset"}

\* A torn audit errs in one direction only: sales that happen while it reads
\* can make the node loads exceed the deliveries and the OK count exceed the
\* tickets, but never the reverse (redis_backend.py:216-217, 246-247).
TornReadsLeanOneWay ==
    Finished /\ "reset" \notin disturbed =>
        /\ seen.metrics.count <= ByNode
        /\ forgotten = {} => SoldOf(Benchmark) <= seen.metrics.ok

\* A quiet audit is exact: every delivery is some node's
\* (tests/test_backend_fakeredis.py:58) and every OK a ticket.
QuietReadsAreExact ==
    Finished /\ disturbed = {} =>
        /\ seen.metrics.count = ByNode
        /\ forgotten = {} => SoldOf(Benchmark) = seen.metrics.ok

\* The verdict of the fault-tolerance script on a store nobody touches: the
\* server's OK count equals the tickets sold (fault_tolerance_test.py:146).
QuietChecksPass == Finished /\ disturbed = {} /\ forgotten = {} => ChecksPass
=============================================================================
