---------------------------- MODULE RedisBackend ----------------------------
(***************************************************************************)
(* The Redis data of shared/redis_backend.py and the functions its Lua     *)
(* scripts compute on it.  Redis runs a script atomically, so a script is  *)
(* an operator from one value of the database to the next; the modules     *)
(* that own a `db` variable decide who runs which script and when.         *)
(*                                                                         *)
(* A purchase is the record that parse_benchmark makes of one BUY line.    *)
(* A store is one TicketStore instance: the node it runs on and the        *)
(* metric namespace it was constructed with.                               *)
(***************************************************************************)
EXTENDS Integers, FiniteSets

CONSTANTS
    TOTAL_TICKETS,  \* capacity (shared/config.py)
    Purchases,      \* records [type, client_id, seat_id, request_id]
    Stores          \* records [node_id, arch]

Kinds == {"unnumbered", "numbered"}
ARCHITECTURES == {"direct", "indirect"}
Nodes == {s.node_id : s \in Stores}
Requests == {p.request_id : p \in Purchases}
Seats == {p.seat_id : p \in Purchases}

ASSUME CapacityAssumption == TOTAL_TICKETS \in Nat
ASSUME PurchasesAssumption == \A p \in Purchases : p.type \in Kinds
ASSUME StoresAssumption == \A s \in Stores : s.arch \in ARCHITECTURES

-----------------------------------------------------------------------------
(* The keys.  A missing counter reads as 0; a missing field of a hash is   *)
(* Absent, and an unprocessed request has the outcome "nil".               *)

Absent == -1
Outcomes == {"OK", "REJECTED"}

EmptyMetrics ==
    [count |-> 0, ok |-> 0, rejected |-> 0, replays |-> 0,
     lat_sum |-> 0, lat_max |-> Absent, lat_min |-> Absent,
     first_ts |-> Absent, last_ts |-> Absent]

NoMetrics == [a \in ARCHITECTURES |-> EmptyMetrics]
NoLoad == [a \in ARCHITECTURES |-> [n \in Nodes |-> 0]]

EmptyDb ==
    [sold |-> 0, seats |-> {},
     processed |-> [k \in Kinds |-> [r \in Requests |-> "nil"]],
     metrics |-> NoMetrics, nodes |-> NoLoad]

\* The outcome the dedup hash of p's ticket model holds for p's request id.
Outcome(db, p) == db.processed[p.type][p.request_id]
IsReplay(db, p) == Outcome(db, p) # "nil"

-----------------------------------------------------------------------------
(* The two buy scripts up to the metrics tail: a replayed request leaves   *)
(* the tickets alone, a new one is decided and its outcome recorded.       *)

\* The unnumbered script takes its limit as an argument.
SellBelow(db, p, limit) ==
    IF IsReplay(db, p) THEN db
    ELSE IF db.sold < limit
         THEN [db EXCEPT !.sold = @ + 1,
                         !.processed["unnumbered"][p.request_id] = "OK"]
         ELSE [db EXCEPT !.processed["unnumbered"][p.request_id] = "REJECTED"]

\* Mutants: the limit is off by one; the outcome is not recorded; a replay is
\* not recognised.
SellUnnumberedOneMore(db, p) == SellBelow(db, p, TOTAL_TICKETS + 1)
SellUnnumberedOneLess(db, p) == SellBelow(db, p, TOTAL_TICKETS - 1)

SellUnnumberedUnrecorded(db, p) ==
    IF ~IsReplay(db, p) /\ db.sold < TOTAL_TICKETS THEN [db EXCEPT !.sold = @ + 1] ELSE db

SellUnnumberedWithoutDedup(db, p) ==
    IF db.sold < TOTAL_TICKETS
    THEN [db EXCEPT !.sold = @ + 1, !.processed["unnumbered"][p.request_id] = "OK"]
    ELSE [db EXCEPT !.processed["unnumbered"][p.request_id] = "REJECTED"]

SellUnnumbered(db, p) == SellBelow(db, p, TOTAL_TICKETS)

\* Mutants: a replay is not recognised; the reply of SADD is ignored.
SellNumberedWithoutDedup(db, p) ==
    IF p.seat_id \notin db.seats
    THEN [db EXCEPT !.seats = @ \cup {p.seat_id},
                    !.processed["numbered"][p.request_id] = "OK"]
    ELSE [db EXCEPT !.processed["numbered"][p.request_id] = "REJECTED"]

SellNumberedUnchecked(db, p) ==
    IF IsReplay(db, p) THEN db
    ELSE [db EXCEPT !.seats = @ \cup {p.seat_id},
                    !.processed["numbered"][p.request_id] = "OK"]

\* SADD returns 1 only for a new member.  No limit is read here.
SellNumbered(db, p) ==
    IF IsReplay(db, p) THEN db
    ELSE IF p.seat_id \notin db.seats
         THEN [db EXCEPT !.seats = @ \cup {p.seat_id},
                         !.processed["numbered"][p.request_id] = "OK"]
         ELSE [db EXCEPT !.processed["numbered"][p.request_id] = "REJECTED"]

Sell(db, p) ==
    IF p.type = "unnumbered" THEN SellUnnumbered(db, p) ELSE SellNumbered(db, p)

\* Mutant: a clock set back counts as negative time.
LatencyUnclamped(t0, t1) == t1 - t0

\* The service time; a clock set back makes it 0.
Latency(t0, t1) == IF t1 < t0 THEN 0 ELSE t1 - t0

\* Mutants: a replay counts as a sale too; every buy opens the window anew.
RecordReplaysAsSales(m, replay, outcome, t0, t1) ==
    LET lat == Latency(t0, t1)
    IN [m EXCEPT !.count = @ + 1,
                 !.replays = @ + (IF replay THEN 1 ELSE 0),
                 !.ok = @ + (IF outcome = "OK" THEN 1 ELSE 0),
                 !.rejected = @ + (IF outcome # "OK" THEN 1 ELSE 0),
                 !.lat_sum = @ + lat]

RecordLastWindow(m, replay, outcome, t0, t1) ==
    LET lat == Latency(t0, t1)
    IN [m EXCEPT !.count = @ + 1, !.lat_sum = @ + lat,
                 !.lat_max = IF lat > @ THEN lat ELSE @,
                 !.first_ts = t1, !.last_ts = t1]

\* The metrics hash after a buy with this outcome that ran from t0 to t1.
RecordMetrics(m, replay, outcome, t0, t1) ==
    LET lat == Latency(t0, t1)
    IN [count    |-> m.count + 1,
        replays  |-> m.replays + (IF replay THEN 1 ELSE 0),
        ok       |-> m.ok + (IF ~replay /\ outcome = "OK" THEN 1 ELSE 0),
        rejected |-> m.rejected + (IF ~replay /\ outcome # "OK" THEN 1 ELSE 0),
        lat_sum  |-> m.lat_sum + lat,
        lat_max  |-> IF lat > m.lat_max THEN lat ELSE m.lat_max,
        lat_min  |-> IF m.lat_min = Absent \/ lat < m.lat_min THEN lat ELSE m.lat_min,
        first_ts |-> IF m.first_ts = Absent THEN t1 ELSE m.first_ts,
        last_ts  |-> t1]

\* Mutant: a node gets no credit for a replay.
BuyCreditingSales(db, s, p, t0, t1) ==
    LET after == Sell(db, p)
    IN [after EXCEPT
          !.metrics[s.arch] =
              RecordMetrics(@, IsReplay(db, p), Outcome(after, p), t0, t1),
          !.nodes[s.arch][s.node_id] = IF IsReplay(db, p) THEN @ ELSE @ + 1]

\* The whole script, run by store s between clock readings t0 and t1.  It
\* returns what the dedup hash now holds for the request: Outcome(_, p).
Buy(db, s, p, t0, t1) ==
    LET after == Sell(db, p)
    IN [after EXCEPT
          !.metrics[s.arch] =
              RecordMetrics(@, IsReplay(db, p), Outcome(after, p), t0, t1),
          !.nodes[s.arch][s.node_id] = @ + 1]

ClearMetrics(db) == [db EXCEPT !.metrics = NoMetrics, !.nodes = NoLoad]

-----------------------------------------------------------------------------
Metrics ==
    [count : Nat, ok : Nat, rejected : Nat, replays : Nat, lat_sum : Nat,
     lat_max : Nat \cup {Absent}, lat_min : Nat \cup {Absent},
     first_ts : Nat \cup {Absent}, last_ts : Nat \cup {Absent}]

Db ==
    [sold : Nat, seats : SUBSET Seats,
     processed : [Kinds -> [Requests -> Outcomes \cup {"nil"}]],
     metrics : [ARCHITECTURES -> Metrics],
     nodes : [ARCHITECTURES -> [Nodes -> Nat]]]
=============================================================================
