---------------------------- MODULE MC_StoreAudit ----------------------------
(***************************************************************************)
(* Instances of StoreAudit for TLC: one benchmark run by two workers.      *)
(***************************************************************************)
EXTENDS StoreAudit

UnnumberedBenchmark ==
    {[type |-> "unnumbered", client_id |-> "c", seat_id |-> "", request_id |-> r]
        : r \in {"r1", "r2", "r3"}}

TwoWorkers ==
    {[node_id |-> "w1", arch |-> "indirect"], [node_id |-> "w2", arch |-> "indirect"]}
==============================================================================
