------------------------ MODULE MC_IndirectPipeline ------------------------
(***************************************************************************)
(* Instances of IndirectPipeline for TLC.                                  *)
(***************************************************************************)
EXTENDS IndirectPipeline, TLC

CONSTANTS w1, w2    \* the names of the workers

U(c, r) == [type |-> "unnumbered", client_id |-> c, seat_id |-> "", request_id |-> r]
N(c, s, r) == [type |-> "numbered", client_id |-> c, seat_id |-> s, request_id |-> r]

Worker(n) == [node_id |-> n, arch |-> "indirect"]
OneWorker == {Worker(w1)}
TwoWorkers == {Worker(w1), Worker(w2)}

\* The workers differ in their names only.
WorkersAlike == Permutations({w1, w2})

\* More requests than tickets, or than seats.
Unnumbered == << <<U("c1", "r1"), U("c2", "r2")>> >>
Numbered == << <<N("c1", "A", "r1"), N("c2", "A", "r2")>> >>

\* Two benchmark files with ids of their own.
TwoFiles == << <<U("c1", "r1"), U("c2", "r2")>>, <<U("c1", "r3"), U("c2", "r4")>> >>

PurchasesOf(files) == UNION {{files[i][j] : j \in DOMAIN files[i]} : i \in DOMAIN files}
UnnumberedPurchases == PurchasesOf(Unnumbered)
NumberedPurchases == PurchasesOf(Numbered)
TwoFilesPurchases == PurchasesOf(TwoFiles)

NoFaults == [k \in FaultKinds |-> 0]
WorkersComeAndGo == [NoFaults EXCEPT !["crash"] = 1, !["partition"] = 1, !["stop"] = 1]
RedisFails == [NoFaults EXCEPT !["redis"] = 1]
AllButTheQueuesFail ==
    [NoFaults EXCEPT !["crash"] = 1, !["redis"] = 1, !["redis_restart"] = 1, !["timeout"] = 1,
                     !["consumer"] = 1]
ClientGivesUp == [NoFaults EXCEPT !["timeout"] = 1]
=============================================================================
