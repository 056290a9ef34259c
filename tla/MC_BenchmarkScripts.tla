------------------------ MODULE MC_BenchmarkScripts ------------------------
(***************************************************************************)
(* Instances of BenchmarkScripts for TLC.                                  *)
(***************************************************************************)
EXTENDS BenchmarkScripts

N(c, s, r) == [type |-> "numbered", client_id |-> c, seat_id |-> s, request_id |-> r]

Worker(n) == [node_id |-> n, arch |-> "indirect"]
W1 == Worker("w1")
W2 == Worker("w2")
TwoWorkers == {W1, W2}

Step(workers, victims, replacements) ==
    [workers |-> workers, victims |-> victims, replacements |-> replacements]

\* The fault test with one worker that is replaced, then a step of a sweep
\* with one worker, on a file that repeats the request of the first and has
\* another for the same seat.
FaultTestThenSweep == << Step({W1}, {W1}, {W2}), Step({W1}, {}, {}) >>

File == <<N("c1", "A", "r1"), N("c2", "A", "r2")>>
SeatAgain == <<SubSeq(File, 1, 1), File>>
FilePurchases == {File[j] : j \in DOMAIN File}

NoFaults == [k \in FaultKinds |-> 0]
ClientsGiveUp == [NoFaults EXCEPT !["timeout"] = 2, !["drain"] = 1]
=============================================================================
