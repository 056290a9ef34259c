------------------------- MODULE MC_DirectPipeline -------------------------
(***************************************************************************)
(* Instances of DirectPipeline for TLC.                                    *)
(***************************************************************************)
EXTENDS DirectPipeline

N(c, s, r) == [type |-> "numbered", client_id |-> c, seat_id |-> s, request_id |-> r]

Server(n) == [node_id |-> n, arch |-> "direct"]
TwoServers == {Server("s1"), Server("s2")}

\* An empty file; then one file and a longer one that repeats its request and
\* has another for the same seat; and one more than the semaphore admits.
SeatA == <<N("c1", "A", "r1"), N("c2", "A", "r2")>>
SeatAgain == << <<>>, SubSeq(SeatA, 1, 1), SeatA >>
ThreeLines == << Append(SeatA, N("c3", "B", "r3")) >>

PurchasesOf(files) == UNION {{files[i][j] : j \in DOMAIN files[i]} : i \in DOMAIN files}
SeatPurchases == PurchasesOf(SeatAgain)
ThreePurchases == PurchasesOf(ThreeLines)

Crashes == {"crash"}
=============================================================================
