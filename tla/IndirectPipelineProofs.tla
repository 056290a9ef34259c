----------------------- MODULE IndirectPipelineProofs -----------------------
(***************************************************************************)
(* Proofs about IndirectPipeline, for any files, workers, prefetch window  *)
(* and number of faults of each kind.                                      *)
(***************************************************************************)
EXTENDS IndirectPipeline, SharedStoreProofs

\* A message is a line of the file of its run, and every line is one.
LEMMA MessageType ==
    ASSUME NEW m \in Messages
    PROVE  /\ Op(m) \in Purchases /\ Op(m).request_id \in Requests
           /\ m[1] \in 1..Len(Benchmarks) /\ m[2] \in Nat \ {0}
           /\ m = <<m[1], m[2]>>
<1>1. PICK i \in DOMAIN Benchmarks : m \in {<<i, j>> : j \in DOMAIN Benchmarks[i]}
  BY DEF Messages
<1>2. PICK j \in DOMAIN Benchmarks[i] : m = <<i, j>>
  BY <1>1
<1>3. Benchmarks[i] \in Seq(Purchases) /\ i \in 1..Len(Benchmarks)
  BY BenchmarksAssumption
<1>4. Benchmarks[i][j] \in Purchases /\ j \in Nat \ {0}
  BY <1>2, <1>3
<1> QED
  BY <1>2, <1>3, <1>4 DEF Op, Requests

\* A line of a benchmark file is a message.
LEMMA LineType ==
    ASSUME NEW i \in 1..Len(Benchmarks), NEW j \in 1..Len(Benchmarks[i])
    PROVE  <<i, j>> \in Messages
BY BenchmarksAssumption DEF Messages

\* A fault keeps the counts of faults natural numbers.
LEMMA FaultCounts ==
    ASSUME faults \in [FaultKinds -> Nat], NEW kind \in FaultKinds, Fault(kind)
    PROVE  faults' \in [FaultKinds -> Nat]
<1>1. faults' = [faults EXCEPT ![kind] = @ + 1]
  BY Zenon DEF Fault
<1> QED
  BY <1>1

\* A worker is a store of the indirect architecture.
LEMMA WorkerType ==
    ASSUME NEW w \in Workers
    PROVE  w \in Stores /\ w.arch = "indirect" /\ w.node_id \in Nodes
BY WorkersAssumption DEF Workers, Nodes

-----------------------------------------------------------------------------
(* Types.                                                                  *)

\* A worker has nothing in hand, a message, or a message with its answer.
LEMMA WorkCases ==
    ASSUME NEW x \in Work
    PROVE  \/ x = NoWork /\ x.stage = "none"
           \/ x # NoWork /\ x.stage = "taken" /\ x.of \in Messages
           \/ /\ x # NoWork /\ x.stage \in {"answered", "published"}
              /\ x.of \in Messages /\ x.status \in Statuses
              /\ x = [stage |-> x.stage, of |-> x.of, status |-> x.status]
BY DEF Work, NoWork

\* What a callback has in hand, at each of its stages.
LEMMA WorkTypes ==
    /\ NoWork \in Work
    /\ \A m \in Messages : [stage |-> "taken", of |-> m] \in Work
    /\ \A m \in Messages, status \in Statuses, stage \in {"answered", "published"} :
          [stage |-> stage, of |-> m, status |-> status] \in Work
BY DEF Work

\* A callback that goes on has something of that kind in hand.
LEMMA WorkSet ==
    ASSUME work \in [Workers -> Work], NEW w \in Workers, NEW x \in Work
    PROVE  [work EXCEPT ![w] = x] \in [Workers -> Work]
OBVIOUS

\* What the broker holds for a worker are messages.
LEMMA UnackedType ==
    ASSUME TypeOK, NEW w \in Workers
    PROVE  InHand(w) \subseteq Messages /\ Unacked(w) \subseteq Messages
<1>1. work[w] \in Work /\ buffer[w] \subseteq Messages
  BY DEF TypeOK
<1>2. InHand(w) \subseteq Messages
  BY <1>1, WorkCases DEF InHand
<1> QED
  BY <1>1, <1>2 DEF Unacked

\* What a callback's answer is made of, and the call it leaves if it gives up.
LEMMA TakenType ==
    ASSUME TypeOK, NEW w \in Workers, Stage(w) = "taken"
    PROVE  /\ work[w].of \in Messages
           /\ BuyOf(w) \in Db /\ Outcome(BuyOf(w), Op(work[w].of)) \in Outcomes
           /\ Call(w) \in Calls /\ Call(w).by = w /\ Call(w).of = work[w].of
<1>1. work[w].of \in Messages
  BY WorkCases DEF TypeOK, Stage
<1>2. faults["redis"] + faults["crash"] \in Nat
  BY DEF TypeOK, FaultKinds
<1>3. Call(w) \in Calls /\ Call(w).by = w /\ Call(w).of = work[w].of
  BY <1>1, <1>2 DEF Call, Calls
<1> QED
  BY <1>1, <1>3, WorkerType, MessageType, BuyOutcomes DEF BuyOf, TypeOK

\* A late call runs a script for the worker and the message it came from, or none.
LEMMA LateCallTouches ==
    ASSUME TypeOK, LateCall
    PROVE  \E c \in calls :
              /\ calls' = calls \ {c} /\ c.by \in Workers /\ c.of \in Messages
              /\ db' = db \/ db' = Buy(db, c.by, Op(c.of), 0, 0)
              /\ db' \in Db
<1>1. PICK c \in calls : /\ calls' = calls \ {c}
                         /\ db' = IF scripts THEN Buy(db, c.by, Op(c.of), 0, 0) ELSE db
  BY DEF LateCall
<1>2. c.by \in Workers /\ c.of \in Messages
  BY DEF Calls, TypeOK
<1>3. Buy(db, c.by, Op(c.of), 0, 0) \in Db
  BY <1>2, WorkerType, MessageType, BuyOutcomes DEF TypeOK
<1> QED
  BY <1>1, <1>2, <1>3 DEF TypeOK

\* A callback that has an answer leaves the types.
LEMMA AnswerType ==
    ASSUME TypeOK, NEW w \in Workers, Stage(w) = "taken", NEW status \in Statuses,
           Answer(w, status), db' \in Db, calls' \subseteq Calls, faults' \in [FaultKinds -> Nat]
    PROVE  TypeOK'
<1>1. work' \in [Workers -> Work]
  BY TakenType, WorkTypes, WorkSet DEF TypeOK, Answer
<1> QED
  BY <1>1 DEF TypeOK, Answer, clientVars

\* So does a worker whose run() ends.
LEMMA EndsType ==
    ASSUME TypeOK, NEW w \in Workers, NEW how \in {"exited", "off"}, Ends(w, how)
    PROVE  /\ proc' \in [Workers -> {"consuming", "stopping", "exited", "off"}]
           /\ linked' \in [Workers -> BOOLEAN]
           /\ buffer' \in [Workers -> SUBSET Messages]
           /\ work' \in [Workers -> Work]
BY WorkTypes DEF TypeOK, Ends

\* A process in any of its steps, and being killed or told to stop.
LEMMA WorkerTypes ==
    ASSUME TypeOK, NEW w \in Workers,
           Deliver(w) \/ Callback(w) \/ ConnectionError(w) \/ Exit(w) \/ Start(w)
    PROVE  TypeOK'
<1> USE DEF TypeOK, workerVars, clientVars
<1>1. work[w] \in Work /\ buffer[w] \subseteq Messages
  OBVIOUS
<1>2. CASE Deliver(w)
  BY <1>2 DEF Deliver
<1>3. CASE Take(w)
  <2>1. PICK m \in buffer[w] : work' = [work EXCEPT ![w] = [stage |-> "taken", of |-> m]]
    BY <1>3 DEF Take
  <2>2. work' \in [Workers -> Work]
    BY <1>1, <2>1, WorkTypes, WorkSet
  <2>3. buffer' \in [Workers -> SUBSET Messages]
    BY <1>3 DEF Take
  <2> QED  BY <1>3, <2>2, <2>3 DEF Take
<1>4. CASE Execute(w)
  <2>1. Stage(w) = "taken" /\ db' \in Db /\ UNCHANGED <<calls, faults>>
    BY <1>4, TakenType DEF Execute
  <2>2. PICK status \in Outcomes : Answer(w, status)
    BY <1>4, TakenType DEF Execute
  <2> QED  BY <2>1, <2>2, AnswerType DEF Statuses
<1>5. CASE NoScript(w)
  <2>1. Stage(w) = "taken" /\ Answer(w, "ERROR") /\ UNCHANGED <<db, calls, faults>>
    BY <1>5 DEF NoScript
  <2> QED  BY <2>1, AnswerType DEF Statuses
<1>6. CASE Publish(w)
  <2>1. work[w].of \in Messages /\ work[w].status \in Statuses
    BY <1>1, <1>6, WorkCases DEF Publish, Stage
  <2>2. work[w] = [stage |-> work[w].stage, of |-> work[w].of, status |-> work[w].status]
    BY <1>1, <1>6, WorkCases DEF Publish, Stage
  <2>3. work' = [work EXCEPT ![w] = [stage |-> "published", of |-> work[w].of,
                                     status |-> work[w].status]]
    <3>1. [work[w] EXCEPT !.stage = "published"] =
             [stage |-> "published", of |-> work[w].of, status |-> work[w].status]
      BY <2>2
    <3>2. work' = [work EXCEPT ![w] = [work[w] EXCEPT !.stage = "published"]]
      BY Zenon, <1>6 DEF Publish
    <3> QED  BY <3>1, <3>2
  <2>4. work' \in [Workers -> Work]
    BY <2>1, <2>3, WorkTypes, WorkSet
  <2>5. results' \subseteq Results
    BY <1>6, <2>1, WorkerType DEF Publish, Results
  <2> QED  BY <1>6, <2>4, <2>5 DEF Publish
<1>7. CASE Ack(w)
  <2>1. work' \in [Workers -> Work]
    BY <1>7, WorkTypes, WorkSet DEF Ack
  <2> QED  BY <1>7, <2>1 DEF Ack
<1>8. CASE ConnectionError(w)
  <2>1. PICK how \in {"exited", "off"} : Ends(w, how)
    BY <1>8 DEF ConnectionError
  <2> QED  BY <1>8, <2>1, EndsType DEF ConnectionError
<1>9. CASE Exit(w)
  BY <1>9, EndsType DEF Exit
<1>10. CASE Start(w)
  BY <1>10 DEF Start
<1> QED
  BY <1>2, <1>3, <1>4, <1>5, <1>6, <1>7, <1>8, <1>9, <1>10 DEF Callback

\* And one that is killed.
LEMMA KillType ==
    ASSUME TypeOK, NEW w \in Workers, Kill(w), UNCHANGED clientVars,
           faults' \in [FaultKinds -> Nat]
    PROVE  TypeOK'
<1>1. PICK how \in {"exited", "off"} : Ends(w, how)
  BY DEF Kill
<1>2. orphans' \subseteq Messages
  BY UnackedType DEF Kill, TypeOK
<1>3. calls' \subseteq Calls
  BY TakenType DEF Kill, TypeOK
<1> QED
  BY <1>1, <1>2, <1>3, EndsType DEF Kill, TypeOK, clientVars

\* And one that gives back what it has prefetched.
LEMMA CancelType ==
    ASSUME TypeOK, NEW w \in Workers, Cancel(w), faults' \in [FaultKinds -> Nat]
    PROVE  TypeOK'
BY DEF Cancel, TypeOK, clientVars

\* Faults leave the types.
LEMMA FailureTypes ==
    ASSUME TypeOK, Failure
    PROVE  TypeOK'
<1> USE DEF TypeOK, workerVars, clientVars
<1>1. ASSUME NEW w \in Workers, RedisError(w) PROVE TypeOK'
  <2>1. faults' \in [FaultKinds -> Nat]
    BY <1>1, FaultCounts DEF RedisError, FaultKinds
  <2>2. Stage(w) = "taken" /\ db' \in Db /\ calls' \subseteq Calls
    BY <1>1, TakenType DEF RedisError
  <2>3. CASE Answer(w, "ERROR")
    BY <2>1, <2>2, <2>3, AnswerType DEF Statuses
  <2>4. CASE ~Answer(w, "ERROR")
    <3>1. UNCHANGED <<scripts, requests, orphans, results, workerVars, clientVars>>
      BY <1>1, <2>4 DEF RedisError
    <3> QED  BY <2>1, <2>2, <3>1
  <2> QED  BY <2>3, <2>4
<1>2. ASSUME NEW w \in Workers, Crash(w) PROVE TypeOK'
  <2>1. faults' \in [FaultKinds -> Nat]
    BY <1>2, FaultCounts DEF Crash, FaultKinds
  <2> QED  BY <1>2, <2>1, KillType DEF Crash
<1>3. ASSUME NEW w \in Workers, Partition(w) PROVE TypeOK'
  <2>1. faults' \in [FaultKinds -> Nat]
    BY <1>3, FaultCounts DEF Partition, FaultKinds
  <2>2. requests' \subseteq Messages
    BY <1>3, UnackedType DEF Partition
  <2> QED  BY <1>3, <2>1, <2>2 DEF Partition
<1>4. ASSUME NEW w \in Workers, Stop(w) PROVE TypeOK'
  <2>1. faults' \in [FaultKinds -> Nat]
    BY <1>4, FaultCounts DEF Stop, FaultKinds
  <2> QED  BY <1>4, <2>1, CancelType DEF Stop
<1>5. CASE RedisRestart
  <2>1. faults' \in [FaultKinds -> Nat]
    BY <1>5, FaultCounts DEF RedisRestart, FaultKinds
  <2> QED  BY <1>5, <2>1 DEF RedisRestart
<1>6. CASE ConsumerDies
  <2>1. faults' \in [FaultKinds -> Nat]
    BY <1>6, FaultCounts DEF ConsumerDies, FaultKinds
  <2> QED  BY <1>6, <2>1 DEF ConsumerDies
<1>7. CASE Timeout
  <2>1. faults' \in [FaultKinds -> Nat]
    BY <1>7, FaultCounts DEF Timeout, FaultKinds
  <2> QED  BY <1>7, <2>1 DEF Timeout, Aggregate
<1>8. CASE LateCall
  <2>1. db' \in Db /\ calls' \subseteq Calls
    BY <1>8, LateCallTouches
  <2> QED  BY <1>8, <2>1 DEF LateCall
<1> QED
  BY <1>1, <1>2, <1>3, <1>4, <1>5, <1>6, <1>7, <1>8 DEF Failure

\* A client has a file from its start on, and collects nothing before it has purged.
RunBegun ==
    /\ pc # "idle" => run >= 1
    /\ pc = "starting" => ~consumer /\ handled = {}

\* A new client starts well formed.
LEMMA NewClientType ==
    ASSUME TypeOK, NewClient
    PROVE  /\ pc' = "starting" /\ run' \in 1..Len(Benchmarks) /\ sent' = 0
           /\ collected' \in [Requests -> Statuses \cup {"nil"}]
           /\ handled' = {} /\ done' = FALSE /\ consumer' = FALSE
           /\ report' \in [statuses : [Requests -> Statuses \cup {"nil"}], late : BOOLEAN]
BY BenchmarksAssumption DEF TypeOK, NewClient, NothingCollected, NoReport

\* The client's steps and requeueing leave the types.
LEMMA ClientTypes ==
    ASSUME TypeOK, RunBegun, Client \/ Requeue
    PROVE  TypeOK'
<1> USE DEF TypeOK, workerVars, clientVars
<1>1. CASE BeginRun
  <2>1. faults' \in [FaultKinds -> Nat]
    BY <1>1, FaultCounts DEF BeginRun, FaultKinds
  <2>2. db' \in Db
    BY <1>1, EmptyDbType DEF BeginRun
  <2>3. run' \in 0..Len(Benchmarks) /\ sent' \in Nat
    <3>1. run' \in 1..Len(Benchmarks) /\ sent' = 0
      BY <1>1, NewClientType DEF BeginRun
    <3> QED  BY <3>1, BenchmarksAssumption
  <2>4. /\ collected' \in [Requests -> Statuses \cup {"nil"}]
        /\ report' \in [statuses : [Requests -> Statuses \cup {"nil"}], late : BOOLEAN]
        /\ pc' = "starting" /\ handled' = {} /\ done' = FALSE /\ consumer' = FALSE
    BY <1>1, NewClientType DEF BeginRun
  <2> QED  BY <1>1, <2>1, <2>2, <2>3, <2>4 DEF BeginRun
<1>2. CASE PublishRequest
  <2>1. run \in 1..Len(Benchmarks) /\ sent + 1 \in 1..Len(Ops)
    BY <1>2, BenchmarksAssumption DEF PublishRequest, RunBegun, Ops
  <2>2. <<run, sent + 1>> \in Messages
    BY <2>1, LineType DEF Ops
  <2> QED  BY <1>2, <2>2 DEF PublishRequest
<1>3. CASE Collect
  <2>1. PICK r \in results :
           /\ collected' = [collected EXCEPT ![Op(r.of).request_id] = r.status]
           /\ handled' = {r}
    BY <1>3 DEF Collect
  <2>2. r.status \in Statuses /\ r.of \in Messages
    BY <2>1 DEF Results
  <2>3. collected' \in [Requests -> Statuses \cup {"nil"}]
    BY <2>1, <2>2, MessageType
  <2>4. done' \in BOOLEAN
    BY Zenon, <1>3 DEF Collect
  <2> QED  BY <1>3, <2>1, <2>3, <2>4 DEF Collect
<1>4. CASE WaitReturns
  BY <1>4 DEF WaitReturns, Aggregate
<1>5. CASE AllPublished \/ ConsumerReturns \/ Requeue
  BY <1>5 DEF AllPublished, ConsumerReturns, Requeue
<1>6. CASE Purge
  BY <1>6 DEF Purge, RunBegun
<1>7. CASE AckResult
  BY <1>7 DEF AckResult
<1> QED
  BY <1>1, <1>2, <1>3, <1>4, <1>5, <1>6, <1>7 DEF Client

\* A client that does anything has a current run.
LEMMA RunBegunStands ==
    ASSUME TypeOK, RunBegun, [Next]_vars
    PROVE  RunBegun'
<1>1. CASE NewClient
  BY <1>1, NewClientType DEF RunBegun
<1>2. CASE ~NewClient
  <2>1. /\ run' = run /\ (pc = "idle" => pc' = "idle")
        /\ pc' = "starting" => pc = "starting" /\ (consumer \/ UNCHANGED <<consumer, handled>>)
    BY <1>2 DEF Next, Deliver, Callback, Take, Execute, NoScript, Answer, Publish, Ack,
                ConnectionError, Exit, Start, Requeue, Client, BeginRun, Purge, PublishRequest,
                AllPublished, WaitReturns, Aggregate, Collect, AckResult, ConsumerReturns, Failure,
                RedisError, Crash, Partition, Stop, Cancel, RedisRestart, LateCall, ConsumerDies,
                Timeout, clientVars, vars
  <2> QED  BY <2>1 DEF RunBegun
<1> QED
  BY <1>1, <1>2

\* The initial states are well formed, with the workers up or not yet started.
LEMMA InitType == \A up \in BOOLEAN : Initially(up) => TypeOK /\ RunBegun
<1> SUFFICES ASSUME NEW up \in BOOLEAN, Initially(up) PROVE TypeOK /\ RunBegun
  OBVIOUS
<1>1. db \in Db /\ scripts \in BOOLEAN /\ run \in 0..Len(Benchmarks)
  BY EmptyDbType, BenchmarksAssumption DEF Initially
<1>2. /\ proc \in [Workers -> {"consuming", "stopping", "exited", "off"}]
      /\ linked \in [Workers -> BOOLEAN] /\ buffer \in [Workers -> SUBSET Messages]
      /\ work \in [Workers -> Work]
  BY WorkTypes DEF Initially
<1>3. /\ collected \in [Requests -> Statuses \cup {"nil"}]
      /\ report \in [statuses : [Requests -> Statuses \cup {"nil"}], late : BOOLEAN]
  BY DEF Initially, NothingCollected, NoReport
<1> QED
  BY <1>1, <1>2, <1>3 DEF Initially, TypeOK, RunBegun

\* Every step keeps the types, with the fact about the current run that this needs.
LEMMA TypesStand ==
    ASSUME TypeOK, RunBegun, [Next]_vars
    PROVE  TypeOK' /\ RunBegun'
<1>1. CASE UNCHANGED vars
  BY <1>1, RunBegunStands DEF vars, workerVars, clientVars, TypeOK
<1>2. CASE Next
  BY <1>2, WorkerTypes, ClientTypes, FailureTypes, RunBegunStands DEF Next
<1> QED
  BY <1>1, <1>2

\* So they always hold.
LEMMA Types == Spec => [](TypeOK /\ RunBegun)
<1>1. Init => TypeOK /\ RunBegun
  BY InitType DEF Init
<1>2. TypeOK /\ RunBegun /\ [Next]_vars => TypeOK' /\ RunBegun'
  BY TypesStand
<1> QED
  BY <1>1, <1>2, PTL DEF Spec

\* A message is of a run and a result of a message, a callback is at one of
\* its steps, and only what the scripts can answer is ever answered.
THEOREM TypeCorrect == Spec => []TypeOK
BY Types, PTL

-----------------------------------------------------------------------------
(* The scripts run the client, kill workers and stop them too, without the *)
(* reset or the bounds on faults that this module's actions have: the next *)
(* invariants are preserved by such steps as well.                         *)

NewRun == NewClient /\ UNCHANGED <<calls, requests, orphans, results, workerVars>>
WorkerEnds(w) == (Kill(w) /\ UNCHANGED clientVars) \/ Cancel(w)
AnyStep == [Next]_vars \/ NewRun \/ \E w \in Workers : WorkerEnds(w)

-----------------------------------------------------------------------------
(* Messages.  What the queues and the workers hold has been published, in  *)
(* this run or an earlier one: nothing of the next run is anywhere.        *)

Known(m) == m[1] < run \/ (m[1] = run /\ m[2] <= sent)

AllKnown ==
    /\ \A m \in requests \cup orphans : Known(m)
    /\ \A w \in Workers :
          (\A m \in buffer[w] : Known(m)) /\ (work[w] # NoWork => Known(work[w].of))
    /\ \A r \in results : Known(r.of)
    /\ \A c \in calls : Known(c.of)

\* A cancelled consumer has given its messages back, a client that has not
\* purged yet has sent nothing, and the result it has yet to acknowledge is in.
Orderly ==
    /\ \A w \in Workers : proc[w] = "stopping" => buffer[w] = {}
    /\ pc = "starting" => sent = 0
    /\ \A r \in handled : collected[Op(r.of).request_id] # "nil"

PlacesInv == AllKnown /\ Orderly

\* A message that has been published has been published ever after.
LEMMA KnownStands ==
    ASSUME TypeOK, NEW m \in Messages, Known(m),
           (run' = run /\ (sent' = sent \/ sent' = sent + 1)) \/ run' = run + 1
    PROVE  Known(m)'
<1>1. m[1] \in Nat /\ m[2] \in Nat /\ run \in Nat /\ sent \in Nat
  BY MessageType, BenchmarksAssumption DEF TypeOK
<1> QED
  BY <1>1 DEF Known

\* The steps of a worker and of the broker move messages and make no new ones.
MovesOnly ==
    /\ UNCHANGED <<pc, run, sent>>
    /\ \A c \in calls' :
          c \in calls \/ \E w \in Workers : work[w] # NoWork /\ work[w].of = c.of
    /\ \A m \in requests' \cup orphans' :
          \/ m \in requests \cup orphans
          \/ \E w \in Workers : m \in buffer[w] \/ (work[w] # NoWork /\ work[w].of = m)
    /\ \A w \in Workers :
          /\ \A m \in buffer'[w] : m \in buffer[w] \/ m \in requests
          /\ work'[w] # NoWork => \/ work[w] # NoWork /\ work'[w].of = work[w].of
                                  \/ work'[w].of \in buffer[w]
    /\ \A r \in results' :
          r \in results \/ \E w \in Workers : (work[w] # NoWork /\ work[w].of = r.of)

\* Moving messages about brings in none that was not published.
LEMMA MovesKeepKnown ==
    ASSUME AllKnown, MovesOnly
    PROVE  AllKnown'
<1>1. \A m : Known(m) => Known(m)'
  BY DEF MovesOnly, Known
<1> QED
  BY <1>1 DEF AllKnown, MovesOnly

\* What a stage of the callback says about what is in hand.
LEMMA WorkIs ==
    ASSUME TypeOK, NEW w \in Workers
    PROVE  /\ work[w] # NoWork <=> Stage(w) # "none"
           /\ work[w] # NoWork => work[w].of \in Messages
           /\ Stage(w) \in {"answered", "published"} => work[w].status \in Statuses
           /\ Stage(w) \in {"none", "taken", "answered", "published"}
BY WorkCases DEF TypeOK, Stage

\* A worker handles messages it was given and publishes results of those.
LEMMA WorkerMoves ==
    ASSUME TypeOK, PlacesInv, NEW w \in Workers,
           Deliver(w) \/ Callback(w) \/ RedisError(w) \/ ConnectionError(w) \/ Exit(w) \/ Start(w)
    PROVE  PlacesInv'
<1> USE DEF TypeOK, workerVars, clientVars
<1>1. NoWork.stage = "none"
  BY DEF NoWork
<1>2. CASE Deliver(w)
  <2>1. MovesOnly
    BY <1>2 DEF Deliver, MovesOnly
  <2>2. Orderly'
    BY <1>2 DEF PlacesInv, Orderly, Deliver
  <2> QED  BY <2>1, <2>2, MovesKeepKnown DEF PlacesInv
<1>3. CASE Take(w)
  <2>1. MovesOnly
    BY <1>3 DEF Take, MovesOnly
  <2>2. Orderly'
    BY <1>3 DEF PlacesInv, Orderly, Take
  <2> QED  BY <2>1, <2>2, MovesKeepKnown DEF PlacesInv
<1>4. ASSUME NEW status, Stage(w) = "taken", calls' \in {calls, calls \cup {Call(w)}},
             \/ Answer(w, status)
             \/ UNCHANGED <<scripts, requests, orphans, results, workerVars, clientVars>>
      PROVE  PlacesInv'
  <2>1. work[w] # NoWork /\ Call(w).of = work[w].of
    BY <1>4, WorkIs DEF Call
  <2>2. /\ UNCHANGED <<requests, orphans, results, buffer, pc, run, sent, proc, handled, collected>>
        /\ \A v \in Workers : v # w => work'[v] = work[v]
        /\ work'[w] # NoWork => work'[w].of = work[w].of
    BY <1>4 DEF Answer
  <2>3. MovesOnly
    BY <1>4, <2>1, <2>2 DEF MovesOnly
  <2>4. Orderly'
    BY <2>2 DEF PlacesInv, Orderly
  <2> QED  BY <2>3, <2>4, MovesKeepKnown DEF PlacesInv
<1>5. CASE Execute(w) \/ NoScript(w) \/ RedisError(w)
  BY <1>4, <1>5 DEF Execute, NoScript, RedisError
<1>6. CASE Publish(w)
  <2>1. work[w] # NoWork
    BY <1>6, WorkIs DEF Publish
  <2>2. work'[w].of = work[w].of /\ \A v \in Workers : v # w => work'[v] = work[v]
    BY <1>6 DEF Publish
  <2>3. results' = results \cup
           {[of |-> work[w].of, status |-> work[w].status, worker_id |-> w.node_id]}
    BY <1>6 DEF Publish
  <2>4. MovesOnly
    BY <1>6, <2>1, <2>2, <2>3 DEF Publish, MovesOnly
  <2>5. Orderly'
    BY <1>6 DEF PlacesInv, Orderly, Publish
  <2> QED  BY <2>4, <2>5, MovesKeepKnown DEF PlacesInv
<1>7. CASE Ack(w)
  <2>1. MovesOnly
    BY <1>7 DEF Ack, MovesOnly
  <2>2. Orderly'
    BY <1>7 DEF PlacesInv, Orderly, Ack
  <2> QED  BY <2>1, <2>2, MovesKeepKnown DEF PlacesInv
<1>8. CASE ConnectionError(w) \/ Exit(w)
  <2>1. MovesOnly
    BY <1>8 DEF ConnectionError, Exit, Ends, MovesOnly
  <2>2. Orderly'
    BY <1>8 DEF PlacesInv, Orderly, ConnectionError, Exit, Ends
  <2> QED  BY <2>1, <2>2, MovesKeepKnown DEF PlacesInv
<1>9. CASE Start(w)
  <2>1. MovesOnly
    BY <1>9 DEF Start, MovesOnly
  <2>2. Orderly'
    BY <1>9 DEF PlacesInv, Orderly, Start
  <2> QED  BY <2>1, <2>2, MovesKeepKnown DEF PlacesInv
<1> QED
  BY <1>2, <1>3, <1>5, <1>6, <1>7, <1>8, <1>9 DEF Callback

\* Faults and requeueing bring in no new message.
LEMMA OtherMoves ==
    ASSUME TypeOK, PlacesInv,
           \/ \E w \in Workers : WorkerEnds(w) \/ Partition(w)
           \/ Requeue \/ RedisRestart \/ LateCall \/ ConsumerDies \/ Timeout
    PROVE  PlacesInv'
<1> USE DEF TypeOK, workerVars, clientVars
<1>1. ASSUME NEW w \in Workers, Kill(w), UNCHANGED clientVars PROVE PlacesInv'
  <2>0. Stage(w) = "taken" => work[w] # NoWork /\ Call(w).of = work[w].of
    BY WorkIs DEF Call
  <2>1. MovesOnly
    BY <1>1, <2>0 DEF Kill, Ends, MovesOnly, Unacked, InHand
  <2>2. Orderly'
    BY <1>1 DEF PlacesInv, Orderly, Kill, Ends
  <2> QED  BY <2>1, <2>2, MovesKeepKnown DEF PlacesInv
<1>2. ASSUME NEW w \in Workers, Partition(w) PROVE PlacesInv'
  <2>1. MovesOnly
    BY <1>2 DEF Partition, MovesOnly, Unacked, InHand
  <2>2. Orderly'
    BY <1>2 DEF PlacesInv, Orderly, Partition
  <2> QED  BY <2>1, <2>2, MovesKeepKnown DEF PlacesInv
<1>3. ASSUME NEW w \in Workers, Cancel(w) PROVE PlacesInv'
  <2>1. MovesOnly
    BY <1>3 DEF Cancel, MovesOnly
  <2>2. Orderly'
    BY <1>3 DEF PlacesInv, Orderly, Cancel
  <2> QED  BY <2>1, <2>2, MovesKeepKnown DEF PlacesInv
<1>4. CASE Requeue
  <2>1. MovesOnly
    BY <1>4 DEF Requeue, MovesOnly
  <2> QED  BY <1>4, <2>1, MovesKeepKnown DEF PlacesInv, Orderly, Requeue
<1>5. CASE RedisRestart \/ LateCall \/ ConsumerDies
  <2>1. MovesOnly
    BY <1>5 DEF RedisRestart, LateCall, ConsumerDies, MovesOnly
  <2> QED  BY <1>5, <2>1, MovesKeepKnown
              DEF PlacesInv, Orderly, RedisRestart, LateCall, ConsumerDies
<1>6. CASE Timeout
  BY <1>6 DEF Timeout, Aggregate, PlacesInv, Orderly, AllKnown, Known
<1> QED
  BY <1>1, <1>2, <1>3, <1>4, <1>5, <1>6 DEF WorkerEnds

\* The client brings in the next line of the current file and none else.
LEMMA ClientMoves ==
    ASSUME TypeOK, PlacesInv, Client \/ NewRun
    PROVE  PlacesInv'
<1> USE DEF TypeOK, workerVars, clientVars
<1>1. run \in Nat /\ sent \in Nat
  BY BenchmarksAssumption
<1>2. /\ requests \subseteq Messages /\ orphans \subseteq Messages
      /\ \A r \in results : r.of \in Messages
      /\ \A w \in Workers : buffer[w] \subseteq Messages
                            /\ (work[w] # NoWork => work[w].of \in Messages)
      /\ \A c \in calls : c.of \in Messages
  BY WorkIs DEF Results, Calls
<1>3. ASSUME \A m \in Messages : Known(m) => Known(m)', UNCHANGED <<calls, workerVars>>,
             orphans' = orphans, results' \subseteq results,
             \A m \in requests' : m \in requests \/ Known(m)'
      PROVE  AllKnown'
  BY <1>2, <1>3 DEF PlacesInv, AllKnown
<1>4. CASE NewRun
  <2>1. /\ run' = run + 1 /\ sent' = 0 /\ handled' = {}
        /\ UNCHANGED <<calls, requests, orphans, results, workerVars>>
    BY <1>4 DEF NewRun, NewClient
  <2>2. \A m \in Messages : Known(m) => Known(m)'
    BY <2>1, KnownStands
  <2>3. AllKnown'
    BY <1>3, <2>1, <2>2
  <2> QED  BY <2>1, <2>3 DEF PlacesInv, Orderly
<1>5. CASE PublishRequest
  <2>1. /\ run' = run /\ sent' = sent + 1 /\ requests' = requests \cup {<<run, sent + 1>>}
        /\ UNCHANGED <<calls, orphans, results, workerVars, pc, handled, collected>>
        /\ pc = "publishing"
    BY <1>5 DEF PublishRequest
  <2>2. \A m \in Messages : Known(m) => Known(m)'
    BY <2>1, KnownStands
  <2>3. ASSUME NEW m, m = <<run, sent + 1>> PROVE Known(m)'
    BY <1>1, <2>1, <2>3 DEF Known
  <2>4. AllKnown'
    BY <1>3, <2>1, <2>2, <2>3
  <2> QED  BY <2>1, <2>4 DEF PlacesInv, Orderly
<1>6. CASE Purge \/ AllPublished \/ WaitReturns \/ Collect \/ AckResult \/ ConsumerReturns
  <2>1. /\ UNCHANGED <<calls, run, sent, requests, orphans, workerVars>> /\ results' \subseteq results
        /\ pc' = "starting" => pc = "starting"
    BY <1>6 DEF Purge, AllPublished, WaitReturns, Aggregate, Collect, AckResult, ConsumerReturns
  <2>2. \A m \in Messages : Known(m) => Known(m)'
    BY <2>1, KnownStands
  <2>3. AllKnown'
    BY <1>3, <2>1, <2>2
  <2>4. \A r \in handled' : collected'[Op(r.of).request_id] # "nil"
    <3>1. CASE Collect
      <4>1. PICK r \in results :
               /\ collected' = [collected EXCEPT ![Op(r.of).request_id] = r.status]
               /\ handled' = {r}
        BY <3>1 DEF Collect
      <4>2. r.status # "nil" /\ Op(r.of).request_id \in Requests
        BY <1>2, MessageType DEF Results, Statuses, Outcomes
      <4> QED  BY <4>1, <4>2
    <3>2. CASE ~Collect
      <4>1. handled' \subseteq handled /\ collected' = collected
        BY <1>6, <3>2 DEF Purge, AllPublished, WaitReturns, Aggregate, AckResult, ConsumerReturns
      <4> QED  BY <4>1 DEF PlacesInv, Orderly
    <3> QED  BY <3>1, <3>2
  <2> QED  BY <2>1, <2>3, <2>4 DEF PlacesInv, Orderly
<1>7. BeginRun => NewRun
  BY DEF BeginRun, NewRun
<1> QED
  BY <1>4, <1>5, <1>6, <1>7 DEF Client

\* The steps of the pipeline among all those.
LEMMA StepCases ==
    ASSUME AnyStep
    PROVE  \/ UNCHANGED vars
           \/ \E w \in Workers :
                 \/ Deliver(w) \/ Callback(w) \/ RedisError(w) \/ ConnectionError(w)
                 \/ Exit(w) \/ Start(w) \/ WorkerEnds(w) \/ Partition(w)
           \/ Requeue \/ RedisRestart \/ LateCall \/ ConsumerDies \/ Timeout \/ Client \/ NewRun
BY DEF AnyStep, Next, Failure, Crash, Stop, WorkerEnds

\* No step brings in a message of another run.
LEMMA PlacesStand ==
    ASSUME TypeOK, PlacesInv, AnyStep
    PROVE  PlacesInv'
<1>1. CASE UNCHANGED vars
  BY <1>1 DEF vars, workerVars, clientVars, PlacesInv, AllKnown, Orderly, Known
<1>2. CASE ~UNCHANGED vars
  BY <1>2, StepCases, WorkerMoves, OtherMoves, ClientMoves
<1> QED
  BY <1>1, <1>2

\* Every message and result anywhere is of this run or an earlier one.
LEMMA Places == Spec => []PlacesInv
<1>1. Init => PlacesInv
  BY DEF Init, Initially, PlacesInv, AllKnown, Orderly
<1>2. TypeOK /\ PlacesInv /\ [Next]_vars => PlacesInv'
  BY PlacesStand DEF AnyStep
<1> QED
  BY <1>1, <1>2, TypeCorrect, PTL DEF Spec

-----------------------------------------------------------------------------
(* Results.  A worker holds the outcome the ledger holds, from its script  *)
(* until its acknowledgement, because outcomes stand until the next reset, *)
(* and a reset finds nothing of the run it begins.                         *)

HasAnswer(w) == Stage(w) \in {"answered", "published"}

WorkMatchesLedger ==
    \A w \in Workers :
        HasAnswer(w) /\ work[w].of[1] = run /\ work[w].status # "ERROR" =>
            work[w].status = Outcome(db, Op(work[w].of))

LedgerInv == WorkMatchesLedger /\ ResultsMatchLedger

OutcomesKept ==
    \A p \in Purchases : Outcome(db, p) # "nil" => Outcome(db', p) = Outcome(db, p)

\* A script never changes an outcome on record, its own request's included.
LEMMA ScriptKeepsOutcomes ==
    ASSUME TypeOK, NEW w \in Workers, Stage(w) = "taken", db' = db \/ db' = BuyOf(w)
    PROVE  OutcomesKept
<1>1. CASE db' = db
  BY <1>1 DEF OutcomesKept, Outcome
<1>2. CASE db' = BuyOf(w)
  <2>1. db \in Db /\ w \in Stores /\ Op(work[w].of) \in Purchases
    BY TakenType, WorkerType, MessageType DEF TypeOK
  <2> QED  BY <1>2, <2>1, BuyOutcomes DEF OutcomesKept, BuyOf
<1> QED
  BY <1>1, <1>2

\* LedgerInv stays if outcomes do, if an answer that is new in a worker's hands is an error
\* or the ledger's, and if every new result is some worker's answer.
LEMMA KeepsLedger ==
    ASSUME TypeOK, LedgerInv, OutcomesKept, run' = run,
           \A w \in Workers :
              Stage(w)' \in {"answered", "published"} =>
                 \/ /\ HasAnswer(w)
                    /\ work'[w].of = work[w].of /\ work'[w].status = work[w].status
                 \/ /\ work'[w].of \in Messages
                    /\ work'[w].status \in {"ERROR", Outcome(db', Op(work'[w].of))},
           \A r \in results' :
              \/ r \in results
              \/ \E w \in Workers :
                    Stage(w) = "answered" /\ r.of = work[w].of /\ r.status = work[w].status
    PROVE  LedgerInv'
<1>1. \A x \in Statuses : x # "nil"
  BY DEF Statuses, Outcomes
<1>2. ASSUME NEW w \in Workers, HasAnswer(w), work[w].of[1] = run, work[w].status # "ERROR"
      PROVE  work[w].status = Outcome(db', Op(work[w].of))
  <2>1. work[w].of \in Messages /\ work[w].status \in Statuses
    BY <1>2, WorkIs DEF HasAnswer
  <2>2. work[w].status = Outcome(db, Op(work[w].of)) /\ Op(work[w].of) \in Purchases
    BY <1>2, <2>1, MessageType DEF LedgerInv, WorkMatchesLedger
  <2> QED  BY <1>1, <2>1, <2>2 DEF OutcomesKept
<1>3. ASSUME NEW r \in results, r.of[1] = run, r.status # "ERROR"
      PROVE  r.status = Outcome(db', Op(r.of))
  <2>1. r.of \in Messages /\ r.status \in Statuses
    BY DEF TypeOK, Results
  <2>2. r.status = Outcome(db, Op(r.of)) /\ Op(r.of) \in Purchases
    BY <1>3, <2>1, MessageType DEF LedgerInv, ResultsMatchLedger
  <2> QED  BY <1>1, <2>1, <2>2 DEF OutcomesKept
<1>4. WorkMatchesLedger'
  <2> SUFFICES ASSUME NEW w \in Workers, HasAnswer(w)', work'[w].of[1] = run,
                      work'[w].status # "ERROR"
               PROVE  work'[w].status = Outcome(db', Op(work'[w].of))
    BY DEF WorkMatchesLedger
  <2> QED  BY <1>2 DEF HasAnswer
<1>5. ResultsMatchLedger'
  <2> SUFFICES ASSUME NEW r \in results', r.of[1] = run, r.status # "ERROR"
               PROVE  r.status = Outcome(db', Op(r.of))
    BY DEF ResultsMatchLedger
  <2>1. CASE r \in results
    BY <1>3, <2>1
  <2>2. CASE \E w \in Workers :
                Stage(w) = "answered" /\ r.of = work[w].of /\ r.status = work[w].status
    BY <1>2, <2>2 DEF HasAnswer
  <2> QED  BY <2>1, <2>2
<1> QED
  BY <1>4, <1>5 DEF LedgerInv

\* A worker's steps are of that kind: it answers what its script returned, or ERROR.
LEMMA WorkerLedger ==
    ASSUME TypeOK, LedgerInv, NEW w \in Workers,
           Deliver(w) \/ Callback(w) \/ RedisError(w) \/ ConnectionError(w) \/ Exit(w) \/ Start(w)
    PROVE  LedgerInv'
<1> USE DEF TypeOK, workerVars, clientVars
<1>1. NoWork.stage = "none"
  BY DEF NoWork
<1>2. ASSUME UNCHANGED <<db, run>>, results' = results,
             \A v \in Workers : work'[v] = work[v] \/ work'[v].stage \in {"none", "taken"}
      PROVE  LedgerInv'
  <2>1. OutcomesKept
    BY <1>2 DEF OutcomesKept, Outcome
  <2>2. \A v \in Workers :
           Stage(v)' \in {"answered", "published"} =>
              /\ HasAnswer(v)
              /\ work'[v].of = work[v].of /\ work'[v].status = work[v].status
    BY <1>2 DEF Stage, HasAnswer
  <2> QED  BY <1>2, <2>1, <2>2, KeepsLedger
<1>3. CASE Deliver(w) \/ Start(w)
  BY <1>2, <1>3 DEF Deliver, Start
<1>4. CASE Take(w)
  BY <1>2, <1>4 DEF Take
<1>5. CASE Ack(w)
  BY <1>1, <1>2, <1>5 DEF Ack
<1>6. CASE ConnectionError(w) \/ Exit(w)
  BY <1>1, <1>2, <1>6 DEF ConnectionError, Exit, Ends
<1>7. ASSUME Stage(w) = "taken", db' = db \/ db' = BuyOf(w), NEW status, Answer(w, status),
             status \in {"ERROR", Outcome(db', Op(work[w].of))}
      PROVE  LedgerInv'
  <2>1. OutcomesKept /\ work[w].of \in Messages
    BY <1>7, ScriptKeepsOutcomes, TakenType
  <2>2. /\ work' = [work EXCEPT ![w] = [stage |-> "answered", of |-> work[w].of, status |-> status]]
        /\ UNCHANGED <<results, run>>
    BY <1>7 DEF Answer
  <2>3. ASSUME NEW v \in Workers, Stage(v)' \in {"answered", "published"}
        PROVE  \/ /\ HasAnswer(v)
                  /\ work'[v].of = work[v].of /\ work'[v].status = work[v].status
               \/ /\ work'[v].of \in Messages
                  /\ work'[v].status \in {"ERROR", Outcome(db', Op(work'[v].of))}
    <3>1. CASE v = w
      BY <1>7, <2>1, <2>2, <3>1
    <3>2. CASE v # w
      BY <2>2, <2>3, <3>2 DEF Stage, HasAnswer
    <3> QED  BY <3>1, <3>2
  <2> QED  BY <2>1, <2>2, <2>3, KeepsLedger
<1>8. CASE Execute(w)
  BY <1>7, <1>8 DEF Execute
<1>9. CASE NoScript(w)
  BY <1>7, <1>9 DEF NoScript
<1>10. CASE RedisError(w)
  <2>1. Stage(w) = "taken" /\ (db' = db \/ db' = BuyOf(w))
    BY <1>10 DEF RedisError
  <2>2. CASE Answer(w, "ERROR")
    BY <1>7, <2>1, <2>2
  <2>3. CASE UNCHANGED <<scripts, requests, orphans, results, workerVars, clientVars>>
    <3>1. OutcomesKept
      BY <2>1, ScriptKeepsOutcomes
    <3> QED  BY <2>3, <3>1, KeepsLedger DEF Stage, HasAnswer
  <2> QED  BY <1>10, <2>2, <2>3 DEF RedisError
<1>11. CASE Publish(w)
  <2>1. OutcomesKept
    BY <1>11 DEF Publish, OutcomesKept, Outcome
  <2>2. /\ work' = [work EXCEPT ![w].stage = "published"] /\ UNCHANGED run
        /\ results' = results \cup
              {[of |-> work[w].of, status |-> work[w].status, worker_id |-> w.node_id]}
        /\ Stage(w) = "answered"
    BY <1>11 DEF Publish
  <2>3. \A v \in Workers :
           Stage(v)' \in {"answered", "published"} =>
              /\ HasAnswer(v)
              /\ work'[v].of = work[v].of /\ work'[v].status = work[v].status
    BY <2>2 DEF Stage, HasAnswer
  <2>4. \A r \in results' :
           r \in results \/ (r.of = work[w].of /\ r.status = work[w].status)
    BY <2>2
  <2> QED  BY <2>1, <2>2, <2>3, <2>4, KeepsLedger
<1> QED
  BY <1>3, <1>4, <1>5, <1>6, <1>8, <1>9, <1>10, <1>11 DEF Callback

\* Faults change no answer, nor does a call that arrives late; a reset begins a
\* run of which no result is known.
LEMMA OtherLedger ==
    ASSUME TypeOK, PlacesInv, LedgerInv,
           \/ \E w \in Workers : Crash(w) \/ Partition(w) \/ Stop(w)
           \/ Requeue \/ RedisRestart \/ LateCall \/ ConsumerDies \/ Timeout \/ Client
    PROVE  LedgerInv'
<1> USE DEF TypeOK, workerVars, clientVars
<1>1. CASE BeginRun
  <2>1. run' = run + 1 /\ UNCHANGED <<results, work>> /\ run \in Nat
    BY <1>1, BenchmarksAssumption DEF BeginRun, NewClient
  <2>2. \A m \in Messages : Known(m) => m[1] # run'
    BY <2>1, MessageType DEF Known
  <2>3. \A w \in Workers : HasAnswer(w) => work[w].of[1] # run'
    BY <2>2, WorkIs DEF PlacesInv, AllKnown, HasAnswer
  <2>4. \A r \in results : r.of[1] # run'
    BY <2>2 DEF PlacesInv, AllKnown, Results
  <2> QED
    BY <2>1, <2>3, <2>4 DEF LedgerInv, WorkMatchesLedger, ResultsMatchLedger, HasAnswer, Stage
<1>2. CASE ~BeginRun
  <2>1. run' = run /\ results' \subseteq results /\ (db' = db \/ LateCall)
    BY <1>2 DEF Crash, Kill, Partition, Stop, Cancel, Requeue, RedisRestart, LateCall,
                ConsumerDies, Timeout, Client, Purge, PublishRequest, AllPublished, WaitReturns,
                Aggregate, Collect, AckResult, ConsumerReturns
  <2>2. \A v \in Workers : work'[v] = work[v] \/ work'[v] = NoWork
    BY <1>2 DEF Crash, Kill, Ends, Partition, Stop, Cancel, Requeue, RedisRestart, LateCall,
                ConsumerDies, Timeout, Client, Purge, PublishRequest, AllPublished, WaitReturns,
                Aggregate, Collect, AckResult, ConsumerReturns
  <2>3. OutcomesKept
    <3> HIDE DEF TypeOK
    <3>1. CASE db' = db
      BY <3>1 DEF OutcomesKept, Outcome
    <3>2. CASE LateCall
      <4>1. PICK c \in Calls :
               db' = db \/ db' = Buy(db, c.by, Op(c.of), 0, 0)
        BY <3>2, LateCallTouches DEF TypeOK
      <4>2. db \in Db /\ c.by \in Stores /\ Op(c.of) \in Purchases
        BY MessageType DEF TypeOK, Calls, Workers
      <4>3. CASE db' = db
        BY <4>3 DEF OutcomesKept, Outcome
      <4>4. CASE db' = Buy(db, c.by, Op(c.of), 0, 0)
        BY <4>2, <4>4, BuyOutcomes DEF OutcomesKept
      <4> QED  BY <4>1, <4>3, <4>4
    <3> QED  BY <2>1, <3>1, <3>2
  <2>4. \A v \in Workers :
           Stage(v)' \in {"answered", "published"} =>
              /\ HasAnswer(v)
              /\ work'[v].of = work[v].of /\ work'[v].status = work[v].status
    BY <2>2 DEF Stage, HasAnswer, NoWork
  <2> QED  BY <2>1, <2>3, <2>4, KeepsLedger
<1> QED
  BY <1>1, <1>2

\* Answers and results say what the ledger says.
LEMMA LedgerHolds == Spec => []LedgerInv
<1>1. Init => LedgerInv
  BY DEF Init, Initially, LedgerInv, WorkMatchesLedger, ResultsMatchLedger, HasAnswer, Stage, NoWork
<1>2. TypeOK /\ PlacesInv /\ LedgerInv /\ [Next]_vars => LedgerInv'
  <2> SUFFICES ASSUME TypeOK, PlacesInv, LedgerInv, [Next]_vars PROVE LedgerInv'
    OBVIOUS
  <2>1. CASE UNCHANGED vars
    BY <2>1 DEF vars, workerVars, clientVars, LedgerInv, WorkMatchesLedger, ResultsMatchLedger,
                HasAnswer, Stage, Outcome
  <2>2. CASE Next
    BY <2>2, WorkerLedger, OtherLedger DEF Next, Failure
  <2> QED  BY <2>1, <2>2
<1> QED
  BY <1>1, <1>2, TypeCorrect, Places, PTL DEF Spec

\* A result of this run says what the ledger says, whichever worker published
\* it and however often its message was delivered.
THEOREM ResultsAreTrue == Spec => []ResultsMatchLedger
<1>1. LedgerInv => ResultsMatchLedger
  BY DEF LedgerInv
<1> QED
  BY <1>1, LedgerHolds, PTL

-----------------------------------------------------------------------------
(* Requests.  A message is held until it is acknowledged, and by then its  *)
(* result has been published: it is on its way to the client or there.     *)

\* An id is settled when it has a result or is one of those that are gone (none
\* here; the scripts' drain takes some).
Settled(gone, c) == Answered(c) \/ c \in gone

PublishedIsSettled(gone) ==
    \A w \in Workers :
        Stage(w) = "published" /\ work[w].of[1] = run => Settled(gone, Op(work[w].of).request_id)

NoneLost(gone) ==
    \A j \in 1..sent : <<run, j>> \in Held \/ Settled(gone, Ops[j].request_id)

LossInv(gone) == PublishedIsSettled(gone) /\ NoneLost(gone)

HeldAt(m) ==
    \/ m \in requests \/ m \in orphans
    \/ \E w \in Workers : linked[w] /\ (m \in buffer[w] \/ (work[w] # NoWork /\ work[w].of = m))

\* Being held for a worker, message by message.
LEMMA HeldIs == \A m : m \in Held <=> HeldAt(m)
BY DEF Held, HeldAt, Unacked, InHand

\* The same after a step.
LEMMA HeldWillBe == \A m : m \in Held' <=> HeldAt(m)'
BY DEF Held, HeldAt, Unacked, InHand

\* A step of a run in which no answer disappears, and no message but an
\* answered one.
LEMMA KeepsRequests ==
    ASSUME NEW gone, LossInv(gone), UNCHANGED <<run, sent>>,
           \A c : Settled(gone, c) => Settled(gone, c)',
           \A m : HeldAt(m) => HeldAt(m)' \/ (m[1] = run => Settled(gone, Op(m).request_id)),
           \A w \in Workers :
              Stage(w)' = "published" =>
                 \/ Stage(w) = "published" /\ work'[w].of = work[w].of
                 \/ Settled(gone, Op(work[w].of).request_id)' /\ work'[w].of = work[w].of
    PROVE  LossInv(gone)'
<1>1. PublishedIsSettled(gone)'
  BY DEF LossInv, PublishedIsSettled
<1>2. NoneLost(gone)'
  <2> SUFFICES ASSUME NEW j \in 1..sent, ~Settled(gone, Ops[j].request_id)'
               PROVE  <<run, j>> \in Held'
    BY DEF NoneLost, Ops
  <2>1. ~Settled(gone, Ops[j].request_id)
    BY DEF Ops
  <2>2. HeldAt(<<run, j>>)
    BY <2>1, HeldIs DEF LossInv, NoneLost
  <2>3. ASSUME NEW m, m = <<run, j>> PROVE m \in Held'
    <3>1. HeldAt(m) /\ ~Settled(gone, Op(m).request_id) /\ m[1] = run
      BY <2>1, <2>2, <2>3 DEF Op, Ops
    <3>2. HeldAt(m)'
      BY <3>1
    <3> QED  BY <3>2, HeldWillBe
  <2> QED  BY <2>3
<1> QED
  BY <1>1, <1>2 DEF LossInv

\* A worker lets go of a message only when its result is out or the broker has it back.
LEMMA WorkerLoss ==
    ASSUME NEW gone, TypeOK, PlacesInv, LossInv(gone), NEW w \in Workers,
           Deliver(w) \/ Callback(w) \/ RedisError(w) \/ ConnectionError(w) \/ Exit(w) \/ Start(w)
    PROVE  LossInv(gone)'
<1> USE DEF TypeOK, workerVars, clientVars
<1>1. NoWork.stage = "none"
  BY DEF NoWork
<1>2. ASSUME UNCHANGED <<run, sent, results, collected>>,
             \A m : HeldAt(m) => HeldAt(m)' \/ (m[1] = run => Settled(gone, Op(m).request_id)),
             \A v \in Workers : work'[v] = work[v] \/ work'[v].stage # "published"
      PROVE  LossInv(gone)'
  <2>1. \A c : Settled(gone, c) => Settled(gone, c)'
    BY <1>2 DEF Settled, Answered
  <2> QED  BY <1>2, <2>1, KeepsRequests DEF Stage
<1>3. CASE Deliver(w)
  <2>1. \A m : HeldAt(m) => HeldAt(m)'
    BY <1>3 DEF Deliver, HeldAt
  <2> QED  BY <1>2, <1>3, <2>1 DEF Deliver
<1>4. CASE Take(w)
  <2>1. PICK x \in buffer[w] : /\ buffer' = [buffer EXCEPT ![w] = @ \ {x}]
                               /\ work' = [work EXCEPT ![w] = [stage |-> "taken", of |-> x]]
    BY <1>4 DEF Take
  <2>2. UNCHANGED <<requests, orphans, linked>> /\ work[w] = NoWork
    BY <1>4 DEF Take
  <2>3. work'[w] # NoWork /\ work'[w].of = x
    BY <1>1, <2>1
  <2>4. \A v \in Workers : v # w => work'[v] = work[v] /\ buffer'[v] = buffer[v]
    BY <2>1
  <2>5. \A m : m \in buffer[w] => m \in buffer'[w] \/ m = x
    BY <2>1
  <2>6. \A m : HeldAt(m) => HeldAt(m)'
    BY <2>2, <2>3, <2>4, <2>5 DEF HeldAt
  <2>7. \A v \in Workers : work'[v] = work[v] \/ work'[v].stage # "published"
    BY <2>1
  <2> QED  BY <1>2, <1>4, <2>6, <2>7 DEF Take
<1>5. CASE Start(w)
  <2>1. \A m : HeldAt(m) => HeldAt(m)'
    BY <1>5 DEF Start, HeldAt
  <2> QED  BY <1>2, <1>5, <2>1 DEF Start
<1>6. ASSUME Stage(w) \in {"taken", "answered"}, work'[w].of = work[w].of, work'[w].stage # "none",
             \A v \in Workers : v # w => work'[v] = work[v],
             UNCHANGED <<requests, orphans, linked, buffer>>
      PROVE  \A m : HeldAt(m) => HeldAt(m)'
  BY <1>1, <1>6 DEF HeldAt, Stage
<1>7. ASSUME NEW status, Answer(w, status), Stage(w) = "taken" PROVE LossInv(gone)'
  <2>1. /\ work' = [work EXCEPT ![w] = [stage |-> "answered", of |-> work[w].of, status |-> status]]
        /\ UNCHANGED <<results, run, sent, collected, requests, orphans, linked, buffer>>
    BY <1>7 DEF Answer
  <2>2. /\ work'[w].of = work[w].of /\ work'[w].stage = "answered"
        /\ \A v \in Workers : v # w => work'[v] = work[v]
    BY <2>1
  <2>3. \A m : HeldAt(m) => HeldAt(m)'
    BY <1>6, <1>7, <2>1, <2>2
  <2> QED  BY <1>2, <2>1, <2>2, <2>3
<1>8. CASE Execute(w) \/ NoScript(w) \/ RedisError(w)
  <2>1. CASE UNCHANGED <<scripts, requests, orphans, results, workerVars, clientVars>>
    <3>1. \A m : HeldAt(m) => HeldAt(m)'
      BY <2>1 DEF HeldAt
    <3> QED  BY <1>2, <2>1, <3>1
  <2> QED  BY <1>7, <1>8, <2>1 DEF Execute, NoScript, RedisError
<1>9. CASE Publish(w)
  <2> DEFINE new == [of |-> work[w].of, status |-> work[w].status, worker_id |-> w.node_id]
  <2>1. /\ work' = [work EXCEPT ![w].stage = "published"] /\ Stage(w) = "answered"
        /\ results' = results \cup {new}
        /\ UNCHANGED <<run, sent, collected, requests, orphans, linked, buffer>>
    BY <1>9 DEF Publish
  <2>2. /\ work'[w].of = work[w].of /\ work'[w].stage = "published"
        /\ \A v \in Workers : v # w => work'[v] = work[v]
    BY <2>1
  <2>3. \A m : HeldAt(m) => HeldAt(m)'
    BY <1>6, <2>1, <2>2
  <2>4. \A c : Settled(gone, c) => Settled(gone, c)'
    BY <2>1 DEF Settled, Answered
  <2>5. Settled(gone, Op(work[w].of).request_id)'
    <3>1. new \in results' /\ new.of = work[w].of
      BY <2>1
    <3> HIDE DEF new
    <3>2. work'[w].of = work[w].of
      BY <2>2
    <3> QED  BY <3>1, <3>2 DEF Settled, Answered
  <2> QED  BY <2>1, <2>2, <2>3, <2>4, <2>5, KeepsRequests DEF Stage
<1>10. CASE Ack(w)
  <2>1. /\ work' = [work EXCEPT ![w] = NoWork] /\ Stage(w) = "published"
        /\ UNCHANGED <<run, sent, results, collected, requests, orphans, linked, buffer>>
    BY <1>10 DEF Ack
  <2>2. ASSUME NEW m, HeldAt(m), ~HeldAt(m)' PROVE m = work[w].of
    BY <2>1, <2>2 DEF HeldAt
  <2>3. \A m : HeldAt(m) => HeldAt(m)' \/ (m[1] = run => Settled(gone, Op(m).request_id))
    BY <2>1, <2>2 DEF LossInv, PublishedIsSettled
  <2> QED  BY <1>1, <1>2, <2>1, <2>3
<1>11. CASE ConnectionError(w)
  <2>1. \A m : HeldAt(m) => HeldAt(m)'
    BY <1>11 DEF ConnectionError, Ends, HeldAt
  <2> QED  BY <1>1, <1>2, <1>11, <2>1 DEF ConnectionError, Ends
<1>12. CASE Exit(w)
  <2>1. buffer[w] = {} /\ work[w] = NoWork
    BY <1>12 DEF Exit, PlacesInv, Orderly
  <2>2. \A m : HeldAt(m) => HeldAt(m)'
    BY <1>12, <2>1 DEF Exit, Ends, HeldAt
  <2> QED  BY <1>1, <1>2, <1>12, <2>2 DEF Exit, Ends
<1> QED
  BY <1>3, <1>4, <1>5, <1>8, <1>9, <1>10, <1>11, <1>12 DEF Callback

\* What a worker that dies had, the broker has.
LEMMA OtherLoss ==
    ASSUME NEW gone, TypeOK, LossInv(gone),
           \/ \E w \in Workers : WorkerEnds(w) \/ Partition(w)
           \/ Requeue \/ RedisRestart \/ LateCall \/ ConsumerDies \/ Timeout
    PROVE  LossInv(gone)'
<1> USE DEF TypeOK, workerVars, clientVars
<1>1. UNCHANGED <<run, sent, results, collected>>
  BY DEF WorkerEnds, Kill, Partition, Cancel, Requeue, RedisRestart, LateCall, ConsumerDies,
         Timeout, Aggregate
<1>2. \A c : Settled(gone, c) => Settled(gone, c)'
  BY <1>1 DEF Settled, Answered
<1>3. ASSUME \A m : HeldAt(m) => HeldAt(m)',
             \A v \in Workers : work'[v] = work[v] \/ work'[v].stage # "published"
      PROVE  LossInv(gone)'
  BY <1>1, <1>2, <1>3, KeepsRequests DEF Stage
<1>4. ASSUME NEW w \in Workers, Kill(w), UNCHANGED clientVars PROVE LossInv(gone)'
  <2>1. /\ orphans' = orphans \cup Unacked(w) /\ requests' = requests
        /\ linked' = [linked EXCEPT ![w] = FALSE] /\ buffer' = [buffer EXCEPT ![w] = {}]
        /\ work' = [work EXCEPT ![w] = NoWork]
    BY <1>4 DEF Kill, Ends
  <2>2. \A m : linked[w] /\ (m \in buffer[w] \/ (work[w] # NoWork /\ work[w].of = m)) =>
               m \in orphans'
    BY <2>1 DEF Unacked, InHand
  <2>3. \A m : HeldAt(m) => HeldAt(m)'
    BY <2>1, <2>2 DEF HeldAt
  <2> QED  BY <1>3, <2>1, <2>3 DEF NoWork
<1>5. ASSUME NEW w \in Workers, Partition(w) PROVE LossInv(gone)'
  <2>1. /\ requests' = requests \cup Unacked(w) /\ UNCHANGED <<orphans, buffer, work>>
        /\ linked' = [linked EXCEPT ![w] = FALSE]
    BY <1>5 DEF Partition
  <2>2. \A m : linked[w] /\ (m \in buffer[w] \/ (work[w] # NoWork /\ work[w].of = m)) =>
               m \in requests'
    BY <2>1 DEF Unacked, InHand
  <2>3. \A m : HeldAt(m) => HeldAt(m)'
    BY <2>1, <2>2 DEF HeldAt
  <2> QED  BY <1>3, <2>1, <2>3
<1>6. ASSUME NEW w \in Workers, Cancel(w) PROVE LossInv(gone)'
  <2>1. /\ requests' = (IF linked[w] THEN requests \cup buffer[w] ELSE requests)
        /\ buffer' = [buffer EXCEPT ![w] = {}] /\ UNCHANGED <<orphans, linked, work>>
    BY <1>6 DEF Cancel
  <2>2. \A m : HeldAt(m) => HeldAt(m)'
    BY <2>1 DEF HeldAt
  <2> QED  BY <1>3, <2>1, <2>2
<1>7. CASE Requeue
  <2>1. \A m : HeldAt(m) => HeldAt(m)'
    BY <1>7 DEF Requeue, HeldAt
  <2> QED  BY <1>3, <1>7, <2>1 DEF Requeue
<1>8. CASE RedisRestart \/ LateCall \/ ConsumerDies \/ Timeout
  <2>1. UNCHANGED <<requests, orphans, linked, buffer, work>>
    BY <1>8 DEF RedisRestart, LateCall, ConsumerDies, Timeout, Aggregate
  <2>2. \A m : HeldAt(m) => HeldAt(m)'
    BY <2>1 DEF HeldAt
  <2> QED  BY <1>3, <2>1, <2>2
<1> QED
  BY <1>4, <1>5, <1>6, <1>7, <1>8 DEF WorkerEnds

\* The client publishes before it counts on a message, and purges only before it publishes.
LEMMA ClientLoss ==
    ASSUME NEW gone, TypeOK, PlacesInv, LossInv(gone), Client \/ NewRun
    PROVE  LossInv(gone)'
<1> USE DEF TypeOK, workerVars, clientVars
<1>1. run \in Nat /\ sent \in Nat
  BY BenchmarksAssumption
\* While the client has sent nothing, nothing of its run is published.
<1>2. ASSUME sent' = 0, UNCHANGED work, NEW i \in Nat, run' = i,
             \A m \in Messages : Known(m) => m[1] # i
      PROVE  LossInv(gone)'
  <2>1. \A w \in Workers : Stage(w) = "published" => work[w].of[1] # i
    BY <1>2, WorkIs DEF PlacesInv, AllKnown
  <2> QED  BY <1>2, <2>1 DEF LossInv, PublishedIsSettled, NoneLost, Stage
<1>3. CASE BeginRun \/ NewRun
  <2>1. run' = run + 1 /\ sent' = 0 /\ UNCHANGED work
    BY <1>3 DEF BeginRun, NewRun, NewClient
  <2>2. \A m \in Messages : Known(m) => m[1] # run + 1
    BY <1>1, MessageType DEF Known
  <2> QED  BY <1>1, <1>2, <2>1, <2>2
<1>4. CASE Purge
  <2>1. sent = 0 /\ UNCHANGED <<run, sent, work>>
    BY <1>4 DEF Purge, PlacesInv, Orderly
  <2>2. \A m \in Messages : Known(m) => m[1] # run
    BY <1>1, <2>1, MessageType DEF Known
  <2> QED  BY <1>1, <1>2, <2>1, <2>2
<1>5. CASE PublishRequest
  <2>1. /\ UNCHANGED <<run, results, collected, orphans, linked, buffer, work>> /\ sent' = sent + 1
        /\ requests' = requests \cup {<<run, sent + 1>>}
    BY <1>5 DEF PublishRequest
  <2>2. \A m : m \in Held => m \in Held'
    <3>1. \A m : HeldAt(m) => HeldAt(m)'
      BY <2>1 DEF HeldAt
    <3> QED  BY <3>1, HeldIs, HeldWillBe
  <2>3. <<run, sent + 1>> \in Held'
    BY <2>1 DEF Held
  <2>4. \A c : Settled(gone, c) <=> Settled(gone, c)'
    BY <2>1 DEF Settled, Answered
  <2>5. NoneLost(gone)'
    <3> SUFFICES ASSUME NEW j \in 1..(sent + 1)
                 PROVE  <<run, j>> \in Held' \/ Settled(gone, Ops[j].request_id)'
      BY <2>1 DEF NoneLost, Ops
    <3>1. CASE j = sent + 1
      BY <2>3, <3>1
    <3>2. CASE j \in 1..sent
      <4>1. <<run, j>> \in Held \/ Settled(gone, Ops[j].request_id)
        BY <3>2 DEF LossInv, NoneLost
      <4>2. Ops'[j] = Ops[j]
        BY <2>1 DEF Ops
      <4> QED  BY <2>1, <2>2, <4>1, <4>2 DEF Settled, Answered
    <3> QED  BY <1>1, <3>1, <3>2
  <2>6. PublishedIsSettled(gone)'
    BY <2>1, <2>4 DEF LossInv, PublishedIsSettled, Stage, Settled, Answered
  <2> QED  BY <2>5, <2>6 DEF LossInv
<1>6. CASE Collect
  <2>1. PICK r \in results : collected' = [collected EXCEPT ![Op(r.of).request_id] = r.status]
    BY <1>6 DEF Collect
  <2>2. r.status # "nil" /\ Op(r.of).request_id \in Requests
    BY <2>1, MessageType DEF Results, Statuses, Outcomes
  <2>3. UNCHANGED <<run, sent, results, requests, orphans, linked, buffer, work>>
    BY <1>6 DEF Collect
  <2>4. \A c : Settled(gone, c) => Settled(gone, c)'
    BY <2>1, <2>2, <2>3 DEF Settled, Answered
  <2>5. \A m : HeldAt(m) => HeldAt(m)'
    BY <2>3 DEF HeldAt
  <2> QED  BY <2>3, <2>4, <2>5, KeepsRequests DEF Stage
\* A result that is acknowledged has been collected.
<1>8. CASE AckResult
  <2>1. /\ results' = results \ handled
        /\ UNCHANGED <<run, sent, collected, requests, orphans, linked, buffer, work>>
    BY <1>8 DEF AckResult
  <2>2. \A r \in handled : collected[Op(r.of).request_id] # "nil"
    BY DEF PlacesInv, Orderly
  <2>3. \A c : Settled(gone, c) => Settled(gone, c)'
    BY <2>1, <2>2 DEF Settled, Answered
  <2>4. \A m : HeldAt(m) => HeldAt(m)'
    BY <2>1 DEF HeldAt
  <2> QED  BY <2>1, <2>3, <2>4, KeepsRequests DEF Stage
<1>7. CASE AllPublished \/ WaitReturns \/ ConsumerReturns
  <2>1. UNCHANGED <<run, sent, results, collected, requests, orphans, linked, buffer, work>>
    BY <1>7 DEF AllPublished, WaitReturns, Aggregate, ConsumerReturns
  <2>2. (\A c : Settled(gone, c) => Settled(gone, c)') /\ (\A m : HeldAt(m) => HeldAt(m)')
    BY <2>1 DEF Settled, Answered, HeldAt
  <2> QED  BY <2>1, <2>2, KeepsRequests DEF Stage
<1> QED
  BY <1>3, <1>4, <1>5, <1>6, <1>7, <1>8 DEF Client

\* No step loses a request.
LEMMA LossStands ==
    ASSUME NEW gone, TypeOK, PlacesInv, LossInv(gone), AnyStep
    PROVE  LossInv(gone)'
<1>1. CASE UNCHANGED vars
  <2>1. UNCHANGED <<linked, buffer, work, requests, results, orphans, run, sent, collected>>
    BY <1>1 DEF vars, workerVars, clientVars
  <2>2. (\A c : Settled(gone, c) => Settled(gone, c)') /\ (\A m : HeldAt(m) => HeldAt(m)')
    BY <2>1 DEF Settled, Answered, HeldAt
  <2> QED  BY <2>1, <2>2, KeepsRequests DEF Stage
<1>2. CASE ~UNCHANGED vars
  BY <1>2, StepCases, WorkerLoss, OtherLoss, ClientLoss
<1> QED
  BY <1>1, <1>2

\* Whatever crashes, a published request is held by the broker, or its result
\* is on its way to the client or there.
THEOREM RequestsSurvive == Spec => []NoRequestLost
<1>1. Init => LossInv({})
  BY DEF Init, Initially, LossInv, PublishedIsSettled, NoneLost, Stage, NoWork
<1>2. TypeOK /\ PlacesInv /\ LossInv({}) /\ [Next]_vars => LossInv({})'
  BY LossStands DEF AnyStep
<1>3. LossInv({}) => NoRequestLost
  BY DEF LossInv, NoneLost, Settled, NoRequestLost
<1> QED
  BY <1>1, <1>2, <1>3, TypeCorrect, Places, PTL DEF Spec

-----------------------------------------------------------------------------
(* Completion.  The client counts the ids it has a status for.  If no two  *)
(* lines of a file share an id, it has counted enough once it has all; if, *)
(* moreover, every run is on the same ids, enough is all.                  *)

Ids(i) == {Benchmarks[i][j].request_id : j \in DOMAIN Benchmarks[i]}
Got(of) == {c \in Requests : of[c] # "nil"}

DistinctIds ==
    \A i \in DOMAIN Benchmarks : \A j, k \in DOMAIN Benchmarks[i] :
        Benchmarks[i][j].request_id = Benchmarks[i][k].request_id => j = k

SameIds == \A i, k \in DOMAIN Benchmarks : Ids(i) = Ids(k)
NoEmptyFile == \A i \in DOMAIN Benchmarks : Benchmarks[i] # <<>>

\* A file whose lines have distinct ids has as many ids as lines.
LEMMA IdCount ==
    ASSUME DistinctIds, NEW i \in 1..Len(Benchmarks)
    PROVE  /\ IsFiniteSet(Ids(i)) /\ Cardinality(Ids(i)) = Len(Benchmarks[i])
           /\ Ids(i) \subseteq Requests
<1>1. Benchmarks[i] \in Seq(Purchases) /\ DOMAIN Benchmarks[i] = 1..Len(Benchmarks[i])
      /\ Len(Benchmarks[i]) \in Nat
  BY BenchmarksAssumption
<1> DEFINE D == 1..Len(Benchmarks[i])
           f == [j \in D |-> Benchmarks[i][j].request_id]
<1>2. IsFiniteSet(D) /\ Cardinality(D) = Len(Benchmarks[i])
  <2>1. ASSUME NEW n \in Nat PROVE IsFiniteSet(1..n) /\ Cardinality(1..n) = n
    BY FS_Interval
  <2> QED  BY <1>1, <2>1
<1>3. f \in Injection(D, Ids(i)) /\ f \in Surjection(D, Ids(i))
  <2>1. \A a, b \in D : f[a] = f[b] => a = b
    BY <1>1, BenchmarksAssumption DEF DistinctIds
  <2>2. f \in [D -> Ids(i)] /\ \A c \in Ids(i) : \E j \in D : f[j] = c
    BY <1>1 DEF Ids
  <2> HIDE DEF f, D
  <2>3. DOMAIN f = D
    BY <2>2
  <2> QED  BY <2>1, <2>2, <2>3 DEF Injection, Surjection, IsInjective
<1>4. Ids(i) \subseteq Requests
  BY <1>1 DEF Ids, Requests
<1> HIDE DEF f, D
<1>5. IsFiniteSet(Ids(i)) /\ Cardinality(Ids(i)) = Cardinality(D)
  BY <1>2, <1>3, FS_Surjection
<1> QED
  BY <1>2, <1>4, <1>5

\* The ids the client has a status for are ids of its file, if all files are
\* alike; it is done exactly when there are enough.
CountInv ==
    /\ IsFiniteSet(Got(collected))
    /\ SameIds /\ run > 0 => Got(collected) \subseteq Ids(run)
    /\ pc \in {"waiting", "finished"} => sent = Len(Ops)
    /\ NoEmptyFile /\ run > 0 /\ ~done => ~Enough(collected)
    /\ run > 0 /\ done => Enough(collected)

\* If all files have the same ids, every message has an id of the current one.
LEMMA IdOf ==
    ASSUME SameIds, NEW m \in Messages, NEW i \in 1..Len(Benchmarks)
    PROVE  Op(m).request_id \in Ids(i)
<1>1. PICK k \in DOMAIN Benchmarks : m \in {<<k, j>> : j \in DOMAIN Benchmarks[k]}
  BY DEF Messages
<1>2. PICK j \in DOMAIN Benchmarks[k] : m = <<k, j>>
  BY <1>1
<1>3. Op(m).request_id \in Ids(k)
  BY <1>2 DEF Op, Ids
<1>4. i \in DOMAIN Benchmarks
  BY BenchmarksAssumption
<1>5. Ids(k) = Ids(i)
  BY <1>4 DEF SameIds
<1> QED
  BY <1>3, <1>5

\* The event is set exactly when the count of results reaches the number of lines.
LEMMA ClientCounts ==
    ASSUME DistinctIds, TypeOK, CountInv, AnyStep
    PROVE  CountInv'
<1> USE DEF TypeOK
<1>1. CASE NewClient
  <2>1. /\ collected' = NothingCollected /\ done' = FALSE /\ pc' = "starting"
        /\ run' \in 1..Len(Benchmarks)
    BY <1>1, NewClientType DEF NewClient
  <2>2. Got(collected') = {}
    BY <2>1 DEF Got, NothingCollected
  <2>3. IsFiniteSet(Got(collected')) /\ Collected(collected') = 0
    BY <2>2, FS_EmptySet DEF Got, Collected
  <2>4. NoEmptyFile => ~Enough(collected)'
    <3>1. Benchmarks[run'] \in Seq(Purchases)
      BY <2>1, BenchmarksAssumption
    <3>2. NoEmptyFile => Len(Benchmarks[run']) > 0
      BY <2>1, <3>1, BenchmarksAssumption DEF NoEmptyFile
    <3> QED  BY <2>3, <3>1, <3>2 DEF Enough, Ops, Collected
  <2> QED  BY <2>1, <2>2, <2>3, <2>4 DEF CountInv, Got
<1>2. CASE Collect
  <2>1. PICK r \in results : collected' = [collected EXCEPT ![Op(r.of).request_id] = r.status]
    BY <1>2 DEF Collect
  <2> DEFINE c == Op(r.of).request_id
  <2>2. r.of \in Messages /\ c \in Requests /\ r.status # "nil"
    BY <2>1, MessageType DEF Results, Statuses, Outcomes
  <2>3. Got(collected') = Got(collected) \cup {c}
    BY <2>1, <2>2 DEF Got
  <2>4. SameIds /\ run > 0 => c \in Ids(run)
    BY <2>2, IdOf, BenchmarksAssumption
  <2> HIDE DEF c
  <2>5. /\ IsFiniteSet(Got(collected'))
        /\ Cardinality(Got(collected)) <= Cardinality(Got(collected'))
        /\ Cardinality(Got(collected)) \in Nat /\ Cardinality(Got(collected')) \in Nat
    <3>1. IsFiniteSet(Got(collected'))
      BY <2>3, FS_AddElement DEF CountInv
    <3> QED  BY <2>3, <3>1, FS_Subset, FS_CardinalityType DEF CountInv
  <2>6. UNCHANGED <<run, pc, sent>> /\ done' = (done \/ Enough(collected'))
    BY <1>2 DEF Collect
  <2>7. run > 0 /\ Enough(collected) => Enough(collected')
    <3>1. run > 0 => Len(Ops) \in Nat
      BY BenchmarksAssumption DEF Ops
    <3> QED  BY <2>5, <3>1 DEF Enough, Collected, Got
  <2>8. Enough(collected') <=> Enough(collected)'
    BY <2>6 DEF Enough, Ops
  <2>9. done' <=> done \/ Enough(collected)'
    BY <2>6, <2>8
  <2>10. /\ NoEmptyFile /\ run > 0 /\ ~done' => ~Enough(collected)'
         /\ run > 0 /\ done' => Enough(collected)'
    BY <2>7, <2>8, <2>9 DEF CountInv
  <2>11. pc' \in {"waiting", "finished"} => sent' = Len(Ops')
    BY <2>6 DEF CountInv, Ops
  <2> QED  BY <2>3, <2>4, <2>5, <2>6, <2>10, <2>11 DEF CountInv, Got
<1>3. CASE ~NewClient /\ ~Collect
  <2> HIDE DEF TypeOK
  <2>1. \/ UNCHANGED clientVars
        \/ Client \/ NewRun \/ ConsumerDies \/ Timeout
    <3>0. ASSUME NEW w \in Workers, RedisError(w) PROVE UNCHANGED clientVars
      BY <3>0 DEF RedisError, Answer
    <3>1. ASSUME NEW w \in Workers,
                 \/ Deliver(w) \/ Callback(w) \/ RedisError(w) \/ ConnectionError(w)
                 \/ Exit(w) \/ Start(w) \/ WorkerEnds(w) \/ Partition(w)
          PROVE  UNCHANGED clientVars
      <4>1. Callback(w) \/ RedisError(w) => UNCHANGED clientVars
        BY <3>0 DEF Callback, Take, Execute, NoScript, Answer, Publish, Ack
      <4>2. Deliver(w) \/ ConnectionError(w) \/ Exit(w) \/ Start(w) => UNCHANGED clientVars
        BY DEF Deliver, ConnectionError, Exit, Start
      <4>3. WorkerEnds(w) \/ Partition(w) => UNCHANGED clientVars
        BY DEF WorkerEnds, Partition, Cancel
      <4> QED  BY <3>1, <4>1, <4>2, <4>3
    <3>2. UNCHANGED vars \/ Requeue \/ RedisRestart \/ LateCall => UNCHANGED clientVars
      BY DEF Requeue, RedisRestart, LateCall, vars
    <3> QED  BY <3>1, <3>2, StepCases
  <2>2. CASE UNCHANGED clientVars
    BY <2>2 DEF clientVars, CountInv, Got, Enough, Ops
  <2>3. CASE Client \/ NewRun \/ ConsumerDies \/ Timeout
    <3>1. /\ UNCHANGED <<run, collected, done>>
          /\ pc' \in {"waiting", "finished"} => sent' = Len(Ops)
      BY <1>3, <2>3
         DEF Client, NewRun, BeginRun, Purge, PublishRequest, AllPublished, WaitReturns, Aggregate,
             AckResult, ConsumerReturns, ConsumerDies, Timeout, clientVars, CountInv
    <3> QED  BY <3>1 DEF CountInv, Got, Enough, Ops
  <2> QED  BY <2>1, <2>2, <2>3
<1> QED
  BY <1>1, <1>2, <1>3

\* That relation holds throughout.
LEMMA Counts == ASSUME DistinctIds PROVE Spec => []CountInv
<1>1. Init => CountInv
  <2> SUFFICES ASSUME Init PROVE CountInv
    OBVIOUS
  <2>1. Got(collected) = {}
    BY DEF Init, Initially, Got, NothingCollected
  <2>2. IsFiniteSet(Got(collected)) /\ run = 0 /\ pc = "idle"
    BY <2>1, FS_EmptySet DEF Init, Initially
  <2> QED  BY <2>2 DEF CountInv
<1>2. TypeOK /\ CountInv /\ [Next]_vars => CountInv'
  BY ClientCounts DEF AnyStep
<1> QED
  BY <1>1, <1>2, TypeCorrect, PTL DEF Spec

\* While the client waits, a request is under way or a result it has yet to
\* take in: whichever workers fail, it never waits for what nobody will send.
THEOREM NobodyWaitsInVain ==
    ASSUME DistinctIds, NoEmptyFile PROVE Spec => []WaitsOnlyForResults
<1>1. TypeOK /\ RunBegun /\ PlacesInv /\ CountInv /\ NoRequestLost => WaitsOnlyForResults
  <2> SUFFICES ASSUME TypeOK, RunBegun, PlacesInv, CountInv, NoRequestLost, pc = "waiting",
                      ~done, Held = {}, results \ handled = {}
               PROVE  FALSE
    BY DEF WaitsOnlyForResults
  <2>1. run \in 1..Len(Benchmarks) /\ sent = Len(Ops) /\ IsFiniteSet(Got(collected))
    BY BenchmarksAssumption DEF TypeOK, RunBegun, CountInv
  <2>2. ~Enough(collected)
    BY <2>1 DEF CountInv
  <2>3. \A j \in 1..Len(Ops) : collected[Ops[j].request_id] # "nil"
    BY <2>1 DEF NoRequestLost, Answered, PlacesInv, Orderly
  <2>4. /\ IsFiniteSet(Ids(run)) /\ Cardinality(Ids(run)) = Len(Ops) /\ Ids(run) \subseteq Requests
    BY <2>1, IdCount DEF Ops
  <2>5. Ids(run) \subseteq Got(collected)
    <3>1. DOMAIN Ops = 1..Len(Ops)
      BY <2>1, BenchmarksAssumption DEF Ops
    <3> QED  BY <2>3, <2>4, <3>1 DEF Ids, Got, Ops
  <2>6. /\ Cardinality(Ids(run)) <= Cardinality(Got(collected))
        /\ Cardinality(Ids(run)) \in Nat /\ Cardinality(Got(collected)) \in Nat
    BY <2>1, <2>4, <2>5, FS_Subset, FS_CardinalityType
  <2> QED  BY <2>2, <2>4, <2>6 DEF Enough, Collected, Got
<1>2. Spec => []CountInv
  BY Counts
<1> QED
  BY <1>1, <1>2, Types, Places, RequestsSurvive, PTL

\* In one file an id is on one line.
LEMMA OneLine ==
    ASSUME DistinctIds, NEW m \in Messages, NEW n \in Messages, m[1] = n[1],
           Op(m).request_id = Op(n).request_id
    PROVE  m = n
<1>1. /\ m[1] \in DOMAIN Benchmarks
      /\ m[2] \in DOMAIN Benchmarks[m[1]] /\ n[2] \in DOMAIN Benchmarks[m[1]]
  BY DEF Messages
<1> QED
  BY <1>1, MessageType DEF DistinctIds, Op

\* Distinct ids, as many of a file's as it has lines, are all of them.
LEMMA CountedIsAll ==
    ASSUME DistinctIds, TypeOK, CountInv, run > 0, done, Got(collected) \subseteq Ids(run)
    PROVE  Got(collected) = Ids(run)
<1>1. run \in 1..Len(Benchmarks)
  BY BenchmarksAssumption DEF TypeOK
<1>2. /\ IsFiniteSet(Ids(run)) /\ Cardinality(Ids(run)) = Len(Ops)
      /\ Cardinality(Got(collected)) >= Len(Ops)
  BY <1>1, IdCount DEF CountInv, Enough, Collected, Got, Ops
<1>3. /\ Cardinality(Got(collected)) <= Cardinality(Ids(run))
      /\ Cardinality(Got(collected)) \in Nat /\ Cardinality(Ids(run)) \in Nat
  BY <1>2, FS_Subset, FS_CardinalityType DEF CountInv
<1>4. Cardinality(Ids(run)) = Cardinality(Got(collected))
  BY <1>2, <1>3
<1> QED
  BY <1>2, <1>4, FS_Subset

\* Results for as many ids of a file as it has lines are results for them all.
LEMMA CountedIsComplete ==
    ASSUME DistinctIds, SameIds, TypeOK, CountInv
    PROVE  DoneOnlyWhenComplete
<1> SUFFICES ASSUME run > 0, done PROVE Complete
  BY DEF DoneOnlyWhenComplete
<1>1. Got(collected) = Ids(run)
  BY CountedIsAll DEF CountInv
<1> QED
  BY <1>1 DEF Complete, Got, Ids, Ops

\* Runs of files with the same ids, one alone for instance, never end before
\* every line has a result, whatever an earlier run has left in the queues.
THEOREM RunsAreComplete ==
    ASSUME DistinctIds, SameIds PROVE Spec => []DoneOnlyWhenComplete
<1>1. TypeOK /\ CountInv => DoneOnlyWhenComplete
  BY CountedIsComplete
<1>2. Spec => []CountInv
  BY Counts
<1> QED
  BY <1>1, <1>2, TypeCorrect, PTL

-----------------------------------------------------------------------------
(* The store.  Of all that happens only a reset and a buy script touch the *)
(* keys, and a script is run for a message that a worker has.              *)

\* A step resets the keys, runs a script for a known request or leaves them.
LEMMA StepsTouch ==
    ASSUME TypeOK, [Next]_vars
    PROVE  Touched
<1>0. CASE LateCall
  <2>1. PICK c \in Calls : db' = db \/ db' = Buy(db, c.by, Op(c.of), 0, 0)
    BY <1>0, LateCallTouches DEF TypeOK
  <2>2. c.by \in Stores /\ Op(c.of) \in Purchases
    BY MessageType DEF Calls, Workers
  <2> QED  BY <2>1, <2>2 DEF Touched
<1>1. ASSUME NEW w \in Workers, Execute(w) \/ RedisError(w) PROVE Touched
  <2>1. db' = db \/ (Stage(w) = "taken" /\ db' = BuyOf(w))
    BY <1>1 DEF Execute, RedisError
  <2>2. Stage(w) = "taken" => work[w].of \in Messages
    BY WorkIs
  <2>3. Stage(w) = "taken" => Op(work[w].of) \in Purchases /\ w \in Stores
    BY <2>2, MessageType DEF Workers
  <2> QED
    BY <2>1, <2>3 DEF Touched, BuyOf
<1>2. db' = db \/ db' = EmptyDb \/ LateCall \/ \E w \in Workers : Execute(w) \/ RedisError(w)
  BY DEF Next, Callback, Client, Failure, Deliver, ConnectionError, Exit, Start, Requeue,
         Take, NoScript, Publish, Ack, BeginRun, Purge, PublishRequest, AllPublished,
         WaitReturns, Collect, AckResult, ConsumerReturns, Crash, Kill, Partition, Stop, Cancel,
         RedisRestart, ConsumerDies, Timeout, Aggregate, vars
<1> QED
  BY <1>0, <1>1, <1>2 DEF Touched

\* So to the store all that happens is attempts and resets.
LEMMA TouchesKeys == Spec => Keys
<1>1. Init => db = EmptyDb
  BY DEF Init, Initially
<1>2. TypeOK /\ [Next]_vars => [Touched]_db
  BY StepsTouch
<1> QED
  BY <1>1, <1>2, TypeCorrect, PTL DEF Spec, Keys

\* If no two purchases of a ticket model share a request id, the workers, with
\* all their crashes, redeliveries and reruns, implement the store.
THEOREM ImplementsTheStore ==
    ASSUME Store!UniqueRequestIds
    PROVE  Spec => ImplementsStore
BY TouchesKeys, KeysImplementStore, PTL

\* And so no more unnumbered tickets are sold than there are, and no two buyers
\* have been granted one seat, whatever fails on the way.
THEOREM NeverOversells ==
    ASSUME Store!UniqueRequestIds
    PROVE  Spec => [](Store!NoOverselling /\ Store!NoDoubleSell)
BY TouchesKeys, KeysNeverOversell, PTL
=============================================================================
