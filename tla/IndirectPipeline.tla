-------------------------- MODULE IndirectPipeline --------------------------
(***************************************************************************)
(* The indirect architecture: the benchmark client of indirect/client.py   *)
(* publishes requests to a RabbitMQ queue, the workers of                  *)
(* indirect/worker.py take them, run the buy script and publish results,   *)
(* and the client's consumer thread collects these.  Workers crash, lose   *)
(* their connection and are stopped; Redis calls fail; the client gives up *)
(* after a timeout and is run again.                                       *)
(*                                                                         *)
(* The broker is modelled from how the code uses it: durable queues,       *)
(* manual acknowledgement and a prefetch window.  Any ready message may be *)
(* delivered next, so nothing here rests on the order of a queue.          *)
(***************************************************************************)
EXTENDS SharedStore, Sequences

CONSTANTS
    Benchmarks,     \* one sequence of purchases for each run of the client
    Prefetch,       \* basic_qos(prefetch_count)
    MaxFaults       \* bound: how often each kind of fault may happen

FaultKinds == {"crash", "partition", "stop", "redis", "redis_restart", "timeout", "consumer",
               "drain"}

ASSUME BenchmarksAssumption == Benchmarks \in Seq(Seq(Purchases))
ASSUME PrefetchAssumption == Prefetch \in Nat \ {0}
ASSUME FaultsAssumption == MaxFaults \in [FaultKinds -> Nat]
ASSUME WorkersAssumption == \A s \in Stores : s.arch = "indirect"

\* A worker is named by the store it owns.
Workers == Stores

\* A message of the request queue: line m[2] of the file of run m[1].
Messages == UNION {{<<i, j>> : j \in DOMAIN Benchmarks[i]} : i \in DOMAIN Benchmarks}
Op(m) == Benchmarks[m[1]][m[2]]

Statuses == Outcomes \cup {"ERROR"}

\* A message of the response queue.  Its correlation id is that of the
\* request it answers; two copies of one result are as good as one.
Results == [of : Messages, status : Statuses, worker_id : Nodes]

NoWork == [stage |-> "none"]
Work == {NoWork} \cup [stage : {"taken"}, of : Messages]
          \cup [stage : {"answered", "published"}, of : Messages, status : Statuses]

VARIABLES
    calls,      \* EVALSHA calls on their way whose worker no longer waits for them
    scripts,    \* does Redis' script cache hold the two buy scripts?
    requests,   \* ticket_requests: the messages ready for delivery
    orphans,    \* messages unacknowledged on a connection that died unnoticed
    results,    \* ticket_results
    proc,       \* each worker process: consuming, stopping, exited or off
    linked,     \* is its connection to the broker open?
    buffer,     \* messages delivered to it whose callback has not begun
    work,       \* the message its callback is processing
    pc,         \* the client: idle, starting, publishing, waiting or finished
    run,        \* the number of the client's run
    sent,       \* how many lines of its file it has published
    collected,  \* self.results: correlation id -> status
    handled,    \* the result _on_result has taken in and not yet acknowledged
    done,       \* self._done
    consumer,   \* is its consumer thread alive?
    report,     \* the results it aggregated, and whether it had timed out
    faults      \* history: how often each kind of fault has happened

workerVars == <<proc, linked, buffer, work>>
clientVars == <<pc, run, sent, collected, handled, done, consumer, report>>
vars == <<db, calls, scripts, requests, orphans, results, workerVars, clientVars, faults>>

\* Each abandoned call has a number, so that two for one request are two.
Calls == [by : Workers, of : Messages, nr : Nat]
Call(w) == [by |-> w, of |-> work[w].of, nr |-> faults["redis"] + faults["crash"]]

NoReport == [statuses |-> [c \in Requests |-> "nil"], late |-> FALSE]
NothingCollected == [c \in Requests |-> "nil"]
Collected(of) == Cardinality({c \in Requests : of[c] # "nil"})
Ops == Benchmarks[run]

Fault(kind) ==
    /\ faults[kind] < MaxFaults[kind]
    /\ faults' = [faults EXCEPT ![kind] = @ + 1]

\* Mutant: the message is acknowledged when its callback begins.
AckedAtOnce(w) == {}

InHand(w) == IF work[w] = NoWork THEN {} ELSE {work[w].of}
Stage(w) == work[w].stage

\* What the broker keeps for w until it is acknowledged.
Unacked(w) == IF linked[w] THEN buffer[w] \cup InHand(w) ELSE {}

\* The queues are empty, and the workers run or have yet to be started.
Initially(up) ==
    /\ db = EmptyDb /\ calls = {}
    /\ scripts = up
    /\ requests = {} /\ orphans = {} /\ results = {}
    /\ proc = [w \in Workers |-> IF up THEN "consuming" ELSE "off"]
    /\ linked = [w \in Workers |-> up]
    /\ buffer = [w \in Workers |-> {}]
    /\ work = [w \in Workers |-> NoWork]
    /\ pc = "idle" /\ run = 0 /\ sent = 0
    /\ collected = NothingCollected /\ handled = {} /\ done = FALSE /\ consumer = FALSE
    /\ report = NoReport
    /\ faults = [k \in FaultKinds |-> 0]

Init == Initially(TRUE)

-----------------------------------------------------------------------------
(* The broker.                                                             *)

Deliver(w) ==
    /\ proc[w] = "consuming" /\ linked[w]
    /\ Cardinality(Unacked(w)) < Prefetch
    /\ \E m \in requests :
          /\ buffer' = [buffer EXCEPT ![w] = @ \cup {m}]
          /\ requests' = requests \ {m}
    /\ UNCHANGED <<db, calls, scripts, orphans, results, proc, linked, work, clientVars, faults>>

\* It notices that a connection has died.
Requeue ==
    /\ \E m \in orphans : orphans' = orphans \ {m} /\ requests' = requests \cup {m}
    /\ UNCHANGED <<db, calls, scripts, results, workerVars, clientVars, faults>>

-----------------------------------------------------------------------------
(* A worker: the callback's steps, and how the process ends and begins.    *)

Take(w) ==
    /\ proc[w] = "consuming" /\ work[w] = NoWork
    /\ \E m \in buffer[w] :
          /\ buffer' = [buffer EXCEPT ![w] = @ \ {m}]
          /\ work' = [work EXCEPT ![w] = [stage |-> "taken", of |-> m]]
    /\ UNCHANGED <<db, calls, scripts, requests, orphans, results, proc, linked, clientVars,
                   faults>>

Answer(w, status) ==
    /\ work' = [work EXCEPT ![w] =
                    [stage |-> "answered", of |-> work[w].of, status |-> status]]
    /\ UNCHANGED <<scripts, requests, orphans, results, proc, linked, buffer, clientVars>>

\* Mutant: the metrics are not part of the script.
SellOf(w) == Sell(db, Op(work[w].of))

BuyOf(w) == Buy(db, w, Op(work[w].of), 0, 0)

\* Mutant: the outcome is read before the script has run.
ExecuteReadingFirst(w) ==
    /\ Stage(w) = "taken" /\ scripts
    /\ db' = BuyOf(w)
    /\ Answer(w, Outcome(db, Op(work[w].of)))
    /\ UNCHANGED <<calls, faults>>

\* Mutant: the call is sent again when its reply is slow.
ExecuteSentAgain(w) ==
    /\ Stage(w) = "taken" /\ scripts
    /\ db' = BuyOf(w)
    /\ Answer(w, Outcome(BuyOf(w), Op(work[w].of)))
    /\ calls' = calls \cup {Call(w)}
    /\ UNCHANGED faults

Execute(w) ==
    /\ Stage(w) = "taken" /\ scripts
    /\ db' = BuyOf(w)
    /\ Answer(w, Outcome(BuyOf(w), Op(work[w].of)))
    /\ UNCHANGED <<calls, faults>>

\* evalsha names a script the restarted Redis does not hold: NOSCRIPT.
NoScript(w) ==
    /\ Stage(w) = "taken" /\ ~scripts
    /\ Answer(w, "ERROR")
    /\ UNCHANGED <<db, calls, faults>>

\* The connection to Redis breaks, and what became of the call nobody knows:
\* it is lost, on its way, or the script has run.  Either the call raises, and
\* every exception becomes a result whose message is acknowledged like any
\* other, or redis-py sends it again.
RedisError(w) ==
    /\ Stage(w) = "taken" /\ Fault("redis")
    /\ \/ db' = db /\ calls' \in {calls, calls \cup {Call(w)}}
       \/ scripts /\ db' = BuyOf(w) /\ UNCHANGED calls
    /\ \/ Answer(w, "ERROR")
       \/ UNCHANGED <<scripts, requests, orphans, results, workerVars, clientVars>>

\* Mutant: a failed request gets no result.
PublishUnlessError(w) ==
    /\ Stage(w) = "answered" /\ linked[w]
    /\ results' = IF work[w].status = "ERROR" THEN results ELSE results \cup
          {[of |-> work[w].of, status |-> work[w].status, worker_id |-> w.node_id]}
    /\ work' = [work EXCEPT ![w].stage = "published"]
    /\ UNCHANGED <<db, calls, scripts, requests, orphans, proc, linked, buffer, clientVars, faults>>

Publish(w) ==
    /\ Stage(w) = "answered" /\ linked[w]
    /\ results' = results \cup
          {[of |-> work[w].of, status |-> work[w].status, worker_id |-> w.node_id]}
    /\ work' = [work EXCEPT ![w].stage = "published"]
    /\ UNCHANGED <<db, calls, scripts, requests, orphans, proc, linked, buffer, clientVars, faults>>

Ack(w) ==
    /\ Stage(w) = "published" /\ linked[w]
    /\ work' = [work EXCEPT ![w] = NoWork]
    /\ UNCHANGED <<db, calls, scripts, requests, orphans, results, proc, linked, buffer,
                   clientVars, faults>>

\* The process ends, with whatever it had not acknowledged.
Ends(w, how) ==
    /\ proc' = [proc EXCEPT ![w] = how]
    /\ buffer' = [buffer EXCEPT ![w] = {}]
    /\ work' = [work EXCEPT ![w] = NoWork]
    /\ linked' = [linked EXCEPT ![w] = FALSE]

\* It is killed; the broker has yet to notice, and the call it has sent may
\* still reach Redis.
Kill(w) ==
    /\ proc[w] \in {"consuming", "stopping"}
    /\ \/ UNCHANGED calls
       \/ Stage(w) = "taken" /\ calls' = calls \cup {Call(w)}
    /\ orphans' = orphans \cup Unacked(w)
    /\ Ends(w, IF proc[w] = "stopping" THEN "off" ELSE "exited")
    /\ UNCHANGED <<db, scripts, requests, results>>

Crash(w) == Kill(w) /\ Fault("crash") /\ UNCHANGED clientVars

\* The broker gives up the connection of a worker that is still running.
Partition(w) ==
    /\ proc[w] \in {"consuming", "stopping"} /\ linked[w] /\ Fault("partition")
    /\ requests' = requests \cup Unacked(w)
    /\ linked' = [linked EXCEPT ![w] = FALSE]
    /\ UNCHANGED <<db, calls, scripts, orphans, results, proc, buffer, work, clientVars>>

\* The next use of that connection raises; run() swallows it and returns.
ConnectionError(w) ==
    /\ proc[w] \in {"consuming", "stopping"} /\ ~linked[w] /\ Stage(w) # "taken"
    /\ Ends(w, IF proc[w] = "stopping" THEN "off" ELSE "exited")
    /\ UNCHANGED <<db, calls, scripts, requests, orphans, results, clientVars, faults>>

\* Mutant: the message in hand is given back as well.
CancelGivingAllBack(w) ==
    /\ proc[w] = "consuming"
    /\ proc' = [proc EXCEPT ![w] = "stopping"]
    /\ buffer' = [buffer EXCEPT ![w] = {}]
    /\ requests' = requests \cup Unacked(w)
    /\ UNCHANGED <<db, calls, scripts, orphans, results, linked, work, clientVars>>

\* SIGTERM: stop_consuming cancels the consumer, which gives back the
\* messages whose callback has not begun; the one in hand is finished.
Cancel(w) ==
    /\ proc[w] = "consuming"
    /\ proc' = [proc EXCEPT ![w] = "stopping"]
    /\ buffer' = [buffer EXCEPT ![w] = {}]
    /\ requests' = IF linked[w] THEN requests \cup buffer[w] ELSE requests
    /\ UNCHANGED <<db, calls, scripts, orphans, results, linked, work, clientVars>>

Stop(w) == Cancel(w) /\ Fault("stop")

Exit(w) ==
    /\ proc[w] = "stopping" /\ work[w] = NoWork
    /\ Ends(w, "off")
    /\ UNCHANGED <<db, calls, scripts, requests, orphans, results, clientVars, faults>>

\* A new process: TicketStore() loads the scripts, connect() the rest.
Start(w) ==
    /\ proc[w] \in {"exited", "off"}
    /\ proc' = [proc EXCEPT ![w] = "consuming"]
    /\ linked' = [linked EXCEPT ![w] = TRUE]
    /\ scripts' = TRUE
    /\ UNCHANGED <<db, calls, requests, orphans, results, buffer, work, clientVars, faults>>

\* Redis restarts with its data but without its script cache.
RedisRestart ==
    /\ Fault("redis_restart")
    /\ scripts' = FALSE
    /\ UNCHANGED <<db, calls, requests, orphans, results, workerVars, clientVars>>

\* A call that was under way when its worker died, gave up or sent it again.
LateCall ==
    /\ \E c \in calls :
          /\ calls' = calls \ {c}
          /\ db' = IF scripts THEN Buy(db, c.by, Op(c.of), 0, 0) ELSE db
    /\ UNCHANGED <<scripts, requests, orphans, results, workerVars, clientVars, faults>>

-----------------------------------------------------------------------------
(* The client.                                                             *)

\* A new process of the client, with a file to send.
NewClient ==
    /\ pc \in {"idle", "finished"} /\ run < Len(Benchmarks)
    /\ pc' = "starting" /\ run' = run + 1 /\ sent' = 0
    /\ collected' = NothingCollected /\ handled' = {} /\ done' = FALSE /\ consumer' = FALSE
    /\ report' = NoReport

\* main: the best-effort reset, which a failing Redis skips.
BeginRun ==
    /\ NewClient
    /\ \/ db' = EmptyDb /\ UNCHANGED faults
       \/ UNCHANGED db /\ Fault("redis")
    /\ UNCHANGED <<calls, scripts, requests, orphans, results, workerVars>>

\* Mutant: the response queue is not purged.
PurgeNothing ==
    /\ pc = "starting"
    /\ pc' = "publishing" /\ consumer' = TRUE
    /\ UNCHANGED <<db, calls, scripts, requests, orphans, results, workerVars, run, sent,
                   collected, handled, done, report, faults>>

\* Old results are purged, old requests are not.
Purge ==
    /\ pc = "starting"
    /\ results' = {}
    /\ pc' = "publishing" /\ consumer' = TRUE
    /\ UNCHANGED <<db, calls, scripts, requests, orphans, workerVars, run, sent, collected,
                   handled, done, report, faults>>

PublishRequest ==
    /\ pc = "publishing" /\ sent < Len(Ops)
    /\ requests' = requests \cup {<<run, sent + 1>>}
    /\ sent' = sent + 1
    /\ UNCHANGED <<db, calls, scripts, orphans, results, workerVars, pc, run, collected,
                   handled, done, consumer, report, faults>>

AllPublished ==
    /\ pc = "publishing" /\ sent = Len(Ops)
    /\ pc' = "waiting"
    /\ UNCHANGED <<db, calls, scripts, requests, orphans, results, workerVars, run, sent,
                   collected, handled, done, consumer, report, faults>>

\* Mutants: one result too few is enough, or one too many is needed.
EnoughButOne(of) == Collected(of) + 1 >= Len(Ops)
MoreThanEnough(of) == Collected(of) > Len(Ops)

\* _on_result, in the consumer thread.  It stores the result and sets the
\* event under a lock that run() does not take; between the two run() could
\* only time out, with the same results.
Enough(of) == Collected(of) >= Len(Ops)

Collect ==
    /\ consumer /\ handled = {}
    /\ \E r \in results :
          /\ collected' = [collected EXCEPT ![Op(r.of).request_id] = r.status]
          /\ handled' = {r}
    /\ done' = (done \/ Enough(collected'))
    /\ UNCHANGED <<db, calls, scripts, requests, orphans, results, workerVars, pc, run, sent,
                   consumer, report, faults>>

\* basic_ack, the last thing it does.
AckResult ==
    /\ consumer /\ handled # {}
    /\ results' = results \ handled
    /\ handled' = {}
    /\ UNCHANGED <<db, calls, scripts, requests, orphans, workerVars, pc, run, sent, collected,
                   done, consumer, report, faults>>

\* The thread's connection fails and the exception ends it: the broker has
\* the unacknowledged result back.
ConsumerDies ==
    /\ consumer /\ Fault("consumer")
    /\ consumer' = FALSE /\ handled' = {}
    /\ UNCHANGED <<db, calls, scripts, requests, orphans, results, workerVars, pc, run, sent,
                   collected, done, report>>

\* Its loop ends when it sees the event it has set.
ConsumerReturns ==
    /\ consumer /\ done /\ handled = {}
    /\ consumer' = FALSE
    /\ UNCHANGED <<db, calls, scripts, requests, orphans, results, workerVars, pc, run, sent,
                   collected, handled, done, report, faults>>

\* run() takes a snapshot of the results and reports it.
Aggregate(late) ==
    /\ pc = "waiting"
    /\ pc' = "finished"
    /\ report' = [statuses |-> collected, late |-> late]
    /\ UNCHANGED <<db, calls, scripts, requests, orphans, results, workerVars, run, sent,
                   collected, handled, done, consumer>>

WaitReturns == done /\ Aggregate(FALSE) /\ UNCHANGED faults

Timeout == ~done /\ Fault("timeout") /\ Aggregate(TRUE)

-----------------------------------------------------------------------------
Callback(w) == Take(w) \/ Execute(w) \/ NoScript(w) \/ Publish(w) \/ Ack(w)

Client ==
    \/ BeginRun \/ Purge \/ PublishRequest \/ AllPublished \/ WaitReturns
    \/ Collect \/ AckResult \/ ConsumerReturns

Failure ==
    \/ \E w \in Workers : RedisError(w) \/ Crash(w) \/ Partition(w) \/ Stop(w)
    \/ RedisRestart \/ LateCall \/ ConsumerDies \/ Timeout

Next ==
    \/ \E w \in Workers : Deliver(w) \/ Callback(w) \/ ConnectionError(w) \/ Exit(w) \/ Start(w)
    \/ Requeue
    \/ Client
    \/ Failure

Spec == Init /\ [][Next]_vars

\* The broker delivers and notices dead connections, a process runs unless it
\* dies, systemd restarts one that exited (Restart=always) but not one that
\* was stopped, and the client's two threads run.
Fairness ==
    /\ WF_vars(Requeue)
    /\ \A w \in Workers :
          /\ WF_vars(Deliver(w))
          /\ WF_vars(Callback(w) \/ ConnectionError(w) \/ Exit(w))
          /\ WF_vars(proc[w] = "exited" /\ Start(w))
    /\ WF_vars(Purge \/ PublishRequest \/ AllPublished \/ WaitReturns)
    /\ WF_vars(~done /\ (Collect \/ AckResult))

FairSpec == Spec /\ Fairness

-----------------------------------------------------------------------------
TypeOK ==
    /\ db \in Db /\ scripts \in BOOLEAN
    /\ calls \subseteq Calls
    /\ requests \subseteq Messages /\ orphans \subseteq Messages
    /\ results \subseteq Results /\ handled \subseteq results
    /\ proc \in [Workers -> {"consuming", "stopping", "exited", "off"}]
    /\ linked \in [Workers -> BOOLEAN]
    /\ buffer \in [Workers -> SUBSET Messages]
    /\ work \in [Workers -> Work]
    /\ pc \in {"idle", "starting", "publishing", "waiting", "finished"}
    /\ run \in 0..Len(Benchmarks) /\ sent \in Nat
    /\ collected \in [Requests -> Statuses \cup {"nil"}]
    /\ done \in BOOLEAN /\ consumer \in BOOLEAN
    /\ report \in [statuses : [Requests -> Statuses \cup {"nil"}], late : BOOLEAN]
    /\ faults \in [FaultKinds -> Nat]

\* No request is lost: whatever crashes, a published request is ready, or
\* held for a worker, or its result is on its way to the client or there
\* (fault_tolerance_test.py:13, ticket-worker@.service:19-20).
Held == requests \cup orphans \cup UNION {Unacked(w) : w \in Workers}
Answered(c) == collected[c] # "nil" \/ \E r \in results : Op(r.of).request_id = c

NoRequestLost ==
    \A j \in 1..sent : <<run, j>> \in Held \/ Answered(Ops[j].request_id)

\* Workers that never heard of each other agree on what a request got: a
\* result of this run says what the ledger says, whoever published it and
\* however often its message was delivered (README.md:178-182).
ResultsMatchLedger ==
    \A r \in results : r.of[1] = run /\ r.status # "ERROR" =>
        r.status = Outcome(db, Op(r.of))

\* Only a failure makes a script run twice for a message, and one failure
\* makes at most one: what a worker had not begun is not counted, a graceful
\* stop replays nothing (worker.py:120-125), and a worker that dies while its
\* call is under way has its message run again, or the call, not both twice.
ReplaysNeedFailures ==
    db.metrics["indirect"].replays <= faults["crash"] + faults["partition"] + faults["redis"]

\* What the client was told stands: a second result for the same request,
\* from whichever worker, does not change it
\* (tests/test_backend_fakeredis.py:93-95).
AnswersStand ==
    [][run' = run => \A c \in Requests : collected[c] \in {"nil", collected'[c]}]_vars

\* The client stops waiting only when it has a result for every line of its
\* file (client.py:5-7, 120).
Complete == \A j \in DOMAIN Ops : collected[Ops[j].request_id] # "nil"

DoneOnlyWhenComplete == run > 0 /\ done => Complete

\* And it never waits for results that nobody will send: while it waits, a
\* request or a result is still under way (client.py:5-7, 120, 173).
WaitsOnlyForResults ==
    pc = "waiting" /\ ~done => Held # {} \/ results \ handled # {}

\* A run that did not time out reports as Success the number of tickets sold
\* (guia_lan_testing.md:282-284), as long as no call to Redis fails.
Successes == Cardinality({c \in Requests : report.statuses[c] = "OK"})

SuccessMatchesSold ==
    pc = "finished" /\ ~report.late => Successes = db.sold + Cardinality(db.seats)

\* A run that has begun to publish finishes, whichever workers die on the
\* way (README.md:178-183), as long as the client's own thread does not.
RunsFinish == pc = "publishing" ~> pc = "finished" \/ faults["consumer"] > 0
=============================================================================
