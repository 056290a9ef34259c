# Concert tickets: specifications and proofs

TLA+ models of the ticket system: a Redis backend of two Lua scripts, sold
through by REST servers behind NGINX (the *direct* architecture) and by workers
of a RabbitMQ queue (the *indirect* one), with benchmark clients that measure
both. The correctness of a sale rests on the backend alone; everything around
it may crash, time out, deliver twice and be run again. That is what the
specifications are about.

`PROJECT.json` lists the components, the runs, the theorems, the hazards each
property is aimed at, and for every definition the source lines it stands for.

## The system

| Component | State | Operations | Talks to |
|---|---|---|---|
| Redis ticket backend (`shared/redis_backend.py`) | counter, seat set, two dedup hashes, metrics and node loads per architecture | `buy_unnumbered`, `buy_numbered` (one atomic script each), `reset_all`, `reset_metrics`, `stats`, `read_metrics` | called by every server and worker |
| Indirect worker (`indirect/worker.py`) | its connection, the messages in its prefetch window, the one in its callback | `_on_request`: decode, buy, publish, acknowledge; SIGTERM; start | RabbitMQ, the backend |
| RabbitMQ (external) | request queue, response queue, unacknowledged messages | deliver, requeue | workers, client |
| Indirect client (`indirect/client.py`) | `results`, `_done`, a consumer thread | reset, purge, publish, collect, wait with a timeout, aggregate | RabbitMQ, the backend |
| Worker supervision (`scripts/ticket-worker@.service`) | – | restarts a worker that exited | workers |
| Fault-tolerance script (`scripts/fault_tolerance_test.py`) | the worker processes | start, kill, replace, audit | client, workers, the backend |
| REST server (`direct/server.py`) | a lazily created store | one endpoint per store call | the backend |
| NGINX (`direct/nginx.conf`) | failure counts per server | forward, retry on the next server | servers |
| Direct client (`direct/client.py`) | a semaphore, its pending requests | send, aggregate | NGINX |
| Scaling sweep, result drain (`scripts/scaling_sweep.py`, `indirect/results.py`) | – | start and stop workers step by step; empty the response queue | all of the above |
| Generator, plots, deployment | files | – | – |

### What is hard

- **Redelivery.** A worker that dies after its script has run and before its
  acknowledgement leaves a message that will be run again, elsewhere. The dedup
  hash must turn this into a replay of the same answer.
- **Many nodes, one stock.** The last ticket and a contended seat are met by
  several nodes at once.
- **Failures between the steps of a callback.** Crash, lost connection, SIGTERM
  and a failing Redis call each fall between buying, publishing and
  acknowledging.
- **Runs that overlap.** A client that times out leaves requests behind; the next
  run purges results only, resets the store, and shares queues with them.
- **Reads without a transaction.** The audits read four keys, one by one, of a
  store in use.
- **Clocks.** The metrics subtract readings of Redis' wall clock.
- **Timeouts and threads.** The client waits on an event which its consumer
  thread sets when it has counted enough results.
- **Retries that are none.** NGINX turns to another server only while nothing has
  been sent; what a crash finds on a server comes back as an error, sold or not.
- **Retries nobody asked for.** A redis-py that retries by default sends a script again
  when its reply is lost; a call that has been sent outlives the process that sent it.
- **Scripts that share queues.** A step of the sweep inherits what the last one left,
  and kills workers that do not end.

What makes each component correct: no ticket is sold twice or beyond the
capacity, none is refused while one is left, and a replay repeats its answer (backend); no
request is lost and only failures cause replays (worker and queue); the client
stops when and only when it has what was sent to it, and reports what was sold
(client); the metrics account for the ledger (backend and audits); whatever fails, an
answer is what was sold, a script runs again for a request only with a cause one can name, and
only requests a crash meets are harmed by it (direct tier); steps do not mix and the scripts
end (scripts).

## The modules

```
TicketSale                 what a sale is: each purchase is decided once
    ^ implements
TicketStore  <--extends--  StoreAudit
    ^ implements
SharedStore  <--extends--  DirectPipeline
    ^ extends
IndirectPipeline  <--extends--  BenchmarkScripts
```

TicketStore and SharedStore extend **RedisBackend**; each `...Proofs` module extends
the module it is about (`IndirectReplaysProofs` is about IndirectPipeline), the proofs of
what that module extends, and `MC_...` instantiates it for TLC.

**RedisBackend** has no variables. `EmptyDb` is the value of the keys after
`reset_all`; `SellUnnumbered` and `SellNumbered` are the two scripts up to the
shared metrics tail, `RecordMetrics` and `Latency` the tail, `Buy` a whole
script. Redis runs a script atomically, so a script is a function of the database.
A dedup hash is a function from request ids to `"OK"`, `"REJECTED"` or `"nil"`:
the scripts' 1 and 0 and the statuses made of them are the same two values.
Microseconds are natural numbers; `lat_sum_us`, a Redis float, is exact.
The operators marked as mutants are plausible slips in these definitions; no
specification uses them.

**TicketStore** is any number of `TicketStore` objects sharing `db`. `Attempt(s, p)`
is a buy call by store `s`, which any purchase may make again at any time: seen
from the backend, redelivery, an NGINX retry and a client's second run are
that. `answers` is what the calls have returned. `ResetAll` and `ResetMetrics`
are the two resets; `forgotten` remembers which ledger entries the last
`reset_metrics` dropped from the metrics. `Tick` and `ReadClock` are the wall
clock, whose next reading may be lower than the last; `slipped` remembers that
it was, until the metrics are cleared.

**TicketSale** is the promise: `Decide(p)` grants a purchase exactly if a ticket
(its seat) is left, and records the outcome for good. `ImplementsSale` maps a
purchase's outcome to its entry in the dedup hash; the counter, the seat set
and the metrics have no counterpart there.

**StoreAudit** adds one reader that reads the four keys in the order of `stats`
and `read_metrics`, and what the fault-tolerance script concludes.
`BuyMeanwhile` and `ResetMeanwhile` are what the others do between two reads.
The two checks on tickets are `ChecksPass`; the third, that a survivor carried
load, depends on timing and is left out.

**SharedStore** has the one variable that the two architectures share, `db`, and says
how it looks to TicketStore: `Store` instantiates that with the answers on
record, a clock that stands still and no limit to the deliveries, and
`ImplementsStore` is its specification.

**IndirectPipeline** is the indirect architecture. A message is a line of a
benchmark file, `<<run, line>>`. Its actions follow the code:

| Action | Code |
|---|---|
| `Take`, `Execute`, `Publish`, `Ack` | the steps of `_on_request`, `worker.py:73-109` |
| `NoScript` | its `except` branch: `evalsha` fails because Redis has lost its scripts |
| `RedisError` | the connection to Redis breaks: the call is lost, on its way, or has been carried out, and either raises or is sent again by redis-py |
| `LateCall` | a call that was on its way arrives |
| `Crash`, `Partition`, `ConnectionError` | the process is killed, with or without a call on its way; the broker drops its connection; the next use of it raises, and `run()` returns |
| `Stop`, `Exit`, `Start` | SIGTERM and the end of `run()`; a new process, which loads the scripts again |
| `Deliver`, `Requeue` | RabbitMQ, within the prefetch window |
| `BeginRun`, `Purge` | `main` with its best-effort reset; the purge of the response queue and the start of the thread |
| `PublishRequest`, `AllPublished` | the publishing loop |
| `Collect`, `AckResult` | `_on_result` up to `_done.set()`, and its `basic_ack` |
| `ConsumerReturns`, `ConsumerDies` | the thread's loop, `client.py:127-134` |
| `WaitReturns`, `Timeout` | `_done.wait` and the aggregation |

A request is unacknowledged while it is in `buffer` or `work` of a worker whose
connection is open, or in `orphans` when that worker was killed and the broker
has yet to notice. A worker whose connection was dropped still has them in
hand while the queue has them too: that is how one message is run by two
workers at once. `Kill`, `Cancel` and `NewClient` are what the scripts of
`BenchmarkScripts` do as well.

`calls` are the EVALSHA calls that are on their way to Redis and that nobody waits for any
more: a worker was killed, or its connection broke, after it had sent one. `Execute` is a
call whose worker lives to see the reply, and so needs no place there: until it arrives,
nothing tells it from one that has yet to be sent. `handled` is the result that
`_on_result` has stored and not yet acknowledged; it is in `results` as well, since the
broker has it back when the client's thread or process ends.

**DirectPipeline** is the direct architecture: the client, NGINX and the servers,
over the same scripts. `req[m]` is where a request is, as NGINX and the
client see it; `threads[s][m]` is what server `s` is doing for it, which goes on
when NGINX has given up.

| Action | Code |
|---|---|
| `BeginRun`, `ResetDone`, `ResetGivenUp`, `LateReset` | `main`, and the best-effort `POST /reset`, which may be refused or carried out after its ten seconds, `direct/client.py:114-119` |
| `Send`, `Finish` | the semaphore and `gather`, `direct/client.py:81-84, 129-157` |
| `Forward`, `ConnectFails`, `NoUpstream` | the upstream group with `max_fails`, `proxy_next_upstream` and its limit of tries, `nginx.conf:10-24, 51-52` |
| `ConnectTimesOut`, `ReadTimeout` | `proxy_connect_timeout`, `proxy_read_timeout`, `nginx.conf:31-32` |
| `ConnectionLost` | the server is gone with the request: a POST that has been sent is not sent again |
| `FailTimeout` | `fail_timeout` has passed |
| `FindStore`, `CreateStore`, `CreateStoreFails` | `_get_store`, its test and its assignment apart, `server.py:38-42` |
| `Execute`, `NoScript`, `RedisError`, `Reply` | the buy endpoints, each request in a thread of its own, `server.py:60-67`; a call whose connection breaks raises or is sent again, as above |
| `Crash`, `Restart`, `RedisRestart` | processes end, with or without their calls on their way, and begin |
| `LateCall` | such a call arrives |

**BenchmarkScripts** extends the pipeline by the scripts that run it. A step
(`Steps[i]`: the workers, the victim, its replacement) is one round of
`scaling_sweep.py`, or, with a victim, `fault_tolerance_test.py`.

| Action | Code |
|---|---|
| `ResetAndSpawn`, `ComeUp`, `RunClient` | `reset_all`, the workers' processes, which connect when they do, the client with `--no-reset` |
| `KillVictim` | SIGKILL, whatever the worker is doing, and the replacement |
| `ClientReturns` | the client's process ends, its consumer thread with it, wherever in `_on_result` that is |
| `Terminate`, `KillStraggler`, `NextStep` | `_stop`: SIGTERM to all; a worker that has not ended after ten seconds is killed |
| `Drain` | `drain_results`, one result at a time, acknowledged on receipt |

`inherited` remembers the calls that were on their way when a step began. What the pipeline
says of lost connections, failing Redis calls and supervision is left out there: nobody
restarts a worker of these scripts.

### Abstractions

- The queues are sets: any ready message may come next, which includes every
  order RabbitMQ can produce after requeues. Two identical results count as one;
  the client overwrites the first with the second in any case, and a copy more would
  only tell a later client again what the first one tells it.
- Redis keeps its data over a restart and loses its script cache. RabbitMQ does
  not restart and loses no message it has accepted; the client's publishing does
  not fail half-way.
- A SIGTERM finds the worker consuming and its cancellation succeeds. When it
  does not, the process ends like a crashed one.
- `Collect` stores the result and sets the event in one step: both are under a lock, which
  the main thread does not take, but between the two that thread could only time out,
  and would report the same results. The acknowledgement is a step of its own, and the process may
  end before it. The thread has one result in its callback at a time; what the broker
  has delivered to it beyond that is like what it has not.
- `redis.Redis()` is given no retry policy (`redis_backend.py:30`) and `requirements.txt` admits
  every redis-py from 5.0 on, so both behaviours are modelled: a call whose connection breaks
  raises, or is sent again. In either case the first one was lost, is still on its way, or
  has run its script. Each failed attempt counts as one fault "redis".
- A call on its way is told from a call not yet sent once its sender is gone, has failed or has
  sent it again. That is so for the buy scripts, which count and credit what they do. `POST /reset`
  may come late too (`LateReset`), because `direct/client.py` waits only ten seconds for it; that
  the DEL of another reset is carried out after its connection broke is left out.
- Time plays no part in the pipeline: a timeout may strike whenever the client
  waits. The clock is `TicketStore`'s subject, so the pipeline runs on a clock
  that stands still.
- NGINX is modelled from its configuration and what its documentation says of
  the directives. Any server it may use can be the next, which includes round-robin.
  A connection that breaks while a request is written counts as a request sent: over a
  kept-alive connection this is what NGINX sees of a server that has just died. A page
  of NGINX's own and a server's 500 are the same to the client: not JSON, so ERROR.
- At most one reset is late, and a late reset changes nothing but the keys.
- A server serves each request in a thread; the pool of forty threads is larger than
  the instances, and requests that wait for a thread are not told apart from others.
- The tasks of the direct client get the semaphore in their order, which is what
  `asyncio.Semaphore` does.
- In the scripts, a straggler that is killed is gone before the next step's reset:
  `_stop` does not wait for it, but SIGKILL takes effect at once. What it has sent to Redis is not
  gone with it.
- Parsing, JSON, printing, latencies at the client and result files are left
  out. `client_id` is passed through by the code and only tells purchases apart.

## The runs

All bounds are constants: `Deliveries` (how many buys may have been counted for an architecture when it makes
another: all natural numbers outside TLC) and `MaxClock` for `TicketStore`, `MaxFaults` (each kind of
fault for `IndirectPipeline` and `BenchmarkScripts`, all kinds together for
`DirectPipeline`), whose other actions end by themselves or come back to states seen
before.

| Run | Instance | Shows |
|---|---|---|
| `sales` | 2 tickets, 2 seats, 3 purchases of either model with shared request ids, a server and a worker, 4 buys per architecture | `NoOverselling`, `OneSeatPerSale`, `AnswersAgree`, `NoSpuriousRejection`, `NoDoubleSell`, `MetricsMatchLedger`, `ImplementsSale` |
| `clock` | clock readings 0 to 2 in any order, 3 buys per architecture | `LatencyBounds`, `WindowCoversService` |
| `live` | 3 unnumbered requests, 2 workers, audits at any time | `TornReadsLeanOneWay`, `QuietReadsAreExact` |
| `failures` | 2 workers, window of 2, 2 requests for one seat; a crash, a lost connection and a stop, one of each; the workers are symmetric | `NoRequestLost`, `ResultsMatchLedger`, `ReplaysNeedFailures`, `DoneOnlyWhenComplete`, `WaitsOnlyForResults`, `SuccessMatchesSold`, `AnswersStand` |
| `finish` | 1 worker, window of 2, 2 unnumbered requests for one ticket; a crash, a Redis failure, a Redis restart, a timeout and the death of the consumer thread, one of each; fairness | `ReplaysNeedFailures`, `RunsFinish` |
| `direct` | 2 servers, an empty file, one with a request for a seat and one that repeats it and has a second for the same seat, semaphore of 1, two tries, any 2 faults; fairness | `AnswersMatchLedger`, `ReplaysHaveCauses`, `OnlyStruckRequestsFail`, `LoadViewsAgree`, `ImplementsStore`, `RunsFinish` |
| `sweep` | 2 workers, window of 1; a step with one request whose only worker is killed and replaced, a step with one worker that repeats the request and has a second for the same seat; timeouts, workers that hang, stragglers, a drain; fairness | `StepsDoNotMix`, `StepsLeaveNothing`, `DoneOnlyWhenComplete`, `NothingVanishes`, `StepAnswersMatchLedger`, `LoadMovesOn`, `ScriptsEnd`, `ImplementsStore` |

Two tickets and three purchases are the least at which one ticket is sold while
another is left, the last is sold, and a purchase is refused; four buys let a
purchase be replayed after all three were decided. Two workers are enough for a message to be in
two hands, a window of two for one message to be in a callback while another
waits in the buffer. `MaxFails` is 1 in `direct`, so that a server is out of rotation
after its first failure and back after `FailTimeout`; with two servers and two tries
a request can be turned away by both. Its second run follows one that ended in an
exception, and its third repeats a request of the second, which may have been reported as ERROR and
still be with a server. With a semaphore of 1 two requests are with the servers at once when
NGINX has given up on the first; `in_flight` has a semaphore of 2, and the theorems hold of any.
`finish` has one worker, so that when it dies all have died, and only its restart can end
the run. The second step of `sweep` repeats the request of the first, as the sweep repeats a file,
and meets requests, results, a replacement and calls to Redis that the first has
left. The two ticket models use the same request ids in
`sales` because their dedup hashes are separate. Deadlock is not checked in the
pipelines' runs: once the last client run is over and the queues are empty, workers
and servers rightly wait for ever, and the scripts are over.

### Where the code does not do what is said of it

Each of these runs checks one property that a comment, a document or a test of
the repository states, and finds it violated.

| Run | Property | What happens |
|---|---|---|
| `colliding_ids` | `NoDoubleSell` | `_uid()` keeps eight hexadecimal digits (`generate.py:22`). The second of two lines with one id is taken for a replay and told OK for a seat it did not get. |
| `unnumbered` | `QuietChecksPass` | `"numbered" in basename` holds of `benchmark_unnumbered.txt`; the script then compares the OK count with the seats sold (`fault_tolerance_test.py:74,128`). |
| `redis_fails` | `SuccessMatchesSold` | A lost reply becomes an ERROR result and the message is acknowledged (`worker.py:90-109`): a seat is sold that no Success accounts for. |
| `stale_results` | `DoneOnlyWhenComplete` | Requests left by a timed-out run are answered in the next one and count towards its expected number (`client.py:120,144`). |
| `in_flight` | `CrashesAreTransparent` | A request in hand on a server that crashes is not passed to the other: `proxy_next_upstream` without `non_idempotent` does not resend a POST (`nginx.conf:51`). The client reports ERROR, sold or not. |

Seven relatives of these have no run of their own, and no property of a passing run would
catch them. The numbered script has no limit
(`redis_backend.py:129`; lines 8-9 say that every script enforces one) and the servers
accept any seat id, so more seats than `TOTAL_TICKETS` are sold if more are asked for;
the generated files ask for 1..20000. Connecting to a host that is down takes the ten
seconds after which NGINX stops trying others (`nginx.conf:31,53`). A result of a sale made before
the reset may be published after the purge and be reported beside the sales of
the new run, so that the client counts more Successes than there are tickets
(`walkthrough.md:60` says it cannot). A file with a repeated id has fewer
distinct ids than lines, so its client waits for the whole timeout with every
response in hand (`client.py:120`). A clock set back between two buys makes
the processing window negative (`redis_backend.py:84,259`; a test asserts that
it is not), which is why `WindowCoversService` is stated for a clock that was
not set back. With three servers, two of them down and not yet out of rotation, the two tries
of a request are used up though the third server is up (`nginx.conf:52`): `OnlyStruckRequestsFail`
asks for fewer crashed servers than tries. And the direct client divides by zero at the end of an
empty file (`direct/client.py:151`): `RunsFinish` counts such a run as ended, without a report.

### Fairness

`finish` assumes `Fairness`, for `RunsFinish`. The broker delivers ready messages and notices dead
connections (heartbeats, `worker.py:60`). A worker's callback goes on, a lost
connection is noticed and a cancelled worker exits: these are steps of a
running process. systemd restarts a worker that exited (`Restart=always`), and
not one that was stopped: `Start` is fair only from `exited`. The client's main
thread and, until the event is set, its consumer thread run. Nothing is assumed
of faults, of a new run of the client, or of a restart by hand. All is weak
fairness. The number of faults is bounded, without which a worker could crash
for ever. The client may time out and need not, so a run that is bound to finish is so because
its results come.

`direct` assumes that the client's event loop, NGINX and the threads of a live server
run. No server need ever be started again and no `fail_timeout` need pass: `RunsFinish`
holds with every server down.

`sweep` assumes that the script and the client's main thread run, with the timeout of
its wait as one of its steps (there is one for every run), and that the script's wait for a
worker has its timeout too: `KillStraggler` is fair, as `_stop` makes it
(`scaling_sweep.py:48-52`). Nothing is assumed of workers, which may hang at any step, nor
of the broker: nothing need be delivered and no process need come up. `ScriptsEnd`
holds because the client gives up and stragglers are killed.

## The proofs

Every theorem is about all values of the constants: any capacity, purchases, files,
nodes, windows, limits and numbers of faults that the modules' assumptions admit, which
say little more than what kind of value a constant is.

| Module | Theorem | Property | Assumes |
|---|---|---|---|
| `TicketStoreProofs` | `TypeCorrect` | `TypeOK` | |
| | `NeverOversold` | `NoOverselling` | |
| | `SeatsAreSales` | `OneSeatPerSale` | |
| | `AnswersNeverFlip` | `AnswersAgree` | |
| | `RejectionsAreJustified` | `NoSpuriousRejection` | `UniqueRequestIds` |
| | `NeverDoubleSold` | `NoDoubleSell` | `UniqueRequestIds` |
| | `StoreImplementsSale` | `ImplementsSale` | `UniqueRequestIds` |
| | `MetricsAccountForLedger` | `MetricsMatchLedger` | |
| | `LatenciesAreBounded` | `LatencyBounds` | |
| | `WindowsCoverService` | `WindowCoversService` | |
| `StoreAuditProofs` | `AuditedStoreIsAStore` | `Spec` of TicketStore | |
| | `AuditTypeCorrect` | `AuditTypeOK` | |
| | `TornReadsErrOneWay` | `TornReadsLeanOneWay` | |
| | `QuietReadsErrNowhere` | `QuietReadsAreExact` | |
| `DirectPipelineProofs` | `TypeCorrect` | `TypeOK` | |
| | `AnswersAreTrue` | `AnswersMatchLedger` | |
| | `ReplaysAreAccountedFor` | `ReplaysHaveCauses` | `UniqueLines` (within a file) |
| | `CrashesHitOnlyTheirOwn` | `OnlyStruckRequestsFail` | |
| | `LoadViewsMatch` | `LoadViewsAgree` | `DistinctNames` |
| | `ImplementsTheStore` | `ImplementsStore` | `Store!UniqueRequestIds` |
| | `NeverOversells` | `Store!NoOverselling`, `Store!NoDoubleSell` | `Store!UniqueRequestIds` |
| `IndirectPipelineProofs` | `TypeCorrect` | `TypeOK` | |
| | `ResultsAreTrue` | `ResultsMatchLedger` | |
| | `RequestsSurvive` | `NoRequestLost` | |
| | `NobodyWaitsInVain` | `WaitsOnlyForResults` | `DistinctIds`, `NoEmptyFile` |
| | `RunsAreComplete` | `DoneOnlyWhenComplete` | `DistinctIds`, `SameIds` |
| | `ImplementsTheStore` | `ImplementsStore` | `Store!UniqueRequestIds` |
| | `NeverOversells` | `Store!NoOverselling`, `Store!NoDoubleSell` | `Store!UniqueRequestIds` |
| `IndirectReplaysProofs` | `ReplaysArePaidFor` | `ReplaysNeedFailures` | `UniqueLines` (over all files) |
| | `AnswersAreFinal` | `AnswersStand` | `DistinctIds`, `RedisStaysUp`, `OneFile` |
| | `SuccessesMatchSales` | `SuccessMatchesSold` | `DistinctIds`, `RedisStaysUp`, `OneFile` |
| `BenchmarkScriptsProofs` | `ScriptTypeCorrect` | `ScriptTypeOK` | |
| | `ResultsDoNotVanish` | `NothingVanishes` | |
| | `StepsAreComplete` | `DoneOnlyWhenComplete` | `DistinctIds`, `SameIds` |
| | `StepsMeasureThemselves` | `StepsDoNotMix` | `DistinctNames` |
| | `KilledWorkersRest` | `LoadMovesOn` | `DistinctNames` |
| | `StepAnswersAreTrue` | `StepAnswersMatchLedger` | `OneModel` |
| | `UndisturbedStepsLeaveNothing` | `StepsLeaveNothing` | `DistinctIds` |
| | `ScriptsImplementTheStore` | `ImplementsStore` | `Store!UniqueRequestIds` |

What the theorems assume, and of what that is true. The two benchmark files of the
repository number their lines, both from `00001` on; generated files have random ids, which
may collide.

- `UniqueRequestIds`: no two purchases of a ticket model share an id. True of the
  two files, alone, together or run again and again, since a purchase repeated is
  one purchase. `DistinctIds`: no two lines of one file share an id; true of each of the two.
  `colliding_ids` is what happens without them.
- `UniqueLines`: in `DirectPipeline`, no two lines of one file and ticket model share an id; true
  however often a file is run. In `IndirectReplaysProofs` the same of all lines of all runs: that
  is true of one run of each file, and false as soon as one is run twice. A run that timed out
  may then leave a request whose script is run for the next run too, with
  no failure but the timeout, so the theorem needs it.
- `SameIds`: all files have the same ids, as in a sweep, which runs one file again and
  again; false of the two files one after the other. `stale_results` is what happens without
  it. `NoEmptyFile`: every file has a line.
- `OneModel`: an id is not used for both ticket models. The client collects results by id
  alone. True of a sweep, or a series of tests, over one file; false when both files are
  run, whose ids are the same.
- `DistinctNames`: no two servers, or workers, have one name, under which their loads would
  be added up. Scripts number their workers, and a server that is given no name makes one of
  its port and process id (`server.py:32`).
- `RedisStaysUp`: no Redis call fails and Redis keeps its scripts. `redis_fails` is what
  happens without it: a sale is reported as ERROR, and a second worker may answer otherwise.
- `OneFile`: one run of the client, and none before it. Results of a timed-out run are collected by the next, on
  a store that has been reset, so that neither property holds of it: this is
  the relative of `stale_results` noted above. The first run may still be late, lose workers
  and have its requests run twice.

`RedisBackendProofs` has the lemmas about the scripts that the rest cites: the types of
what they return, that a script decides the purchase it is run for, never changes what
another one got, and enters one thing in the ledger or nothing.

*The store.* A sale is recorded twice, in the counter or the seat set and in the
dedup hash, and the script decides by the first what it records in the second.
`NoOverselling` already says that the two agree, but to keep it the sets of requests
counted must be finite, and to relate it to the answers one has to know for whom each
seat was taken. `Counted` adds to the two counting properties that the granted
requests and the seats are finite sets (at most capacity many, or one more with each
step); the step is the case split of the scripts: a replay leaves everything as
it is, a new request enters the ledger and, if granted, adds one to both
records. `AnswersNeverFlip` needs that an entry, once made, is only ever removed
by a reset, which also forgets the answers. `Allocated` adds who has what: a
seat in the set belongs to some granted purchase of that seat, a granted
purchase's seat is in the set, and no two granted purchases have the same one;
a request was rejected only when the counter stood at the capacity or the seat was in the
set, and neither goes back without a reset. With unique ids the granted
purchases and the granted request ids correspond one to one, which turns the
counting properties into `NoDoubleSell` and gives the guard of `Decide` in
`StoreImplementsSale`: every step of the store is a step of the sale or changes
no outcome.

*The metrics.* `Accounted` makes `MetricsMatchLedger` inductive: the ledger less what
was forgotten is finite, and what was forgotten was in the ledger. A script that is not a
replay adds one entry to the ledger and one to the metrics of one namespace, under the
same outcome. `Timed` says of one namespace that nothing is recorded before the first
buy and that from then on the sum of the latencies lies between the count times the
extremes; while the clock is not set back, the last reading is not ahead of the clock
and the sum less its largest term fits into the window.

*The audit.* `AuditSpec` implies TicketStore's specification, so its invariants are there to
start from. `StoreAgrees` adds that the deliveries counted are the credits of the nodes,
which the scripts enter together, and that the successes counted are the tickets, as long as
nothing was forgotten. Whatever has been read so far is, while no reset falls between,
at most what stands in the store (and just that, if nobody bought), and what is read later
is at least as much as it would have been then: the order of the reads puts tickets before
successes and deliveries before loads, which is why torn reads err in the one direction.
The sum over the nodes is taken as the number of credits, pairs of a node and
a number up to its load, since what a fold returns is an induction.

*The architectures and the store.* `SharedStoreProofs` shows that whatever touches the keys
with nothing but resets and buy scripts implements TicketStore (`KeysImplementStore`): with
unique ids a script changes the answer on record of its own purchase alone, which is what
`Attempt` does. `TicketStoreProofs` is instantiated there, with its assumptions proved, so
its theorems hold of any such system. What is left for the architectures is `TouchesKeys`:
of all their steps only a reset and a script run for a known request touch the keys.

*The direct architecture.* An answer is checked against the ledger of the run, so
`AnswersInv` follows the request: before the run it is with the client, while NGINX looks
for a server no thread has it, a thread that knows an outcome knows that of the ledger,
and then so does the client. What makes it inductive is that a reset finds no outcome of
the run it starts; one that comes late strikes the run, which the property exempts.
`CrashInv` is about the states in which
nothing but crashes has happened: every mark of a failure (a server down, or with failures,
or already tried) is a crashed server's, so there is always one to turn to; the
scripts are loaded wherever a store is; and a request that NGINX waits for in vain was on
a server when it crashed.
What scripts may still do is counted: `Pending(X)` is the number of requests that a
thread of a server in X has not yet bought for, and of calls of these servers that are on their
way (`calls`). Handing a request to a server adds one, a connection to Redis that breaks at most
one, and so does no other step; a crash turns threads into calls, one for one at most; a script
that runs takes one away. A thread that NGINX or the client no longer waits for is in
it like any other, which is why errors of earlier runs count.
`CountedInv` says that a server has counted every request whose script has certainly run there
(a thread or the client has its answer). `LoadInv` bounds the other side: the
count of a server, less the requests of the run that have been with it or ended in an
error, plus `Pending`, is at most the connections that broke and the errors of earlier runs.
It is a potential: each script pays for itself out of `Pending`, each request that
is handed over brings its own place, and when the next run begins the errors of this one become
earlier ones, which covers what they have left behind. `ReplayInv` is the same for replays: the
scripts that may yet run (`Chances`), less the lines of the run for which one of these will be
the first (`Fresh`), and the replays so far. Both need that a reset at the beginning of the
run has taken place; that no reset fails is not enough for that: if all servers have crashed when a
later run begins, its reset is given up and the counts of the run before stay, which
`LoadViewsAgree` and `ReplaysHaveCauses` exempt.

*The indirect architecture.* `PlacesInv`: every message and result anywhere is of this run
or an earlier one and has been published; so nothing is known of a run when it begins.
`LedgerInv` adds to `ResultsMatchLedger` that a worker which has an answer in hand has the
ledger's. `LossInv` adds to `NoRequestLost` that the result of a message in a callback that
has published is out: the step that removes a message from the broker is `Ack`, and the
result precedes it. It is stated for any set of results that somebody else has taken, which
is empty here and what was drained in the scripts. `CountInv` relates `done` to the count, and with distinct ids in
the file the count to the lines: if all have a result the client has counted enough, and if
all files have the same ids, enough is all.

*Replays.* With unique ids the broker never has two copies of a message (`CopyInv`): it is
ready, or returned by a dead connection, or with one worker whose connection stands, in its
window or in its callback. What was prefetched and not begun may be returned as often as it
likes. A script can only be run again for a message that is still to be run for the broker
though its script has run (`Repeats`), or by a worker that has lost its connection and can
run one more message before it notices (`Strays`), or by a call on its way (`calls`). `Account`
says that the replays so far and the numbers of the three never exceed the crashes, lost
connections and broken calls. A connected worker's
run turns its repeat, if it is one, into a replay; a stray's run uses the stray up, and a
late call itself, and either is a replay or leaves the broker's copy a repeat; a lost connection
adds one stray or one repeat; a crash, as a broken call, one repeat or one call,
never both: the message in hand of a worker whose call is on its way has not been
run; and a graceful stop returns only what has not been run.

*Reports.* `FirstRunInv` is about the first run: no answer, result or collected status is an
error; what is collected is the outcome on record of a line of the file, and so is all that
the store has sold; and the outcomes of OK on record are as many as the tickets (`Tallied`,
an invariant of the scripts themselves). An outcome on record does not change before the next
reset, so a second result for a request repeats the first: `AnswersStand`. A run that was not
late has counted a result for every line (`CountInv`), so its successes are
the OK outcomes on record, which gives `SuccessMatchesSold`.

*The scripts.* A step of `BenchmarkScripts` is one of the pipeline, a worker that ends, a
client that begins, or leaves the pipeline alone; the lemmas about the pipeline are stated
for all of these (`AnyStep`), so that its invariants hold under the scripts by the same
proofs. `Staff` is what the scripts add: between the steps no worker is up nor on
its way, in a step only its own are, and those it has killed are down. So nobody is at work
across a reset; only calls are. `CreditInv` counts them: the load of a worker and its calls on
their way are its credit (`Credit`), which a late call leaves as it is or lowers, a script of a
worker that is up raises by one, and a kill raises by one; for the workers of other steps it is
therefore at most the calls with which the step began (`inherited`). From that follow `StepsDoNotMix`
and, step by step, `LoadMovesOn`. As at the
reset no worker has an answer in hand, and a call that comes late has nobody to
answer, `StepAnswersMatchLedger` follows; `Control` adds
that the client is in the run of the step, and its consumer thread only then.
`Clean` is about scripts in which nothing has failed: a connection is never lost, so each
message of the run has one place; a request is pending, or it has one result, or it is
collected; what was run is not to be run again; and a result that the client has
stored is still in the queue only until it is acknowledged, which it is before the next is
taken (`OneUnacknowledged`). When the client has all its results,
the request queue and the workers are therefore empty, and the response queue holds at most
the last result, whose acknowledgement the end of the client may have forestalled. The
next step's client purges it.

*Model-checked only.* `RunsFinish` and `ScriptsEnd`, in `finish`, `direct` and `sweep`:
liveness under fairness is outside what the proof system handles. Every other property of a
passing run is a theorem, under the assumptions named above.

*What proving changed in the models.* `LoadViewsAgree` got its condition on the servers.
`StepsAssumption` says that a replacement is not one of the step's first workers, as in
the script, which gives it a name of its own (`fault_tolerance_test.py:106`); a killed worker
that could come back under its name would carry load again. `BenchmarkAssumption` says that
`Benchmark` is a ticket model and `AuditedArch` an architecture. `ByNode` counts credits.
`ReplaysHaveCauses` got its condition on the servers as well, and the errors of earlier runs: a
request that NGINX gave up on in one run may be bought in the next, whose file has it too.

## What could follow

- `SuccessMatchesSold` and `AnswersStand` for runs that follow one that did not time out.
- A worker's Redis failure and lost connection within the scripts' steps, and larger
  sweeps: the instance of `sweep` is as large as its time allows.
- A restart of RabbitMQ.

## Not modelled, and why

- `analysis/`, `scripts/deploy*.sh`, `worker_userdata.sh`, `run_benchmark.sh`: they keep
  no state of the system.
- `benchmarks/generate.py`: random data; its one consequence, colliding ids, is
  an instance.
- `tests/`: read for what the backend is supposed to do.
- `shared/config.py`: the values it reads are constants of the modules.
- What the scripts do when they themselves raise (a second timeout, a metrics read that
  fails): they end and leave their workers running.
