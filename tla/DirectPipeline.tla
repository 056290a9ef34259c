--------------------------- MODULE DirectPipeline ---------------------------
(***************************************************************************)
(* The direct architecture: the benchmark client of direct/client.py sends *)
(* every line of its file as one HTTP POST, a semaphore's worth at a time; *)
(* NGINX passes it to a REST server of direct/server.py, which runs the    *)
(* buy script in a thread of its own and answers.  Servers crash and are   *)
(* started again, Redis calls fail, NGINX and the client stop waiting.     *)
(*                                                                         *)
(* NGINX is modelled from direct/nginx.conf.  Any server it may use can be *)
(* the next, so nothing here rests on the order of the rotation.           *)
(***************************************************************************)
EXTENDS SharedStore, Sequences
LOCAL INSTANCE Functions

CONSTANTS
    Benchmarks,     \* one sequence of purchases for each run of the client
    Concurrency,    \* --concurrency
    MaxFails,       \* max_fails of every server
    Tries,          \* proxy_next_upstream_tries
    Faults,         \* the kinds of fault that may happen
    MaxFaults       \* bound: how many of them may happen in all

FaultKinds == {"crash", "redis", "redis_restart", "timeout", "reset"}

ASSUME BenchmarksAssumption == Benchmarks \in Seq(Seq(Purchases))
ASSUME LimitsAssumption ==
    Concurrency \in Nat \ {0} /\ MaxFails \in Nat \ {0} /\ Tries \in Nat \ {0}
ASSUME FaultsAssumption == Faults \subseteq FaultKinds /\ MaxFaults \in Nat
ASSUME ServersAssumption == \A s \in Stores : s.arch = "direct"

\* A server is named by the store it creates.
Servers == Stores
Nobody == [node_id |-> "nobody", arch |-> "none"]

\* A request: line m[2] of the file of run m[1].
Messages == UNION {{<<i, j>> : j \in DOMAIN Benchmarks[i]} : i \in DOMAIN Benchmarks}
Op(m) == Benchmarks[m[1]][m[2]]

Statuses == Outcomes \cup {"ERROR"}

VARIABLES
    calls,      \* EVALSHA calls on their way whose sender no longer waits for them
    scripts,    \* does Redis' script cache hold the two buy scripts?
    alive,      \* is the server's process running?
    store,      \* has it created its store?
    threads,    \* what a server's thread is doing for a request
    fails,      \* NGINX: failed attempts within fail_timeout
    req,        \* a request on its way: stage, servers tried, where it is, status
    pc,         \* the client: idle, resetting, sending, finished or failed
    run,        \* the number of the client's run
    reset,      \* settled, late (given up, yet to happen) or struck (in a run)
    crashed,    \* history: the servers that have ever crashed
    struck,     \* history: the requests a crash met on a server
    faults      \* history: how often each kind of fault has happened

\* Each abandoned call has a number, so that two for one request are two.
Calls == [by : Servers, of : Messages, nr : Nat]
Call(s, m) == [by |-> s, of |-> m, nr |-> faults["redis"] + faults["crash"]]

serverVars == <<alive, store, threads>>
historyVars == <<crashed, struck>>
vars == <<db, calls, scripts, serverVars, fails, req, pc, run, reset, historyVars, faults>>

Lines == {m \in Messages : m[1] = run}
Stage(m) == req[m].stage
InFlight == {m \in Messages : Stage(m) \in {"balancing", "sent"}}

Fault(kind) ==
    /\ kind \in Faults /\ FoldFunction(LAMBDA a, b : a + b, 0, faults) < MaxFaults
    /\ faults' = [faults EXCEPT ![kind] = @ + 1]

NoThread == [m \in Messages |-> "none"]
Unsent == [stage |-> "unsent", tried |-> {}, at |-> Nobody, status |-> "nil"]
Balancing(tried) == [Unsent EXCEPT !.stage = "balancing", !.tried = tried]
Sent(tried, s) == [stage |-> "sent", tried |-> tried, at |-> s, status |-> "nil"]
Answered(status, s) == [stage |-> "done", tried |-> {}, at |-> s, status |-> status]

Init ==
    /\ db = EmptyDb /\ calls = {}
    /\ scripts = FALSE
    /\ alive = [s \in Servers |-> TRUE]
    /\ store = [s \in Servers |-> FALSE]
    /\ threads = [s \in Servers |-> NoThread]
    /\ fails = [s \in Servers |-> 0]
    /\ req = [m \in Messages |-> Unsent]
    /\ pc = "idle" /\ run = 0
    /\ reset = "settled"
    /\ crashed = {} /\ struck = {}
    /\ faults = [k \in FaultKinds |-> 0]

-----------------------------------------------------------------------------
(* The client.                                                             *)

BeginRun ==
    /\ pc \in {"idle", "finished", "failed"} /\ run < Len(Benchmarks)
    /\ pc' = "resetting" /\ run' = run + 1
    /\ reset' = IF reset = "struck" THEN "settled" ELSE reset
    /\ UNCHANGED <<db, calls, scripts, serverVars, fails, req, historyVars, faults>>

\* POST /reset at some server, whose first request this may be.
ResetDone ==
    /\ pc = "resetting"
    /\ \E s \in Servers :
          /\ alive[s]
          /\ store' = [store EXCEPT ![s] = TRUE]
          /\ scripts' = (scripts \/ ~store[s])
    /\ db' = EmptyDb
    /\ pc' = "sending"
    /\ UNCHANGED <<calls, alive, threads, fails, req, run, reset, historyVars, faults>>

\* The reset is best effort: a refused one is only a warning, and one that
\* takes longer than ten seconds may still be carried out later.
ResetGivenUp ==
    /\ pc = "resetting"
    /\ \/ Fault("reset") /\ reset' \in {reset, "late"}
       \/ (\A s \in Servers : ~alive[s]) /\ UNCHANGED <<faults, reset>>
    /\ pc' = "sending"
    /\ UNCHANGED <<db, calls, scripts, serverVars, fails, req, run, historyVars>>

LateReset ==
    /\ reset = "late"
    /\ db' = EmptyDb
    /\ reset' = "struck"
    /\ UNCHANGED <<calls, scripts, serverVars, fails, req, pc, run, historyVars, faults>>

\* async with semaphore: POST.  The tasks get the semaphore in their order.
Send ==
    /\ pc = "sending" /\ Cardinality(InFlight \cap Lines) < Concurrency
    /\ \E m \in Lines :
          /\ Stage(m) = "unsent" /\ \A n \in Lines : n[2] < m[2] => Stage(n) # "unsent"
          /\ req' = [req EXCEPT ![m] = Balancing({})]
    /\ UNCHANGED <<db, calls, scripts, serverVars, fails, pc, run, reset, historyVars, faults>>

\* gather returns; the average over no latencies divides by zero.
Finish ==
    /\ pc = "sending" /\ \A m \in Lines : Stage(m) = "done"
    /\ pc' = IF Lines = {} THEN "failed" ELSE "finished"
    /\ UNCHANGED <<db, calls, scripts, serverVars, fails, req, run, reset, historyVars, faults>>

Client == BeginRun \/ ResetDone \/ ResetGivenUp \/ Send \/ Finish

-----------------------------------------------------------------------------
(* NGINX.  A page of its own (502, 504) is not JSON, so what the client    *)
(* makes of it is ERROR, as of a server's 500.                             *)

\* The servers proxy_next_upstream may turn to for m.
Upstreams(m) ==
    IF Cardinality(req[m].tried) < Tries
    THEN {s \in Servers \ req[m].tried : fails[s] < MaxFails}
    ELSE {}

Failed(s) == [fails EXCEPT ![s] = IF @ < MaxFails THEN @ + 1 ELSE @]

Forward(m, s) ==
    /\ Stage(m) = "balancing" /\ s \in Upstreams(m)
    /\ alive[s]
    /\ req' = [req EXCEPT ![m] = Sent(@.tried \cup {s}, s)]
    /\ threads' = [threads EXCEPT ![s][m] = "received"]
    /\ UNCHANGED <<db, calls, scripts, alive, store, fails, pc, run, reset, historyVars, faults>>

\* Mutant: the attempt is not retried on the next server.
ConnectFailsForGood(m, s) ==
    /\ Stage(m) = "balancing" /\ s \in Upstreams(m)
    /\ ~alive[s]
    /\ req' = [req EXCEPT ![m] = Answered("ERROR", Nobody)]
    /\ fails' = Failed(s)
    /\ UNCHANGED <<db, calls, scripts, serverVars, pc, run, reset, historyVars, faults>>

\* Nothing has been sent yet: the next server is tried.
ConnectFails(m, s) ==
    /\ Stage(m) = "balancing" /\ s \in Upstreams(m)
    /\ ~alive[s]
    /\ req' = [req EXCEPT ![m] = Balancing(@.tried \cup {s})]
    /\ fails' = Failed(s)
    /\ UNCHANGED <<db, calls, scripts, serverVars, pc, run, reset, historyVars, faults>>

\* A host that is down refuses nothing: the connect timeout of ten seconds
\* uses up the ten seconds of proxy_next_upstream_timeout.
ConnectTimesOut(m, s) ==
    /\ Stage(m) = "balancing" /\ s \in Upstreams(m)
    /\ ~alive[s] /\ Fault("timeout")
    /\ req' = [req EXCEPT ![m] = Answered("ERROR", Nobody)]
    /\ fails' = Failed(s)
    /\ UNCHANGED <<db, calls, scripts, serverVars, pc, run, reset, historyVars>>

\* Mutant: a request waits for a server while none is in rotation.
NoUpstreamAfterTries(m) ==
    /\ Stage(m) = "balancing" /\ Cardinality(req[m].tried) = Tries
    /\ req' = [req EXCEPT ![m] = Answered("ERROR", Nobody)]
    /\ UNCHANGED <<db, calls, scripts, serverVars, fails, pc, run, reset, historyVars, faults>>

\* No live upstreams, or no tries left.
NoUpstream(m) ==
    /\ Stage(m) = "balancing" /\ Upstreams(m) = {}
    /\ req' = [req EXCEPT ![m] = Answered("ERROR", Nobody)]
    /\ UNCHANGED <<db, calls, scripts, serverVars, fails, pc, run, reset, historyVars, faults>>

\* Mutant: as if the directive said non_idempotent.
ResendAfterCrash(m) ==
    /\ Stage(m) = "sent" /\ threads[req[m].at][m] = "none"
    /\ req' = [req EXCEPT ![m] = Balancing(@.tried)]
    /\ fails' = Failed(req[m].at)
    /\ UNCHANGED <<db, calls, scripts, serverVars, pc, run, reset, historyVars, faults>>

\* The connection breaks.  The request is a POST that has been sent, and
\* without non_idempotent such a one is not passed to another server.
ConnectionLost(m) ==
    /\ Stage(m) = "sent" /\ threads[req[m].at][m] = "none"
    /\ req' = [req EXCEPT ![m] = Answered("ERROR", Nobody)]
    /\ fails' = Failed(req[m].at)
    /\ UNCHANGED <<db, calls, scripts, serverVars, pc, run, reset, historyVars, faults>>

\* proxy_read_timeout: the server goes on with the request.
ReadTimeout(m) ==
    /\ Stage(m) = "sent" /\ Fault("timeout")
    /\ req' = [req EXCEPT ![m] = Answered("ERROR", Nobody)]
    /\ fails' = Failed(req[m].at)
    /\ UNCHANGED <<db, calls, scripts, serverVars, pc, run, reset, historyVars>>

\* fail_timeout has passed: a new count begins, out of rotation or not.
FailTimeout(s) ==
    /\ fails[s] > 0
    /\ fails' = [fails EXCEPT ![s] = 0]
    /\ UNCHANGED <<db, calls, scripts, serverVars, req, pc, run, reset, historyVars, faults>>

Balance(m) ==
    \/ \E s \in Servers : Forward(m, s) \/ ConnectFails(m, s)
    \/ NoUpstream(m) \/ ConnectionLost(m)

-----------------------------------------------------------------------------
(* A server: the steps of the thread that serves request m.                *)

At(s, m, stage) == threads' = [threads EXCEPT ![s][m] = stage]

\* _get_store: is there one yet?  Two threads may both find none.
FindStore(s, m) ==
    /\ threads[s][m] = "received"
    /\ At(s, m, IF store[s] THEN "calling" ELSE "creating")
    /\ UNCHANGED <<db, calls, scripts, alive, store, fails, req, pc, run, reset, historyVars,
                   faults>>

\* TicketStore() loads the scripts.
CreateStore(s, m) ==
    /\ threads[s][m] = "creating"
    /\ store' = [store EXCEPT ![s] = TRUE]
    /\ scripts' = TRUE
    /\ At(s, m, "calling")
    /\ UNCHANGED <<db, calls, alive, fails, req, pc, run, reset, historyVars, faults>>

\* Or raises; the next request will try again.
CreateStoreFails(s, m) ==
    /\ threads[s][m] = "creating" /\ Fault("redis")
    /\ At(s, m, "ERROR")
    /\ UNCHANGED <<db, calls, scripts, alive, store, fails, req, pc, run, reset, historyVars>>

\* Mutants: the metrics are not part of the script; all servers share a name.
SellOf(s, m) == Sell(db, Op(m))
BuyOfOneNode(s, m) == Buy(db, CHOOSE t \in Servers : TRUE, Op(m), 0, 0)

BuyOf(s, m) == Buy(db, s, Op(m), 0, 0)

\* Mutant: the outcome is read before the script has run.
ExecuteReadingFirst(s, m) ==
    /\ threads[s][m] = "calling" /\ scripts
    /\ db' = BuyOf(s, m)
    /\ At(s, m, Outcome(db, Op(m)))
    /\ UNCHANGED <<calls, scripts, alive, store, fails, req, pc, run, reset, historyVars, faults>>

Execute(s, m) ==
    /\ threads[s][m] = "calling" /\ scripts
    /\ db' = BuyOf(s, m)
    /\ At(s, m, Outcome(BuyOf(s, m), Op(m)))
    /\ UNCHANGED <<calls, scripts, alive, store, fails, req, pc, run, reset, historyVars, faults>>

\* Mutant: what could not be bought is reported as sold out.
NoScriptAsRejection(s, m) ==
    /\ threads[s][m] = "calling" /\ ~scripts
    /\ At(s, m, "REJECTED")
    /\ UNCHANGED <<db, calls, scripts, alive, store, fails, req, pc, run, reset, historyVars,
                   faults>>

\* NOSCRIPT: the store was made before Redis restarted, and is kept.
NoScript(s, m) ==
    /\ threads[s][m] = "calling" /\ ~scripts
    /\ At(s, m, "ERROR")
    /\ UNCHANGED <<db, calls, scripts, alive, store, fails, req, pc, run, reset, historyVars,
                   faults>>

\* The connection to Redis breaks, and what became of the call nobody knows:
\* it is lost, on its way, or the script has run.  The call raises, or
\* redis-py sends it again.
RedisError(s, m) ==
    /\ threads[s][m] = "calling" /\ Fault("redis")
    /\ \/ db' = db /\ calls' \in {calls, calls \cup {Call(s, m)}}
       \/ scripts /\ db' = BuyOf(s, m) /\ UNCHANGED calls
    /\ At(s, m, "ERROR") \/ UNCHANGED threads
    /\ UNCHANGED <<scripts, alive, store, fails, req, pc, run, reset, historyVars>>

\* The response, unless NGINX no longer waits for it.
Reply(s, m) ==
    /\ threads[s][m] \in Statuses
    /\ At(s, m, "none")
    /\ req' = IF Stage(m) = "sent" /\ req[m].at = s
              THEN [req EXCEPT ![m] = Answered(threads[s][m], s)]
              ELSE req
    /\ UNCHANGED <<db, calls, scripts, alive, store, fails, pc, run, reset, historyVars, faults>>

\* The process dies with its threads.  The calls they have sent may still
\* reach Redis.
Crash(s) ==
    /\ alive[s] /\ Fault("crash")
    /\ \E sent \in SUBSET {Call(s, m) : m \in {n \in Messages : threads[s][n] = "calling"}} :
          calls' = calls \cup sent
    /\ alive' = [alive EXCEPT ![s] = FALSE]
    /\ store' = [store EXCEPT ![s] = FALSE]
    /\ threads' = [threads EXCEPT ![s] = NoThread]
    /\ crashed' = crashed \cup {s}
    /\ struck' = struck \cup {m \in Messages : threads[s][m] # "none"}
    /\ UNCHANGED <<db, scripts, fails, req, pc, run, reset>>

\* Somebody starts it again.
Restart(s) ==
    /\ ~alive[s]
    /\ alive' = [alive EXCEPT ![s] = TRUE]
    /\ UNCHANGED <<db, calls, scripts, store, threads, fails, req, pc, run, reset, historyVars,
                   faults>>

\* Redis restarts with its data but without its script cache.
RedisRestart ==
    /\ Fault("redis_restart")
    /\ scripts' = FALSE
    /\ UNCHANGED <<db, calls, serverVars, fails, req, pc, run, reset, historyVars>>

\* A call that was under way when its sender gave up, died or sent it again.
LateCall ==
    /\ \E c \in calls :
          /\ calls' = calls \ {c}
          /\ db' = IF scripts THEN Buy(db, c.by, Op(c.of), 0, 0) ELSE db
    /\ UNCHANGED <<scripts, serverVars, fails, req, pc, run, reset, historyVars, faults>>

Serve(s, m) ==
    FindStore(s, m) \/ CreateStore(s, m) \/ Execute(s, m) \/ NoScript(s, m) \/ Reply(s, m)

-----------------------------------------------------------------------------
Failure ==
    \/ \E s \in Servers : Crash(s)
    \/ \E s \in Servers, m \in Messages : CreateStoreFails(s, m) \/ RedisError(s, m)
    \/ \E m \in Messages : ReadTimeout(m) \/ \E s \in Servers : ConnectTimesOut(m, s)
    \/ RedisRestart \/ LateReset \/ LateCall

Next ==
    \/ Client
    \/ \E m \in Messages : Balance(m)
    \/ \E s \in Servers, m \in Messages : Serve(s, m)
    \/ \E s \in Servers : FailTimeout(s) \/ Restart(s)
    \/ Failure

Spec == Init /\ [][Next]_vars

\* The client's event loop, NGINX and the threads of a live server run.
\* Nobody need restart a server, and no timeout need pass.
Fairness ==
    /\ WF_vars(ResetDone \/ ResetGivenUp \/ Send \/ Finish)
    /\ WF_vars(\E m \in Messages : Balance(m))
    /\ \A s \in Servers : WF_vars(\E m \in Messages : Serve(s, m))

FairSpec == Spec /\ Fairness

-----------------------------------------------------------------------------
ThreadStages == {"none", "received", "creating", "calling"} \cup Statuses
Trips ==
    [stage : {"unsent", "balancing", "sent", "done"}, tried : SUBSET Servers,
     at : Servers \cup {Nobody}, status : Statuses \cup {"nil"}]

TypeOK ==
    /\ db \in Db /\ scripts \in BOOLEAN
    /\ calls \subseteq Calls
    /\ alive \in [Servers -> BOOLEAN] /\ store \in [Servers -> BOOLEAN]
    /\ threads \in [Servers -> [Messages -> ThreadStages]]
    /\ fails \in [Servers -> 0..MaxFails]
    /\ req \in [Messages -> Trips]
    /\ pc \in {"idle", "resetting", "sending", "finished", "failed"}
    /\ run \in 0..Len(Benchmarks)
    /\ reset \in {"settled", "late", "struck"}
    /\ crashed \subseteq Servers /\ struck \subseteq Messages
    /\ faults \in [FaultKinds -> Nat]

\* What the client was told is what the ledger says, whichever server said
\* it: in a run no late reset strikes, OK means sold and REJECTED not sold
\* (redis_backend.py:8-12, client.py:133-134).
AnswersMatchLedger ==
    reset # "struck" =>
        \A m \in Lines : req[m].status \in Outcomes => req[m].status = Outcome(db, Op(m))

\* No two lines of one file share an id within a ticket model.
UniqueLines ==
    \A m, n \in Messages :
        m[1] = n[1] /\ Op(m).type = Op(n).type /\ Op(m).request_id = Op(n).request_id => m = n

\* However often NGINX turns to another server, what it has sent it does not
\* send again (nginx.conf:48-51).  A script that runs once more for the same id
\* has its cause: a connection to Redis that broke, or a request of an earlier
\* run of the same file that the client was told had failed.  No reset may be
\* missing or late.
EarlierErrors == {m \in Messages : m[1] < run /\ req[m].status = "ERROR"}

ReplaysHaveCauses ==
    faults["reset"] = 0 /\ crashed # Servers =>
        db.metrics["direct"].replays <= faults["redis"] + Cardinality(EarlierErrors)

\* As long as one server has never crashed, Redis answers and NGINX waits, only
\* the requests that were on a server when it crashed fail: every other one
\* finds its way round the crash (nginx.conf:14-16, README.md:184-185).
OnlyServersFail == \A k \in FaultKinds \ {"crash"} : faults[k] = 0
SomeServerStands == crashed # Servers /\ Cardinality(crashed) < Tries

OnlyStruckRequestsFail ==
    OnlyServersFail /\ SomeServerStands =>
        \A m \in Messages : req[m].status = "ERROR" => m \in struck

\* And even those are retried, so that the client sees no error
\* (nginx.conf:48-50, README.md:184-185).
CrashesAreTransparent ==
    OnlyServersFail /\ SomeServerStands => \A m \in Messages : req[m].status # "ERROR"

\* The two views of the load agree: in the run that ends, a server has run a
\* script for every request the client counts as its own, and for at most as
\* many more as there were errors reported, in this run or an earlier one, and
\* connections to Redis that broke (client.py:137-139, redis_backend.py:276).
ClientByNode(s) == Cardinality({m \in Lines : req[m].at = s /\ req[m].status \in Outcomes})
ServerByNode(s) == db.nodes["direct"][s.node_id]
Errors == {m \in Messages : req[m].status = "ERROR"}

LoadViewsAgree ==
    pc = "finished" /\ faults["reset"] = 0 =>
        \A s \in Servers :
            /\ ClientByNode(s) <= ServerByNode(s)
            /\ crashed # Servers =>
                  ServerByNode(s) <= ClientByNode(s) + Cardinality(Errors) + faults["redis"]

\* Every run ends, whichever servers are left: a request is answered, if only
\* with an error, and the semaphore is released (client.py:81, 93-100).
RunsFinish == pc = "resetting" ~> pc \in {"finished", "failed"}
=============================================================================
