------------------------- MODULE DirectPipelineProofs -------------------------
(***************************************************************************)
(* Proofs about DirectPipeline, for any files, servers, concurrency,       *)
(* limits of the load balancer and number of faults.                       *)
(***************************************************************************)
EXTENDS DirectPipeline, SharedStoreProofs

\* A message is a line of the file of its run.
LEMMA MessageType ==
    ASSUME NEW m \in Messages
    PROVE  Op(m) \in Purchases /\ m[1] \in 1..Len(Benchmarks)
<1>1. PICK i \in DOMAIN Benchmarks : m \in {<<i, j>> : j \in DOMAIN Benchmarks[i]}
  BY DEF Messages
<1>2. PICK j \in DOMAIN Benchmarks[i] : m = <<i, j>>
  BY <1>1
<1>3. Benchmarks[i] \in Seq(Purchases) /\ i \in 1..Len(Benchmarks)
  BY BenchmarksAssumption
<1>4. Benchmarks[i][j] \in Purchases
  BY <1>2, <1>3
<1> QED
  BY <1>2, <1>3, <1>4 DEF Op

\* A fault counts against its own kind only.
LEMMA FaultCounts ==
    ASSUME NEW kind, Fault(kind)
    PROVE  faults' = [faults EXCEPT ![kind] = @ + 1]
BY Zenon DEF Fault

\* A server is a store of the direct architecture.
LEMMA ServerType ==
    ASSUME NEW s \in Servers
    PROVE  s \in Stores /\ s.arch = "direct"
BY ServersAssumption DEF Servers

-----------------------------------------------------------------------------
(* Types.                                                                  *)

\* A request has its type at every stage of its trip.
LEMMA TripTypes ==
    /\ Unsent \in Trips
    /\ \A tried \in SUBSET Servers : Balancing(tried) \in Trips
    /\ \A tried \in SUBSET Servers, s \in Servers : Sent(tried, s) \in Trips
    /\ \A status \in Statuses, s \in Servers \cup {Nobody} : Answered(status, s) \in Trips
BY DEF Unsent, Balancing, Sent, Answered, Trips, Statuses

\* A request that moves stays somewhere NGINX or the client knows of.
LEMMA TripSet ==
    ASSUME req \in [Messages -> Trips], NEW m \in Messages, NEW r \in Trips
    PROVE  [req EXCEPT ![m] = r] \in [Messages -> Trips]
OBVIOUS

\* So does a thread that takes a step of the endpoint.
LEMMA ThreadSet ==
    ASSUME threads \in [Servers -> [Messages -> ThreadStages]],
           NEW s \in Servers, NEW m \in Messages, NEW stage \in ThreadStages, At(s, m, stage)
    PROVE  threads' \in [Servers -> [Messages -> ThreadStages]]
BY DEF At

\* Counting a failure of a server keeps the counts below max_fails, and gives no other
\* server one.
LEMMA FailedType ==
    ASSUME fails \in [Servers -> 0..MaxFails], NEW s
    PROVE  /\ Failed(s) \in [Servers -> 0..MaxFails]
           /\ \A t \in Servers : Failed(s)[t] > 0 => fails[t] > 0 \/ t = s
<1>1. DOMAIN Failed(s) = Servers
  BY DEF Failed
<1>2. Failed(s) = [t \in DOMAIN Failed(s) |-> Failed(s)[t]]
  BY DEF Failed
<1>3. ASSUME NEW t \in Servers
      PROVE  Failed(s)[t] \in 0..MaxFails /\ (Failed(s)[t] > 0 => fails[t] > 0 \/ t = s)
  <2>1. fails[t] \in 0..MaxFails
    OBVIOUS
  <2>2. CASE t = s
    BY <2>1, <2>2, LimitsAssumption DEF Failed
  <2>3. CASE t # s
    BY <2>1, <2>3 DEF Failed
  <2> QED  BY <2>2, <2>3
<1> QED
  BY <1>1, <1>2, <1>3

\* A fault keeps the counts of faults natural numbers.
LEMMA CountType ==
    ASSUME faults \in [FaultKinds -> Nat], NEW kind \in FaultKinds, Fault(kind)
    PROVE  faults' \in [FaultKinds -> Nat]
BY FaultCounts

\* A buy script leaves the keys well formed and its request decided.
LEMMA BuyOfType ==
    ASSUME db \in Db, NEW s \in Servers, NEW m \in Messages
    PROVE  BuyOf(s, m) \in Db /\ Outcome(BuyOf(s, m), Op(m)) \in Outcomes
BY ServerType, MessageType, BuyOutcomes DEF BuyOf

\* An EVALSHA call names a server and a line, whenever it was sent.
LEMMA CallType ==
    ASSUME TypeOK, NEW s \in Servers, NEW m \in Messages
    PROVE  Call(s, m) \in Calls
<1>1. faults["redis"] + faults["crash"] \in Nat
  BY DEF TypeOK, FaultKinds
<1> QED
  BY <1>1 DEF Call, Calls

\* Whatever the client does, the types stay.
LEMMA ClientType ==
    ASSUME TypeOK, Client
    PROVE  TypeOK'
<1> USE DEF TypeOK, serverVars, historyVars
<1>1. CASE BeginRun
  BY <1>1 DEF BeginRun
<1>2. CASE ResetDone
  <2>1. scripts' \in BOOLEAN
    BY Zenon, <1>2 DEF ResetDone
  <2> QED  BY <1>2, <2>1, EmptyDbType DEF ResetDone
<1>3. CASE ResetGivenUp
  <2>1. faults' \in [FaultKinds -> Nat] /\ reset' \in {"settled", "late", "struck"}
    BY <1>3, CountType DEF ResetGivenUp, FaultKinds
  <2> QED  BY <1>3, <2>1 DEF ResetGivenUp
<1>4. CASE Send
  <2>1. PICK m \in Messages : req' = [req EXCEPT ![m] = Balancing({})]
    BY <1>4 DEF Send, Lines
  <2>2. req' \in [Messages -> Trips]
    BY <2>1, TripTypes, TripSet
  <2> QED  BY <1>4, <2>2 DEF Send
<1>5. CASE Finish
  BY <1>5 DEF Finish
<1> QED
  BY <1>1, <1>2, <1>3, <1>4, <1>5 DEF Client

\* Whatever NGINX does with a request, the types stay.
LEMMA BalancerType ==
    ASSUME TypeOK, NEW m \in Messages,
           \/ \E s \in Servers : Forward(m, s) \/ ConnectFails(m, s) \/ ConnectTimesOut(m, s)
           \/ NoUpstream(m) \/ ConnectionLost(m) \/ ReadTimeout(m)
    PROVE  TypeOK'
<1> USE DEF TypeOK, serverVars, historyVars
<1>1. req[m] \in Trips /\ req[m].tried \in SUBSET Servers
  BY DEF Trips
<1>2. \A s : Failed(s) \in [Servers -> 0..MaxFails]
  BY FailedType
<1>3. \A s \in Servers : Balancing(req[m].tried \cup {s}) \in Trips
  BY <1>1, TripTypes
<1>4. Answered("ERROR", Nobody) \in Trips
  BY TripTypes DEF Statuses
<1>5. ASSUME NEW s \in Servers, Forward(m, s) PROVE TypeOK'
  <2>1. req' = [req EXCEPT ![m] = Sent(req[m].tried \cup {s}, s)]
    BY <1>5 DEF Forward
  <2>2. Sent(req[m].tried \cup {s}, s) \in Trips
    BY <1>1, TripTypes
  <2>3. req' \in [Messages -> Trips]
    BY <2>1, <2>2, TripSet
  <2>4. threads' \in [Servers -> [Messages -> ThreadStages]]
    BY <1>5, ThreadSet DEF Forward, At, ThreadStages
  <2> QED  BY <1>5, <2>3, <2>4 DEF Forward
<1>6. ASSUME NEW s \in Servers, ConnectFails(m, s) PROVE TypeOK'
  <2>1. req' = [req EXCEPT ![m] = Balancing(req[m].tried \cup {s})]
    BY <1>6 DEF ConnectFails
  <2>2. req' \in [Messages -> Trips]
    BY <1>3, <2>1, TripSet
  <2> QED  BY <1>2, <1>6, <2>2 DEF ConnectFails
<1>7. ASSUME req' = [req EXCEPT ![m] = Answered("ERROR", Nobody)]
      PROVE  req' \in [Messages -> Trips]
  BY <1>4, <1>7, TripSet
<1>8. ASSUME NEW s \in Servers, ConnectTimesOut(m, s) PROVE TypeOK'
  <2>1. req' \in [Messages -> Trips]
    BY <1>7, <1>8 DEF ConnectTimesOut
  <2>2. faults' \in [FaultKinds -> Nat]
    BY <1>8, CountType DEF ConnectTimesOut, FaultKinds
  <2> QED  BY <1>2, <1>8, <2>1, <2>2 DEF ConnectTimesOut
<1>9. CASE NoUpstream(m)
  <2>1. req' \in [Messages -> Trips]
    BY <1>7, <1>9 DEF NoUpstream
  <2> QED  BY <1>9, <2>1 DEF NoUpstream
<1>10. CASE ConnectionLost(m)
  <2>1. req' \in [Messages -> Trips]
    BY <1>7, <1>10 DEF ConnectionLost
  <2> QED  BY <1>2, <1>10, <2>1 DEF ConnectionLost
<1>11. CASE ReadTimeout(m)
  <2>1. req' \in [Messages -> Trips]
    BY <1>7, <1>11 DEF ReadTimeout
  <2>2. faults' \in [FaultKinds -> Nat]
    BY <1>11, CountType DEF ReadTimeout, FaultKinds
  <2> QED  BY <1>2, <1>11, <2>1, <2>2 DEF ReadTimeout
<1> QED
  BY <1>5, <1>6, <1>8, <1>9, <1>10, <1>11

\* Whatever a thread of a server does or meets, the types stay.
LEMMA ThreadType ==
    ASSUME TypeOK, NEW s \in Servers, NEW m \in Messages,
           Serve(s, m) \/ CreateStoreFails(s, m) \/ RedisError(s, m)
    PROVE  TypeOK'
<1> USE DEF TypeOK, serverVars, historyVars
<1>1. ASSUME NEW stage \in ThreadStages, At(s, m, stage)
      PROVE  threads' \in [Servers -> [Messages -> ThreadStages]]
  BY <1>1, ThreadSet
<1>2. \A x \in Statuses \cup {"none", "received", "creating", "calling"} : x \in ThreadStages
  BY DEF ThreadStages
<1>3. "ERROR" \in Statuses /\ Outcomes \subseteq Statuses
  BY DEF Statuses
<1>4. CASE FindStore(s, m)
  BY <1>1, <1>2, <1>4 DEF FindStore
<1>5. CASE CreateStore(s, m)
  BY <1>1, <1>2, <1>5 DEF CreateStore
<1>6. CASE CreateStoreFails(s, m)
  <2>1. faults' \in [FaultKinds -> Nat]
    BY <1>6, CountType DEF CreateStoreFails, FaultKinds
  <2> QED  BY <1>1, <1>2, <1>3, <1>6, <2>1 DEF CreateStoreFails
<1>7. CASE Execute(s, m)
  BY <1>1, <1>2, <1>3, <1>7, BuyOfType DEF Execute
<1>8. CASE NoScript(s, m)
  BY <1>1, <1>2, <1>3, <1>8 DEF NoScript
<1>9. CASE RedisError(s, m)
  <2>1. faults' \in [FaultKinds -> Nat]
    BY <1>9, CountType DEF RedisError, FaultKinds
  <2>2. db' \in Db /\ calls' \subseteq Calls
    BY <1>9, BuyOfType, CallType DEF RedisError
  <2>3. threads' \in [Servers -> [Messages -> ThreadStages]]
    BY <1>1, <1>2, <1>3, <1>9 DEF RedisError
  <2> QED  BY <1>9, <2>1, <2>2, <2>3 DEF RedisError
<1>10. CASE Reply(s, m)
  <2>1. Answered(threads[s][m], s) \in Trips
    BY <1>10, TripTypes DEF Reply
  <2>2. req' \in [Messages -> Trips]
    BY <1>10, <2>1, TripSet DEF Reply
  <2> QED  BY <1>1, <1>2, <1>10, <2>2 DEF Reply
<1> QED
  BY <1>4, <1>5, <1>6, <1>7, <1>8, <1>9, <1>10 DEF Serve

\* Processes that end or start, a reset and a call that come late, leave the types.
LEMMA HostType ==
    ASSUME TypeOK,
           \/ \E s \in Servers : Crash(s) \/ Restart(s) \/ FailTimeout(s)
           \/ RedisRestart \/ LateReset \/ LateCall
    PROVE  TypeOK'
<1> USE DEF TypeOK, serverVars, historyVars
<1>1. ASSUME NEW s \in Servers, Crash(s) PROVE TypeOK'
  <2>1. faults' \in [FaultKinds -> Nat]
    BY <1>1, CountType DEF Crash, FaultKinds
  <2>2. threads' \in [Servers -> [Messages -> ThreadStages]]
    BY <1>1 DEF Crash, NoThread, ThreadStages
  <2>3. calls' \subseteq Calls
    BY <1>1, CallType DEF Crash
  <2> QED  BY <1>1, <2>1, <2>2, <2>3 DEF Crash
<1>2. ASSUME NEW s \in Servers, Restart(s) PROVE TypeOK'
  BY <1>2 DEF Restart
<1>3. ASSUME NEW s \in Servers, FailTimeout(s) PROVE TypeOK'
  BY <1>3, LimitsAssumption DEF FailTimeout
<1>4. CASE RedisRestart
  <2>1. faults' \in [FaultKinds -> Nat]
    BY <1>4, CountType DEF RedisRestart, FaultKinds
  <2> QED  BY <1>4, <2>1 DEF RedisRestart
<1>5. CASE LateReset
  BY <1>5, EmptyDbType DEF LateReset
<1>6. CASE LateCall
  <2>1. PICK c \in calls : /\ calls' = calls \ {c}
                           /\ db' = IF scripts THEN BuyOf(c.by, c.of) ELSE db
    BY <1>6 DEF LateCall, BuyOf
  <2>2. c.by \in Servers /\ c.of \in Messages
    BY DEF Calls
  <2>3. db' \in Db
    BY <2>1, <2>2, BuyOfType
  <2> QED  BY <1>6, <2>1, <2>3 DEF LateCall
<1> QED
  BY <1>1, <1>2, <1>3, <1>4, <1>5, <1>6

\* A request is at one of its stages, a thread at one of its, and only what
\* the scripts can answer is ever answered.
THEOREM TypeCorrect == Spec => []TypeOK
<1>1. Init => TypeOK
  <2> SUFFICES ASSUME Init PROVE TypeOK
    OBVIOUS
  <2>1. db \in Db /\ scripts \in BOOLEAN /\ req \in [Messages -> Trips]
    BY EmptyDbType, TripTypes DEF Init
  <2>2. /\ alive \in [Servers -> BOOLEAN] /\ store \in [Servers -> BOOLEAN]
        /\ threads \in [Servers -> [Messages -> ThreadStages]] /\ calls \subseteq Calls
    BY DEF Init, NoThread, ThreadStages
  <2>3. fails \in [Servers -> 0..MaxFails] /\ faults \in [FaultKinds -> Nat]
    BY LimitsAssumption DEF Init
  <2>4. run \in 0..Len(Benchmarks)
    BY BenchmarksAssumption DEF Init
  <2> QED  BY <2>1, <2>2, <2>3, <2>4 DEF Init, TypeOK
<1>2. TypeOK /\ [Next]_vars => TypeOK'
  <2> SUFFICES ASSUME TypeOK, [Next]_vars PROVE TypeOK'
    OBVIOUS
  <2>1. CASE UNCHANGED vars
    BY <2>1 DEF vars, serverVars, historyVars, TypeOK
  <2>2. CASE Next
    BY <2>2, ClientType, BalancerType, ThreadType, HostType DEF Next, Balance, Failure
  <2> QED  BY <2>1, <2>2
<1> QED
  BY <1>1, <1>2, PTL DEF Spec

-----------------------------------------------------------------------------
(* Answers.  A line of a later run, or of a run that is still resetting,   *)
(* has not left the client, and a request NGINX has yet to place is in no  *)
(* thread: so a reset finds no outcome of the run it starts.               *)

FutureUnsent ==
    \A m \in Messages : m[1] > run \/ (m[1] = run /\ pc = "resetting") => req[m] = Unsent

UnplacedInNoThread ==
    \A m \in Messages :
        Stage(m) \in {"unsent", "balancing"} =>
            req[m].status = "nil" /\ \A s \in Servers : threads[s][m] = "none"

ThreadsMatchLedger ==
    reset # "struck" =>
        \A m \in Lines, s \in Servers :
            threads[s][m] \in Outcomes => threads[s][m] = Outcome(db, Op(m))

AnswersInv == FutureUnsent /\ UnplacedInNoThread /\ ThreadsMatchLedger /\ AnswersMatchLedger

\* The steps that neither reset the ledger nor begin a run.
WithinRun ==
    /\ run' = run /\ (pc' = "resetting" => pc = "resetting")
    /\ reset' # "struck" => reset # "struck" \/ pc = "resetting"
    /\ \A p \in Purchases : Outcome(db, p) # "nil" => Outcome(db', p) = Outcome(db, p)

\* NGINX neither begins nor ends a run, and never touches Redis.
LEMMA BalancerIsWithinRun ==
    ASSUME NEW m \in Messages,
           \/ \E s \in Servers : Forward(m, s) \/ ConnectFails(m, s) \/ ConnectTimesOut(m, s)
           \/ NoUpstream(m) \/ ConnectionLost(m) \/ ReadTimeout(m)
    PROVE  WithinRun /\ pc' = pc /\ UNCHANGED db
BY DEF Forward, ConnectFails, ConnectTimesOut, NoUpstream, ConnectionLost, ReadTimeout,
       WithinRun, Outcome

\* A script changes no outcome that is decided.
LEMMA ScriptKeepsOutcomes ==
    ASSUME db \in Db, NEW s \in Servers, NEW m \in Messages, NEW p \in Purchases,
           Outcome(db, p) # "nil"
    PROVE  Outcome(BuyOf(s, m), p) = Outcome(db, p)
<1>1. Op(m) \in Purchases /\ s \in Stores
  BY MessageType, ServerType
<1> QED  BY <1>1, BuyOutcomes DEF BuyOf

\* What a late call does to the keys is a script or nothing.
LEMMA LateCallTouches ==
    ASSUME TypeOK, LateCall
    PROVE  \E c \in calls :
              /\ calls' = calls \ {c} /\ c.by \in Servers /\ c.of \in Messages
              /\ db' = db \/ db' = BuyOf(c.by, c.of)
<1>1. PICK c \in calls : /\ calls' = calls \ {c}
                         /\ db' = IF scripts THEN BuyOf(c.by, c.of) ELSE db
  BY DEF LateCall, BuyOf
<1>2. c.by \in Servers /\ c.of \in Messages
  BY DEF Calls, TypeOK
<1> QED  BY <1>1, <1>2

\* A server's thread neither begins nor ends a run.
LEMMA ThreadIsWithinRun ==
    ASSUME TypeOK, NEW s \in Servers, NEW m \in Messages,
           Serve(s, m) \/ CreateStoreFails(s, m) \/ RedisError(s, m)
    PROVE  WithinRun /\ pc' = pc
<1>1. db' = db \/ db' = BuyOf(s, m)
  BY DEF Serve, FindStore, CreateStore, CreateStoreFails, Execute, NoScript, RedisError, Reply
<1>2. \A p \in Purchases : Outcome(db, p) # "nil" => Outcome(db', p) = Outcome(db, p)
  BY <1>1, ScriptKeepsOutcomes DEF Outcome, TypeOK
<1>3. UNCHANGED <<run, pc, reset>>
  BY DEF Serve, FindStore, CreateStore, CreateStoreFails, Execute, NoScript, RedisError, Reply
<1> QED
  BY <1>2, <1>3 DEF WithinRun

\* Such a step keeps the invariant if what it does to the requests does.
LEMMA KeepsAnswers ==
    ASSUME TypeOK, AnswersInv, WithinRun,
           \A m \in Messages, s \in Servers :
              threads'[s][m] \in Outcomes =>
                 threads'[s][m] \in {threads[s][m], Outcome(db', Op(m))},
           \A m \in Messages :
              req'[m].status \in Outcomes =>
                 \/ req'[m].status = req[m].status
                 \/ \E s \in Servers : req'[m].status = threads[s][m],
           UnplacedInNoThread',
           FutureUnsent'
    PROVE  AnswersInv'
<1>1. \A m \in Messages : m \in Lines' => m \in Lines /\ Op(m) \in Purchases
  BY MessageType DEF Lines, WithinRun
<1>2. ASSUME NEW m \in Lines, pc = "resetting"
      PROVE  req[m].status = "nil" /\ \A s \in Servers : threads[s][m] = "none"
  BY <1>2 DEF AnswersInv, FutureUnsent, UnplacedInNoThread, Lines, Stage, Unsent
<1>3. \A x \in Outcomes : x # "nil" /\ x # "none"
  BY DEF Outcomes
<1>4. ASSUME reset' # "struck", NEW m \in Lines', NEW s \in Servers, threads'[s][m] \in Outcomes
      PROVE  threads'[s][m] = Outcome(db', Op(m))
  <2>1. m \in Lines /\ m \in Messages /\ Op(m) \in Purchases
    BY <1>1, <1>4 DEF Lines
  <2>2. CASE threads'[s][m] = threads[s][m]
    <3>1. reset # "struck"
      BY <1>2, <1>3, <1>4, <2>1, <2>2 DEF WithinRun
    <3>2. threads[s][m] = Outcome(db, Op(m))
      BY <1>4, <2>1, <2>2, <3>1 DEF AnswersInv, ThreadsMatchLedger
    <3> QED  BY <1>3, <1>4, <2>1, <2>2, <3>2 DEF WithinRun
  <2> QED  BY <1>4, <2>1, <2>2
<1>5. ASSUME reset' # "struck", NEW m \in Lines', req'[m].status \in Outcomes
      PROVE  req'[m].status = Outcome(db', Op(m))
  <2>1. m \in Lines /\ m \in Messages /\ Op(m) \in Purchases
    BY <1>1, <1>5 DEF Lines
  <2>2. reset # "struck"
    BY <1>2, <1>3, <1>5, <2>1 DEF WithinRun
  <2>3. req'[m].status = Outcome(db, Op(m))
    BY <1>5, <2>1, <2>2 DEF AnswersInv, ThreadsMatchLedger, AnswersMatchLedger
  <2> QED  BY <1>3, <1>5, <2>1, <2>3 DEF WithinRun
<1> QED
  BY <1>4, <1>5 DEF AnswersInv, ThreadsMatchLedger, AnswersMatchLedger

\* What an answer given by NGINX or a server leaves of the invariant.
LEMMA KeepsFuture ==
    ASSUME TypeOK, FutureUnsent, NEW m \in Messages, Stage(m) # "unsent",
           run' = run, pc' = pc, NEW r, req' = [req EXCEPT ![m] = r]
    PROVE  FutureUnsent'
<1>1. req[m] # Unsent
  BY DEF Stage, Unsent
<1>2. \A n \in Messages : n # m => req'[n] = req[n]
  BY DEF TypeOK
<1> QED
  BY <1>1, <1>2 DEF FutureUnsent

\* What NGINX passes on is what a server answered: it keeps AnswersInv.
LEMMA BalancerAnswers ==
    ASSUME TypeOK, AnswersInv, NEW m \in Messages,
           \/ \E s \in Servers : Forward(m, s) \/ ConnectFails(m, s) \/ ConnectTimesOut(m, s)
           \/ NoUpstream(m) \/ ConnectionLost(m) \/ ReadTimeout(m)
    PROVE  AnswersInv'
<1> USE DEF TypeOK
<1>1. WithinRun /\ pc' = pc /\ run' = run
  BY BalancerIsWithinRun DEF WithinRun
<1>2. /\ "ERROR" \notin Outcomes /\ "nil" \notin Outcomes /\ "received" \notin Outcomes
  BY DEF Outcomes
<1>3. ASSUME NEW s \in Servers, Forward(m, s) PROVE AnswersInv'
  <2>1. /\ req' = [req EXCEPT ![m] = Sent(req[m].tried \cup {s}, s)]
        /\ threads' = [threads EXCEPT ![s][m] = "received"] /\ Stage(m) = "balancing"
    BY <1>3 DEF Forward
  <2>2. FutureUnsent'
    BY <1>1, <2>1, KeepsFuture DEF AnswersInv
  <2>3. UnplacedInNoThread'
    BY <2>1 DEF AnswersInv, UnplacedInNoThread, Stage, Sent
  <2>4. \A n \in Messages, t \in Servers :
           threads'[t][n] \in Outcomes => threads'[t][n] = threads[t][n]
    BY <1>2, <2>1
  <2>5. \A n \in Messages :
           req'[n].status \in Outcomes => req'[n].status = req[n].status
    BY <1>2, <2>1 DEF Sent
  <2> QED  BY <1>1, <2>2, <2>3, <2>4, <2>5, KeepsAnswers
<1>4. ASSUME threads' = threads, Stage(m) \in {"balancing", "sent"}, NEW r, r.status \notin Outcomes,
             r.stage = "done" \/ (r.stage = "balancing" /\ r.status = "nil" /\ Stage(m) = "balancing"),
             req' = [req EXCEPT ![m] = r]
      PROVE  AnswersInv'
  <2>1. FutureUnsent'
    BY <1>1, <1>4, KeepsFuture DEF AnswersInv
  <2>2. UnplacedInNoThread'
    BY <1>4 DEF AnswersInv, UnplacedInNoThread, Stage
  <2>3. \A n \in Messages :
           req'[n].status \in Outcomes => req'[n].status = req[n].status
    BY <1>4
  <2> QED  BY <1>1, <1>4, <2>1, <2>2, <2>3, KeepsAnswers
<1>5. ASSUME NEW s \in Servers, ConnectFails(m, s) PROVE AnswersInv'
  <2>1. Balancing(req[m].tried \cup {s}).stage = "balancing"
        /\ Balancing(req[m].tried \cup {s}).status = "nil"
    BY DEF Balancing, Unsent
  <2> QED  BY <1>2, <1>4, <1>5, <2>1 DEF ConnectFails, serverVars
<1>6. Answered("ERROR", Nobody).stage = "done" /\ Answered("ERROR", Nobody).status = "ERROR"
  BY DEF Answered
<1>7. ASSUME NEW s \in Servers, ConnectTimesOut(m, s) PROVE AnswersInv'
  BY <1>2, <1>4, <1>6, <1>7 DEF ConnectTimesOut, serverVars
<1>8. CASE NoUpstream(m)
  BY <1>2, <1>4, <1>6, <1>8 DEF NoUpstream, serverVars
<1>9. CASE ConnectionLost(m) \/ ReadTimeout(m)
  BY <1>2, <1>4, <1>6, <1>9 DEF ConnectionLost, ReadTimeout, serverVars
<1> QED
  BY <1>3, <1>5, <1>7, <1>8, <1>9

\* A thread answers what its script returned, or an error.
LEMMA ThreadAnswers ==
    ASSUME TypeOK, AnswersInv, NEW s \in Servers, NEW m \in Messages,
           Serve(s, m) \/ CreateStoreFails(s, m) \/ RedisError(s, m)
    PROVE  AnswersInv'
<1> USE DEF TypeOK
<1>1. WithinRun /\ pc' = pc /\ run' = run
  BY ThreadIsWithinRun DEF WithinRun
<1>2. "ERROR" \notin Outcomes /\ "nil" \notin Outcomes /\ "none" \notin Outcomes
      /\ "calling" \notin Outcomes /\ "creating" \notin Outcomes
  BY DEF Outcomes
<1>3. ASSUME threads[s][m] # "none", req' = req, NEW stage, At(s, m, stage),
             stage \notin Outcomes \/ stage = Outcome(db', Op(m))
      PROVE  AnswersInv'
  <2>1. FutureUnsent'
    BY <1>1, <1>3 DEF AnswersInv, FutureUnsent
  <2>2. UnplacedInNoThread'
    BY <1>3 DEF AnswersInv, UnplacedInNoThread, Stage, At
  <2>3. \A n \in Messages, t \in Servers :
           threads'[t][n] \in Outcomes =>
              threads'[t][n] \in {threads[t][n], Outcome(db', Op(n))}
    BY <1>3 DEF At
  <2> QED  BY <1>1, <1>3, <2>1, <2>2, <2>3, KeepsAnswers
<1>4. CASE FindStore(s, m)
  BY <1>2, <1>3, <1>4 DEF FindStore
<1>5. CASE CreateStore(s, m)
  BY <1>2, <1>3, <1>5 DEF CreateStore
<1>6. CASE CreateStoreFails(s, m)
  BY <1>2, <1>3, <1>6 DEF CreateStoreFails
<1>7. CASE Execute(s, m)
  BY <1>2, <1>3, <1>7 DEF Execute
<1>8. CASE NoScript(s, m)
  BY <1>2, <1>3, <1>8 DEF NoScript
<1>9. CASE RedisError(s, m)
  <2>1. CASE At(s, m, "ERROR")
    BY <1>2, <1>3, <1>9, <2>1 DEF RedisError
  <2>2. CASE UNCHANGED threads
    <3>1. FutureUnsent' /\ UnplacedInNoThread' /\ req' = req
      BY <1>1, <1>9, <2>2 DEF RedisError, AnswersInv, FutureUnsent, UnplacedInNoThread, Stage
    <3> QED  BY <1>1, <2>2, <3>1, KeepsAnswers
  <2> QED  BY <1>9, <2>1, <2>2 DEF RedisError
<1>10. CASE Reply(s, m)
  <2>1. /\ At(s, m, "none") /\ threads[s][m] # "none"
        /\ \/ req' = req
           \/ Stage(m) = "sent" /\ req' = [req EXCEPT ![m] = Answered(threads[s][m], s)]
    BY <1>10 DEF Reply, Statuses, Outcomes
  <2>2. CASE req' = req
    BY <1>2, <1>3, <2>1, <2>2
  <2>3. CASE Stage(m) = "sent" /\ req' = [req EXCEPT ![m] = Answered(threads[s][m], s)]
    <3>1. FutureUnsent'
      BY <1>1, <2>3, KeepsFuture DEF AnswersInv
    <3>2. UnplacedInNoThread'
      BY <2>1, <2>3 DEF AnswersInv, UnplacedInNoThread, Stage, At, Answered
    <3>3. \A n \in Messages, t \in Servers :
             threads'[t][n] \in Outcomes => threads'[t][n] = threads[t][n]
      BY <1>2, <2>1 DEF At
    <3>4. \A n \in Messages :
             req'[n].status \in Outcomes =>
                req'[n].status = req[n].status \/ req'[n].status = threads[s][n]
      BY <2>3 DEF Answered
    <3> QED  BY <1>1, <3>1, <3>2, <3>3, <3>4, KeepsAnswers
  <2> QED  BY <2>1, <2>2, <2>3
<1> QED
  BY <1>4, <1>5, <1>6, <1>7, <1>8, <1>9, <1>10 DEF Serve

\* A process that ends forgets answers and changes none, a call that comes late finds its
\* line decided or decides it; a reset that comes late strikes the run, about which
\* AnswersInv then says nothing.
LEMMA HostAnswers ==
    ASSUME TypeOK, AnswersInv,
           \/ \E s \in Servers : Crash(s) \/ Restart(s) \/ FailTimeout(s)
           \/ RedisRestart \/ LateReset \/ LateCall
    PROVE  AnswersInv'
<1> USE DEF TypeOK, serverVars
<1>1. ASSUME NEW s \in Servers, Crash(s) PROVE AnswersInv'
  <2>1. WithinRun /\ req' = req /\ pc' = pc /\ run' = run
    BY <1>1 DEF Crash, WithinRun, Outcome
  <2>2. threads' = [threads EXCEPT ![s] = NoThread]
    BY <1>1 DEF Crash
  <2>3. \A n \in Messages, t \in Servers : threads'[t][n] \in {threads[t][n], "none"}
    BY <2>2 DEF NoThread
  <2>4. FutureUnsent' /\ UnplacedInNoThread'
    BY <2>1, <2>3 DEF AnswersInv, FutureUnsent, UnplacedInNoThread, Stage
  <2> QED  BY <2>1, <2>3, <2>4, KeepsAnswers DEF Outcomes
<1>2. CASE (\E s \in Servers : Restart(s) \/ FailTimeout(s)) \/ RedisRestart
  <2>1. UNCHANGED <<db, threads, req, pc, run, reset>>
    BY <1>2 DEF Restart, FailTimeout, RedisRestart
  <2> QED
    BY <2>1 DEF AnswersInv, FutureUnsent, UnplacedInNoThread, ThreadsMatchLedger,
                AnswersMatchLedger, Stage, Lines, Outcome
<1>3. CASE LateReset
  BY <1>3 DEF LateReset, AnswersInv, FutureUnsent, UnplacedInNoThread, ThreadsMatchLedger,
              AnswersMatchLedger, Stage
<1>4. CASE LateCall
  <2>1. UNCHANGED <<threads, req, pc, run, reset>>
    BY <1>4 DEF LateCall
  <2>2. \A p \in Purchases : Outcome(db, p) # "nil" => Outcome(db', p) = Outcome(db, p)
    BY <1>4, LateCallTouches, ScriptKeepsOutcomes DEF Outcome
  <2>3. WithinRun
    BY <2>1, <2>2 DEF WithinRun
  <2>4. FutureUnsent' /\ UnplacedInNoThread'
    BY <2>1 DEF AnswersInv, FutureUnsent, UnplacedInNoThread, Stage
  <2> QED  BY <2>1, <2>3, <2>4, KeepsAnswers
<1> QED
  BY <1>1, <1>2, <1>3, <1>4

\* A new run begins with nothing answered, over keys that know nothing of it unless its
\* reset has failed.
LEMMA ClientAnswers ==
    ASSUME TypeOK, AnswersInv, Client
    PROVE  AnswersInv'
<1> USE DEF TypeOK, serverVars
<1>1. \A m \in Messages : m[1] \in 1..Len(Benchmarks)
  BY MessageType
<1>2. "nil" \notin Outcomes /\ "none" \notin Outcomes
  BY DEF Outcomes
<1>3. CASE BeginRun
  <2>1. UNCHANGED <<req, threads, db>> /\ run' = run + 1 /\ run \in Nat /\ pc' = "resetting"
    BY <1>3, BenchmarksAssumption DEF BeginRun
  <2>2. \A m \in Messages : m[1] > run \/ m[1] = run + 1 => req[m] = Unsent
    BY <1>1, <2>1 DEF AnswersInv, FutureUnsent
  <2>3. FutureUnsent' /\ UnplacedInNoThread'
    BY <1>1, <2>1, <2>2 DEF AnswersInv, FutureUnsent, UnplacedInNoThread, Stage
  <2>4. \A m \in Lines' : req[m].status = "nil" /\ \A s \in Servers : threads[s][m] = "none"
    BY <2>1, <2>2 DEF Lines, AnswersInv, UnplacedInNoThread, Stage, Unsent
  <2> QED
    BY <1>2, <2>1, <2>3, <2>4 DEF AnswersInv, ThreadsMatchLedger, AnswersMatchLedger
<1>4. CASE ResetDone
  <2>1. UNCHANGED <<req, threads, run, reset>> /\ pc' = "sending" /\ pc = "resetting"
    BY <1>4 DEF ResetDone
  <2>2. FutureUnsent' /\ UnplacedInNoThread'
    BY <2>1 DEF AnswersInv, FutureUnsent, UnplacedInNoThread, Stage
  <2>3. \A m \in Lines : req[m].status = "nil" /\ \A s \in Servers : threads[s][m] = "none"
    BY <2>1 DEF Lines, AnswersInv, FutureUnsent, UnplacedInNoThread, Stage, Unsent
  <2> QED
    BY <1>2, <2>1, <2>2, <2>3 DEF AnswersInv, ThreadsMatchLedger, AnswersMatchLedger, Lines
<1>5. CASE ResetGivenUp
  <2>1. UNCHANGED <<req, threads, run, db>> /\ pc' = "sending" /\ pc = "resetting"
    BY <1>5 DEF ResetGivenUp
  <2>2. FutureUnsent' /\ UnplacedInNoThread'
    BY <2>1 DEF AnswersInv, FutureUnsent, UnplacedInNoThread, Stage
  <2>3. \A m \in Lines : req[m].status = "nil" /\ \A s \in Servers : threads[s][m] = "none"
    BY <2>1 DEF Lines, AnswersInv, FutureUnsent, UnplacedInNoThread, Stage, Unsent
  <2> QED
    BY <1>2, <2>1, <2>2, <2>3 DEF AnswersInv, ThreadsMatchLedger, AnswersMatchLedger, Lines
<1>6. CASE Send
  <2>1. PICK m \in Lines : Stage(m) = "unsent" /\ req' = [req EXCEPT ![m] = Balancing({})]
    BY <1>6 DEF Send
  <2>2. UNCHANGED <<threads, run, db, pc, reset>> /\ pc = "sending"
    BY <1>6 DEF Send
  <2>3. WithinRun
    BY <2>2 DEF WithinRun, Outcome
  <2>4. Balancing({}).stage = "balancing" /\ Balancing({}).status = "nil"
    BY DEF Balancing, Unsent
  <2>5. FutureUnsent'
    BY <1>1, <2>1, <2>2 DEF Lines, AnswersInv, FutureUnsent
  <2>6. UnplacedInNoThread'
    BY <2>1, <2>2, <2>4 DEF Lines, AnswersInv, UnplacedInNoThread, Stage
  <2>7. \A n \in Messages : req'[n].status \in Outcomes => req'[n].status = req[n].status
    BY <1>2, <2>1, <2>4 DEF Lines
  <2> QED  BY <2>2, <2>3, <2>5, <2>6, <2>7, KeepsAnswers
<1>7. CASE Finish
  <2>1. UNCHANGED <<db, threads, req, run, reset>> /\ pc' # "resetting"
    BY <1>7 DEF Finish
  <2> QED
    BY <2>1 DEF AnswersInv, FutureUnsent, UnplacedInNoThread, ThreadsMatchLedger,
                AnswersMatchLedger, Stage, Lines, Outcome
<1> QED
  BY <1>3, <1>4, <1>5, <1>6, <1>7 DEF Client

\* The ledger agrees with what threads are about to answer, too.
LEMMA AnswersHold == Spec => []AnswersInv
<1>1. Init => AnswersInv
  <2> SUFFICES ASSUME Init PROVE AnswersInv
    OBVIOUS
  <2>1. \A m \in Messages : m[1] > run /\ req[m] = Unsent
    BY MessageType DEF Init
  <2>2. \A m \in Messages, s \in Servers : threads[s][m] = "none"
    BY DEF Init, NoThread
  <2>3. Unsent.status = "nil" /\ "nil" \notin Outcomes /\ "none" \notin Outcomes
    BY DEF Unsent, Outcomes
  <2> QED
    BY <2>1, <2>2, <2>3 DEF AnswersInv, FutureUnsent, UnplacedInNoThread, ThreadsMatchLedger,
                            AnswersMatchLedger, Lines
<1>2. TypeOK /\ AnswersInv /\ [Next]_vars => AnswersInv'
  <2> SUFFICES ASSUME TypeOK, AnswersInv, [Next]_vars PROVE AnswersInv'
    OBVIOUS
  <2>1. CASE UNCHANGED vars
    BY <2>1 DEF vars, serverVars, AnswersInv, FutureUnsent, UnplacedInNoThread,
                ThreadsMatchLedger, AnswersMatchLedger, Stage, Lines, Outcome
  <2>2. CASE Next
    BY <2>2, ClientAnswers, BalancerAnswers, ThreadAnswers, HostAnswers DEF Next, Balance, Failure
  <2> QED  BY <2>1, <2>2
<1> QED
  BY <1>1, <1>2, TypeCorrect, PTL DEF Spec

\* In a run no late reset strikes, the client is told what the ledger says.
THEOREM AnswersAreTrue == Spec => []AnswersMatchLedger
<1>1. AnswersInv => AnswersMatchLedger
  BY DEF AnswersInv
<1> QED
  BY <1>1, AnswersHold, PTL

-----------------------------------------------------------------------------
(* Crashes.  While only servers fail and one has never crashed, every mark *)
(* of a failure (a server down, out of rotation, already tried) is left by *)
(* a crash, so there is always a server to turn to; and no server raises.  *)

Calm == OnlyServersFail /\ SomeServerStands

MarksAreOfCrashes ==
    /\ \A s \in Servers : ~alive[s] \/ fails[s] > 0 => s \in crashed
    /\ \A m \in Messages : Stage(m) = "balancing" => req[m].tried \subseteq crashed

ScriptsAreLoaded ==
    \A s \in Servers :
        /\ store[s] => scripts
        /\ \A m \in Messages :
              threads[s][m] # "ERROR" /\ (threads[s][m] = "calling" => scripts)

LostToCrashes ==
    \A m \in Messages :
        Stage(m) = "sent" =>
            /\ req[m].at \in Servers
            /\ threads[req[m].at][m] = "none" => m \in struck /\ req[m].at \in crashed

OnlyStruckFail == \A m \in Messages : req[m].status = "ERROR" => m \in struck

CrashInv ==
    /\ IsFiniteSet(crashed)
    /\ Calm => MarksAreOfCrashes /\ ScriptsAreLoaded /\ LostToCrashes /\ OnlyStruckFail

\* Servers that have crashed stay on record, and a calm past is one in which only crashes
\* have happened.
LEMMA CrashesAccumulate ==
    ASSUME TypeOK, CrashInv,
           \/ UNCHANGED <<crashed, faults>>
           \/ \E s \in Servers : crashed' = crashed \cup {s} /\ Fault("crash")
    PROVE  IsFiniteSet(crashed') /\ (Calm' => Calm)
<1>1. CASE UNCHANGED <<crashed, faults>>
  BY <1>1 DEF CrashInv, Calm, OnlyServersFail, SomeServerStands
<1>2. ASSUME NEW s \in Servers, crashed' = crashed \cup {s}, Fault("crash")
      PROVE  IsFiniteSet(crashed') /\ (Calm' => Calm)
  <2>1. IsFiniteSet(crashed')
    BY <1>2, FS_AddElement DEF CrashInv
  <2>2. Cardinality(crashed) \in Nat /\ Cardinality(crashed') \in Nat
        /\ Cardinality(crashed) <= Cardinality(crashed')
    BY <1>2, <2>1, FS_CardinalityType, FS_Subset DEF CrashInv
  <2>3. faults' = [faults EXCEPT !["crash"] = @ + 1]
    BY <1>2, FaultCounts
  <2>4. OnlyServersFail' => OnlyServersFail
    BY <2>3 DEF OnlyServersFail, TypeOK
  <2>5. SomeServerStands' => SomeServerStands
    BY <1>2, <2>2, LimitsAssumption DEF SomeServerStands, TypeOK
  <2> QED  BY <2>1, <2>4, <2>5 DEF Calm
<1> QED
  BY <1>1, <1>2

\* Any other fault ends what is said here.
LEMMA OtherFaults ==
    ASSUME TypeOK, NEW kind \in FaultKinds \ {"crash"}, Fault(kind)
    PROVE  ~Calm'
<1>1. faults' = [faults EXCEPT ![kind] = @ + 1]
  BY FaultCounts
<1>2. faults'[kind] # 0
  BY <1>1 DEF TypeOK
<1> QED
  BY <1>2 DEF Calm, OnlyServersFail

\* There is a server to turn to.
LEMMA SomeUpstream ==
    ASSUME TypeOK, CrashInv, Calm, NEW m \in Messages, Stage(m) = "balancing"
    PROVE  Upstreams(m) # {}
<1>1. req[m].tried \subseteq crashed /\ IsFiniteSet(crashed)
  BY DEF CrashInv, MarksAreOfCrashes
<1>2. Cardinality(req[m].tried) < Tries
  <2>1. /\ Cardinality(req[m].tried) <= Cardinality(crashed) /\ Cardinality(crashed) \in Nat
        /\ Cardinality(req[m].tried) \in Nat
    BY <1>1, FS_Subset, FS_CardinalityType
  <2> QED  BY <2>1, LimitsAssumption DEF Calm, SomeServerStands
<1>3. PICK s \in Servers : s \notin crashed
  BY DEF Calm, SomeServerStands, TypeOK
<1>4. fails[s] < MaxFails
  <2>1. ~(fails[s] > 0)
    BY <1>3 DEF CrashInv, MarksAreOfCrashes
  <2> QED  BY <2>1, LimitsAssumption DEF TypeOK
<1> QED
  BY <1>1, <1>2, <1>3, <1>4 DEF Upstreams

\* In a calm run NGINX fails no request that was not on a crashed server: there is
\* always one left to try.
LEMMA BalancerCrashes ==
    ASSUME TypeOK, CrashInv, NEW m \in Messages, Balance(m)
    PROVE  CrashInv'
<1> USE DEF TypeOK, serverVars, historyVars
<1>1. UNCHANGED <<crashed, faults, struck, scripts, store, alive>>
  BY DEF Balance, Forward, ConnectFails, NoUpstream, ConnectionLost
<1>2. IsFiniteSet(crashed') /\ (Calm' => Calm)
  BY <1>1, CrashesAccumulate
<1> SUFFICES ASSUME Calm
             PROVE  MarksAreOfCrashes' /\ ScriptsAreLoaded' /\ LostToCrashes' /\ OnlyStruckFail'
  BY <1>2 DEF CrashInv
<1>3. MarksAreOfCrashes /\ ScriptsAreLoaded /\ LostToCrashes /\ OnlyStruckFail
  BY DEF CrashInv
<1>4. ASSUME NEW s \in Servers, Forward(m, s)
      PROVE  MarksAreOfCrashes' /\ ScriptsAreLoaded' /\ LostToCrashes' /\ OnlyStruckFail'
  <2>1. /\ req' = [req EXCEPT ![m] = Sent(req[m].tried \cup {s}, s)]
        /\ threads' = [threads EXCEPT ![s][m] = "received"] /\ fails' = fails
    BY <1>4 DEF Forward
  <2>2. MarksAreOfCrashes'
    BY <1>1, <1>3, <2>1 DEF MarksAreOfCrashes, Stage, Sent
  <2>3. ScriptsAreLoaded'
    BY <1>1, <1>3, <2>1 DEF ScriptsAreLoaded
  <2>4. LostToCrashes'
    <3>1. ASSUME NEW n \in Messages, n # m, Stage(n)' = "sent"
          PROVE  /\ req'[n].at \in Servers
                 /\ threads'[req'[n].at][n] = "none" => n \in struck' /\ req'[n].at \in crashed'
      <4>1. req'[n] = req[n] /\ \A t \in Servers : threads'[t][n] = threads[t][n]
        BY <2>1, <3>1
      <4> QED  BY <1>1, <1>3, <3>1, <4>1 DEF LostToCrashes, Stage
    <3>2. req'[m].at = s /\ threads'[s][m] # "none"
      BY <2>1 DEF Sent
    <3> QED  BY <3>1, <3>2 DEF LostToCrashes
  <2>5. OnlyStruckFail'
    BY <1>1, <1>3, <2>1 DEF OnlyStruckFail, Sent
  <2> QED  BY <2>2, <2>3, <2>4, <2>5
<1>5. ASSUME threads' = threads, NEW r, req' = [req EXCEPT ![m] = r], r.stage # "sent",
             r.stage = "balancing" => r.tried \subseteq crashed,
             r.status = "ERROR" => m \in struck,
             \A s \in Servers : fails'[s] > 0 => fails[s] > 0 \/ s \in crashed
      PROVE  MarksAreOfCrashes' /\ ScriptsAreLoaded' /\ LostToCrashes' /\ OnlyStruckFail'
  <2>1. MarksAreOfCrashes'
    BY <1>1, <1>3, <1>5 DEF MarksAreOfCrashes, Stage
  <2>2. ScriptsAreLoaded'
    BY <1>1, <1>3, <1>5 DEF ScriptsAreLoaded
  <2>3. LostToCrashes' /\ OnlyStruckFail'
    BY <1>1, <1>3, <1>5 DEF LostToCrashes, OnlyStruckFail, Stage
  <2> QED  BY <2>1, <2>2, <2>3
<1>6. Answered("ERROR", Nobody).stage = "done"
  BY DEF Answered
<1>7. ASSUME NEW s \in Servers, ConnectFails(m, s)
      PROVE  MarksAreOfCrashes' /\ ScriptsAreLoaded' /\ LostToCrashes' /\ OnlyStruckFail'
  <2>1. s \in crashed /\ req[m].tried \subseteq crashed
    BY <1>3, <1>7 DEF MarksAreOfCrashes, ConnectFails
  <2>2. \A t \in Servers : fails'[t] > 0 => fails[t] > 0 \/ t \in crashed
    BY <1>7, <2>1, FailedType DEF ConnectFails
  <2> DEFINE r == Balancing(req[m].tried \cup {s})
  <2>3. r.stage = "balancing" /\ r.tried = req[m].tried \cup {s} /\ r.status = "nil"
    BY DEF Balancing, Unsent
  <2>4. req' = [req EXCEPT ![m] = r] /\ threads' = threads
    BY <1>7 DEF ConnectFails
  <2> HIDE DEF r
  <2> QED  BY <1>5, <2>1, <2>2, <2>3, <2>4
<1>8. CASE NoUpstream(m)
  BY <1>8, SomeUpstream DEF NoUpstream
<1>9. CASE ConnectionLost(m)
  <2>1. m \in struck /\ req[m].at \in crashed
    BY <1>3, <1>9 DEF LostToCrashes, ConnectionLost
  <2>2. \A t \in Servers : fails'[t] > 0 => fails[t] > 0 \/ t \in crashed
    BY <1>9, <2>1, FailedType DEF ConnectionLost
  <2>3. req' = [req EXCEPT ![m] = Answered("ERROR", Nobody)] /\ threads' = threads
    BY <1>9 DEF ConnectionLost
  <2> QED  BY <1>5, <1>6, <2>1, <2>2, <2>3
<1> QED
  BY <1>4, <1>7, <1>8, <1>9 DEF Balance

\* In a calm run a server answers every request with its outcome.
LEMMA ServeCrashes ==
    ASSUME TypeOK, CrashInv, NEW s \in Servers, NEW m \in Messages, Serve(s, m)
    PROVE  CrashInv'
<1> USE DEF TypeOK, serverVars, historyVars
<1>1. UNCHANGED <<crashed, faults, struck, alive, fails>>
  BY DEF Serve, FindStore, CreateStore, Execute, NoScript, Reply
<1>2. IsFiniteSet(crashed') /\ (Calm' => Calm)
  BY <1>1, CrashesAccumulate
<1> SUFFICES ASSUME Calm
             PROVE  MarksAreOfCrashes' /\ ScriptsAreLoaded' /\ LostToCrashes' /\ OnlyStruckFail'
  BY <1>2 DEF CrashInv
<1>3. MarksAreOfCrashes /\ ScriptsAreLoaded /\ LostToCrashes /\ OnlyStruckFail
  BY DEF CrashInv
<1>4. ASSUME req' = req, NEW stage, At(s, m, stage), stage \notin {"none", "ERROR"},
             scripts => scripts', stage = "calling" => scripts',
             \A t \in Servers : store'[t] => store[t] \/ scripts'
      PROVE  MarksAreOfCrashes' /\ ScriptsAreLoaded' /\ LostToCrashes' /\ OnlyStruckFail'
  <2>1. MarksAreOfCrashes' /\ OnlyStruckFail'
    BY <1>1, <1>3, <1>4 DEF MarksAreOfCrashes, OnlyStruckFail, Stage
  <2>2. ScriptsAreLoaded'
    BY <1>3, <1>4 DEF ScriptsAreLoaded, At
  <2>3. LostToCrashes'
    BY <1>1, <1>3, <1>4 DEF LostToCrashes, Stage, At
  <2> QED  BY <2>1, <2>2, <2>3
<1>5. CASE FindStore(s, m)
  BY <1>3, <1>4, <1>5 DEF FindStore, ScriptsAreLoaded
<1>6. CASE CreateStore(s, m)
  BY <1>4, <1>6 DEF CreateStore
<1>7. CASE Execute(s, m)
  <2>1. Outcome(BuyOf(s, m), Op(m)) \notin {"none", "ERROR", "calling"}
    BY BuyOfType DEF Outcomes
  <2> QED  BY <1>4, <1>7, <2>1 DEF Execute
<1>8. CASE NoScript(s, m)
  BY <1>3, <1>8 DEF NoScript, ScriptsAreLoaded
<1>9. CASE Reply(s, m)
  <2>1. /\ threads' = [threads EXCEPT ![s][m] = "none"] /\ UNCHANGED <<scripts, store>>
        /\ threads[s][m] # "ERROR"
    BY <1>3, <1>9 DEF Reply, At, ScriptsAreLoaded
  <2>2. ScriptsAreLoaded'
    BY <1>3, <2>1 DEF ScriptsAreLoaded
  <2>3. CASE Stage(m) = "sent" /\ req[m].at = s
    <3>1. req' = [req EXCEPT ![m] = Answered(threads[s][m], s)]
      BY <1>9, <2>3 DEF Reply
    <3>2. Answered(threads[s][m], s).stage = "done" /\ Answered(threads[s][m], s).status # "ERROR"
      BY <2>1 DEF Answered
    <3>3. MarksAreOfCrashes' /\ OnlyStruckFail'
      BY <1>1, <1>3, <3>1, <3>2 DEF MarksAreOfCrashes, OnlyStruckFail, Stage
    <3>4. LostToCrashes'
      <4>1. ASSUME NEW n \in Messages, Stage(n)' = "sent"
            PROVE  n # m /\ req'[n] = req[n] /\ \A t \in Servers : threads'[t][n] = threads[t][n]
        BY <2>1, <3>1, <3>2, <4>1 DEF Stage
      <4> QED  BY <1>1, <1>3, <4>1 DEF LostToCrashes, Stage
    <3> QED  BY <2>2, <3>3, <3>4
  <2>4. CASE ~(Stage(m) = "sent" /\ req[m].at = s)
    <3>1. req' = req
      BY <1>9, <2>4 DEF Reply
    <3>2. MarksAreOfCrashes' /\ OnlyStruckFail'
      BY <1>1, <1>3, <3>1 DEF MarksAreOfCrashes, OnlyStruckFail, Stage
    <3>3. LostToCrashes'
      BY <1>1, <1>3, <2>1, <2>4, <3>1 DEF LostToCrashes, Stage
    <3> QED  BY <2>2, <3>2, <3>3
  <2> QED  BY <2>3, <2>4
<1> QED
  BY <1>5, <1>6, <1>7, <1>8, <1>9 DEF Serve

\* A crash marks the requests it meets; other failures end the calm.
LEMMA FailureCrashes ==
    ASSUME TypeOK, CrashInv, Failure
    PROVE  CrashInv'
<1> USE DEF TypeOK, serverVars, historyVars
<1>1. ASSUME NEW s \in Servers, Crash(s) PROVE CrashInv'
  <2>1. IsFiniteSet(crashed') /\ (Calm' => Calm)
    BY <1>1, CrashesAccumulate DEF Crash
  <2> SUFFICES ASSUME Calm
               PROVE  MarksAreOfCrashes' /\ ScriptsAreLoaded' /\ LostToCrashes' /\ OnlyStruckFail'
    BY <2>1 DEF CrashInv
  <2>2. MarksAreOfCrashes /\ ScriptsAreLoaded /\ LostToCrashes /\ OnlyStruckFail
    BY DEF CrashInv
  <2>3. /\ alive' = [alive EXCEPT ![s] = FALSE] /\ store' = [store EXCEPT ![s] = FALSE]
        /\ threads' = [threads EXCEPT ![s] = NoThread]
        /\ crashed' = crashed \cup {s} /\ UNCHANGED <<req, fails, scripts>>
        /\ struck' = struck \cup {m \in Messages : threads[s][m] # "none"}
    BY <1>1 DEF Crash
  <2>4. MarksAreOfCrashes' /\ OnlyStruckFail'
    BY <2>2, <2>3 DEF MarksAreOfCrashes, OnlyStruckFail, Stage
  <2>5. ScriptsAreLoaded'
    BY <2>2, <2>3 DEF ScriptsAreLoaded, NoThread
  <2>6. LostToCrashes'
    <3>1. ASSUME NEW n \in Messages, Stage(n) = "sent", req[n].at = s
          PROVE  n \in struck' /\ req[n].at \in crashed'
      BY <2>2, <2>3, <3>1 DEF LostToCrashes
    <3>2. ASSUME NEW n \in Messages, Stage(n) = "sent", req[n].at # s,
                 threads'[req[n].at][n] = "none"
          PROVE  n \in struck' /\ req[n].at \in crashed'
      BY <2>2, <2>3, <3>2 DEF LostToCrashes
    <3> QED  BY <2>2, <2>3, <3>1, <3>2 DEF LostToCrashes, Stage
  <2> QED  BY <2>4, <2>5, <2>6
<1>2. ASSUME NEW kind \in FaultKinds \ {"crash"}, Fault(kind), crashed' = crashed PROVE CrashInv'
  BY <1>2, OtherFaults DEF CrashInv
<1>3. ASSUME NEW s \in Servers, NEW m \in Messages, CreateStoreFails(s, m) \/ RedisError(s, m)
      PROVE  CrashInv'
  BY <1>2, <1>3 DEF CreateStoreFails, RedisError, FaultKinds
<1>4. ASSUME NEW m \in Messages, ReadTimeout(m) \/ \E s \in Servers : ConnectTimesOut(m, s)
      PROVE  CrashInv'
  BY <1>2, <1>4 DEF ReadTimeout, ConnectTimesOut, FaultKinds
<1>5. CASE RedisRestart
  BY <1>2, <1>5 DEF RedisRestart, FaultKinds
<1>6. CASE LateReset \/ LateCall
  <2>1. UNCHANGED <<scripts, serverVars, fails, req, historyVars, faults>>
    BY <1>6 DEF LateReset, LateCall
  <2> QED
    BY <2>1 DEF CrashInv, Calm, OnlyServersFail, SomeServerStands, MarksAreOfCrashes,
                ScriptsAreLoaded, LostToCrashes, OnlyStruckFail, Stage
<1> QED
  BY <1>1, <1>3, <1>4, <1>5, <1>6 DEF Failure

\* The client, a fail_timeout that passes and a restart mark nothing as failed.
LEMMA OtherCrashes ==
    ASSUME TypeOK, CrashInv,
           Client \/ \E s \in Servers : FailTimeout(s) \/ Restart(s)
    PROVE  CrashInv'
<1> USE DEF TypeOK, serverVars, historyVars
<1>1. CASE ResetGivenUp /\ Fault("reset")
  BY <1>1, OtherFaults DEF ResetGivenUp, CrashInv, FaultKinds
<1> SUFFICES ASSUME ~(ResetGivenUp /\ Fault("reset")) PROVE CrashInv'
  BY <1>1
<1>2. UNCHANGED <<crashed, faults, struck, threads>>
  BY DEF Client, BeginRun, ResetDone, ResetGivenUp, Send, Finish, FailTimeout, Restart
<1>3. IsFiniteSet(crashed') /\ (Calm' => Calm)
  BY <1>2, CrashesAccumulate
<1> SUFFICES ASSUME Calm
             PROVE  MarksAreOfCrashes' /\ ScriptsAreLoaded' /\ LostToCrashes' /\ OnlyStruckFail'
  BY <1>3 DEF CrashInv
<1>4. MarksAreOfCrashes /\ ScriptsAreLoaded /\ LostToCrashes /\ OnlyStruckFail
  BY DEF CrashInv
<1>5. /\ \A s \in Servers : (alive[s] => alive'[s]) /\ (fails'[s] > 0 => fails[s] > 0)
      /\ \A s \in Servers : store'[s] => store[s] \/ scripts'
      /\ scripts => scripts'
  <2>1. CASE ResetDone
    <3>1. PICK s \in Servers : /\ store' = [store EXCEPT ![s] = TRUE]
                               /\ scripts' = (scripts \/ ~store[s])
      BY <2>1 DEF ResetDone
    <3>2. scripts \/ ~store[s]
      BY <1>4 DEF ScriptsAreLoaded
    <3>3. scripts'
      BY <3>1, <3>2
    <3> QED  BY <2>1, <3>3 DEF ResetDone
  <2>2. CASE BeginRun \/ ResetGivenUp \/ Send \/ Finish
    BY <2>2 DEF BeginRun, ResetGivenUp, Send, Finish
  <2>3. CASE \E s \in Servers : FailTimeout(s) \/ Restart(s)
    <3>1. UNCHANGED <<scripts, store>>
      BY <2>3 DEF FailTimeout, Restart
    <3>2. \A s \in Servers : alive[s] => alive'[s]
      BY <2>3 DEF FailTimeout, Restart
    <3>3. \A s \in Servers : fails'[s] > 0 => fails[s] > 0
      BY <2>3 DEF FailTimeout, Restart
    <3> QED  BY <3>1, <3>2, <3>3
  <2> QED  BY <2>1, <2>2, <2>3 DEF Client
<1>6. ScriptsAreLoaded'
  BY <1>2, <1>4, <1>5 DEF ScriptsAreLoaded
<1>7. CASE Send
  <2>1. PICK m \in Messages : req' = [req EXCEPT ![m] = Balancing({})]
    BY <1>7 DEF Send, Lines
  <2>2. /\ Balancing({}).stage = "balancing" /\ Balancing({}).tried = {}
        /\ Balancing({}).status = "nil"
    BY DEF Balancing, Unsent
  <2>3. MarksAreOfCrashes'
    BY <1>2, <1>4, <1>5, <2>1, <2>2 DEF MarksAreOfCrashes, Stage
  <2>4. LostToCrashes' /\ OnlyStruckFail'
    BY <1>2, <1>4, <2>1, <2>2 DEF LostToCrashes, OnlyStruckFail, Stage
  <2> QED  BY <1>6, <2>3, <2>4
<1>8. CASE ~Send
  <2>1. req' = req
    BY <1>8 DEF Client, BeginRun, ResetDone, ResetGivenUp, Finish, FailTimeout, Restart
  <2>2. MarksAreOfCrashes'
    BY <1>2, <1>4, <1>5, <2>1 DEF MarksAreOfCrashes, Stage
  <2>3. LostToCrashes' /\ OnlyStruckFail'
    BY <1>2, <1>4, <2>1 DEF LostToCrashes, OnlyStruckFail, Stage
  <2> QED  BY <1>6, <2>2, <2>3
<1> QED
  BY <1>7, <1>8

\* While only servers fail and fewer have crashed than NGINX makes tries, one
\* still standing, a request fails only if a crash met it on a server.
THEOREM CrashesHitOnlyTheirOwn == Spec => []OnlyStruckRequestsFail
<1>1. Init => CrashInv
  <2> SUFFICES ASSUME Init PROVE CrashInv
    OBVIOUS
  <2>1. IsFiniteSet(crashed)
    BY FS_EmptySet DEF Init
  <2>2. Unsent.stage = "unsent" /\ Unsent.status = "nil"
    BY DEF Unsent
  <2> QED
    BY <2>1, <2>2 DEF Init, CrashInv, MarksAreOfCrashes, ScriptsAreLoaded, LostToCrashes,
                      OnlyStruckFail, Stage, NoThread
<1>2. TypeOK /\ CrashInv /\ [Next]_vars => CrashInv'
  <2> SUFFICES ASSUME TypeOK, CrashInv, [Next]_vars PROVE CrashInv'
    OBVIOUS
  <2>1. CASE UNCHANGED vars
    BY <2>1 DEF vars, serverVars, historyVars, CrashInv, Calm, OnlyServersFail,
                SomeServerStands, MarksAreOfCrashes, ScriptsAreLoaded, LostToCrashes,
                OnlyStruckFail, Stage
  <2>2. CASE Next
    BY <2>2, BalancerCrashes, ServeCrashes, FailureCrashes, OtherCrashes DEF Next
  <2> QED  BY <2>1, <2>2
<1>3. CrashInv => OnlyStruckRequestsFail
  BY DEF CrashInv, Calm, OnlyStruckFail, OnlyStruckRequestsFail
<1> QED
  BY <1>1, <1>2, <1>3, TypeCorrect, PTL DEF Spec

-----------------------------------------------------------------------------
(* The store.  Of all that happens only a reset and a buy script touch the *)
(* keys.                                                                   *)

\* The direct architecture is a system of resets and buy scripts.
LEMMA TouchesKeys == Spec => Keys
<1>1. Init => db = EmptyDb
  BY DEF Init
<1>2. TypeOK /\ [Next]_vars => [Touched]_db
  <2> SUFFICES ASSUME TypeOK, [Next]_vars PROVE Touched
    OBVIOUS
  <2>1. ASSUME NEW s \in Servers, NEW m \in Messages, db' = BuyOf(s, m)
        PROVE  Touched
    BY <2>1, MessageType DEF Touched, Servers, BuyOf
  <2>2. \/ db' = db \/ db' = EmptyDb \/ LateCall
        \/ \E s \in Servers, m \in Messages : db' = BuyOf(s, m)
    BY DEF Next, Client, BeginRun, ResetDone, ResetGivenUp, LateReset, Send, Finish, Balance,
           Forward, ConnectFails, ConnectTimesOut, NoUpstream, ConnectionLost, ReadTimeout,
           FailTimeout, Serve, FindStore, CreateStore, CreateStoreFails, NoScript, Reply,
           Execute, RedisError, Crash, Restart, RedisRestart, Failure, vars
  <2>3. CASE LateCall
    BY <2>1, <2>3, LateCallTouches DEF Touched
  <2> QED  BY <2>1, <2>2, <2>3 DEF Touched
<1> QED
  BY <1>1, <1>2, TypeCorrect, PTL DEF Spec, Keys

\* If no two purchases of a ticket model share a request id, the servers, with
\* all their crashes, retries and late resets, implement the store.
THEOREM ImplementsTheStore ==
    ASSUME Store!UniqueRequestIds
    PROVE  Spec => ImplementsStore
BY TouchesKeys, KeysImplementStore, PTL

\* And so no more unnumbered tickets are sold than there are, and no two buyers
\* have been granted one seat, whatever fails on the way.
THEOREM NeverOversells ==
    ASSUME Store!UniqueRequestIds
    PROVE  Spec => [](Store!NoOverselling /\ Store!NoDoubleSell)
BY TouchesKeys, KeysNeverOversell, PTL

-----------------------------------------------------------------------------
(* The course of a run, and what its steps do to requests and threads.     *)

NoReset == faults["reset"] = 0
Steady == NoReset /\ crashed # Servers
Begun == pc # "resetting"
Before == {"received", "creating", "calling"}

\* A request is on its way in the run that sent it, and answered at its end.
InCourse ==
    /\ \A m \in Messages : Stage(m) \in {"balancing", "sent"} => m[1] = run /\ pc = "sending"
    /\ \A m \in Messages : Stage(m) = "done" => req[m].status \in Statuses
    /\ pc \in {"idle", "finished", "failed"} => \A m \in Lines : Stage(m) = "done"
    /\ \A s \in Servers : ~alive[s] => s \in crashed
    /\ NoReset => reset = "settled"

\* The lines a script has certainly run for on a server, and those it may have.
Certain(s) ==
    {m \in Lines : threads[s][m] \in Outcomes \/ (req[m].at = s /\ req[m].status \in Outcomes)}
Possible(s) ==
    {m \in Lines :
        \/ Stage(m) = "sent" /\ req[m].at = s
        \/ Stage(m) = "done" /\ (req[m].at = s \/ req[m].status = "ERROR")}

\* Every fault stays on record.
LEMMA FaultsStay ==
    ASSUME TypeOK, [Next]_vars
    PROVE  /\ NoReset' => NoReset
           /\ Steady' => Steady
           /\ Fault("reset") => ~NoReset'
           /\ faults["redis"] \in Nat /\ faults'["redis"] \in Nat
           /\ faults["redis"] <= faults'["redis"]
           /\ Fault("redis") => faults'["redis"] = faults["redis"] + 1
<1>1. \/ UNCHANGED <<faults, crashed>>
      \/ \E k \in FaultKinds : Fault(k) /\ crashed \subseteq crashed' /\ crashed' \subseteq Servers
  <2>1. CASE Client \/ Failure
    BY <2>1 DEF Client, BeginRun, ResetDone, ResetGivenUp, Send, Finish, Failure, Crash,
                CreateStoreFails, RedisError, ReadTimeout, ConnectTimesOut, RedisRestart, LateReset,
                LateCall, FaultKinds, TypeOK, historyVars
  <2>2. CASE \/ \E m \in Messages : Balance(m)
             \/ \E s \in Servers : FailTimeout(s) \/ Restart(s)
    BY <2>2 DEF Balance, Forward, ConnectFails, NoUpstream, ConnectionLost, FailTimeout, Restart,
                historyVars
  <2>3. CASE \E s \in Servers, m \in Messages : Serve(s, m)
    BY <2>3 DEF Serve, FindStore, CreateStore, Execute, NoScript, Reply, historyVars
  <2> QED  BY <2>1, <2>2, <2>3 DEF Next, vars, historyVars
<1>2. \A k \in FaultKinds : Fault(k) => faults' = [faults EXCEPT ![k] = @ + 1]
  BY FaultCounts
<1>3. "reset" \in FaultKinds /\ "redis" \in FaultKinds /\ faults \in [FaultKinds -> Nat]
  BY DEF FaultKinds, TypeOK
<1>4. \A x \in FaultKinds : faults[x] \in Nat /\ faults'[x] \in Nat /\ faults[x] <= faults'[x]
  <2>1. ASSUME NEW k \in FaultKinds, Fault(k), NEW x \in FaultKinds
        PROVE  faults'[x] \in Nat /\ faults[x] <= faults'[x]
    BY <1>2, <1>3, <2>1
  <2> QED  BY <1>1, <1>3, <2>1
<1>5. NoReset' => NoReset
  BY <1>3, <1>4 DEF NoReset
<1>6. Steady' => Steady
  BY <1>1, <1>3, <1>4, <1>5 DEF Steady, TypeOK
<1>7. Fault("reset") => ~NoReset'
  BY <1>2, <1>3 DEF NoReset
<1>8. Fault("redis") => faults'["redis"] = faults["redis"] + 1
  BY <1>2, <1>3
<1> QED
  BY <1>3, <1>4, <1>5, <1>6, <1>7, <1>8

\* The lines of all files are finitely many.
LEMMA MessagesAreFinite == IsFiniteSet(Messages)
<1> DEFINE File(i) == {<<i, j>> : j \in DOMAIN Benchmarks[i]}
           Files == {File(i) : i \in DOMAIN Benchmarks}
<1>1. /\ Len(Benchmarks) \in Nat /\ DOMAIN Benchmarks = 1..Len(Benchmarks)
      /\ \A i \in DOMAIN Benchmarks : /\ Len(Benchmarks[i]) \in Nat
                                      /\ DOMAIN Benchmarks[i] = 1..Len(Benchmarks[i])
  BY BenchmarksAssumption
<1>2. ASSUME NEW i \in DOMAIN Benchmarks PROVE IsFiniteSet(File(i))
  <2> DEFINE D == 1..Len(Benchmarks[i])
             f == [j \in D |-> <<i, j>>]
  <2>1. IsFiniteSet(D)
    BY <1>1, FS_Interval
  <2>2. f \in [D -> File(i)] /\ \A m \in File(i) : \E j \in D : f[j] = m
    BY <1>1
  <2> HIDE DEF f, D, File
  <2>3. f \in Surjection(D, File(i))
    BY <2>2 DEF Surjection
  <2> QED  BY <2>1, <2>3, FS_Surjection
<1>3. IsFiniteSet(Files)
  <2> DEFINE D == DOMAIN Benchmarks
             f == [i \in D |-> File(i)]
  <2>1. IsFiniteSet(D)
    <3> HIDE DEF f
    <3>1. 1 \in Int /\ Len(Benchmarks) \in Int
      BY <1>1
    <3>2. IsFiniteSet(1..Len(Benchmarks))
      BY <3>1, FS_Interval
    <3> QED  BY <1>1, <3>2
  <2>2. f \in [D -> Files] /\ \A x \in Files : \E i \in D : f[i] = x
    BY <1>1
  <2> HIDE DEF f, D, Files
  <2>3. f \in Surjection(D, Files)
    BY <2>2 DEF Surjection
  <2> QED  BY <2>1, <2>3, FS_Surjection
<1>4. \A x \in Files : IsFiniteSet(x)
  BY <1>2
<1>5. Messages = UNION Files
  BY DEF Messages
<1> HIDE DEF Files
<1> QED
  BY <1>3, <1>4, <1>5, FS_UNION

\* So are the lines of a run.
LEMMA LinesAreFinite == IsFiniteSet(Lines)
<1>1. Lines \in SUBSET Messages
  BY DEF Lines
<1> QED
  BY <1>1, MessagesAreFinite, FS_Subset

\* So what may have run of them can be counted.
LEMMA LoadType ==
    ASSUME TypeOK, NEW s \in Servers
    PROVE  /\ IsFiniteSet(Certain(s)) /\ Cardinality(Certain(s)) \in Nat
           /\ IsFiniteSet(Possible(s)) /\ Cardinality(Possible(s)) \in Nat
           /\ ServerByNode(s) \in Nat
<1>1. Certain(s) \in SUBSET Lines /\ Possible(s) \in SUBSET Lines
  BY DEF Certain, Possible
<1>2. IsFiniteSet(Certain(s)) /\ IsFiniteSet(Possible(s))
  BY <1>1, LinesAreFinite, FS_Subset
<1>3. ServerByNode(s) \in Nat
  BY DEF ServerByNode, TypeOK, Db, Nodes, ARCHITECTURES, Servers
<1> QED
  BY <1>2, <1>3, FS_CardinalityType

\* NGINX moves request m on to where it is tried next, to a server, or ends it
\* with an error.
Moved(m) ==
    /\ UNCHANGED <<db, alive, pc, run, reset, crashed>>
    /\ \A n \in Messages : n # m => req'[n] = req[n]
    /\ \A s \in Servers, n \in Messages : n # m => threads'[s][n] = threads[s][n]
    /\ \/ /\ Stage(m) = "balancing" /\ threads' = threads
          /\ req'[m].stage = "balancing" /\ req'[m].status = "nil"
       \/ /\ Stage(m) = "balancing"
          /\ req'[m].stage = "sent" /\ req'[m].status = "nil" /\ req'[m].at \in Servers
          /\ \A s \in Servers : threads'[s][m] =
                IF s = req'[m].at THEN "received" ELSE threads[s][m]
       \/ /\ threads' = threads
          /\ Stage(m) \in {"balancing", "sent"}
          /\ req'[m].stage = "done" /\ req'[m].status = "ERROR"

\* That is all it does.
LEMMA BalancerMoves ==
    ASSUME TypeOK, NEW m \in Messages,
           \/ \E s \in Servers : Forward(m, s) \/ ConnectFails(m, s) \/ ConnectTimesOut(m, s)
           \/ NoUpstream(m) \/ ConnectionLost(m) \/ ReadTimeout(m)
    PROVE  Moved(m)
<1> USE DEF TypeOK, serverVars, historyVars
<1>1. ASSUME NEW s \in Servers, Forward(m, s) PROVE Moved(m)
  <2>1. /\ req' = [req EXCEPT ![m] = Sent(req[m].tried \cup {s}, s)]
        /\ threads' = [threads EXCEPT ![s][m] = "received"]
        /\ UNCHANGED <<db, alive, pc, run, reset, crashed>> /\ Stage(m) = "balancing"
    BY <1>1 DEF Forward
  <2>2. \A t : /\ Sent(t, s).stage = "sent" /\ Sent(t, s).status = "nil"
               /\ Sent(t, s).at = s
    BY DEF Sent
  <2>3. req'[m].stage = "sent" /\ req'[m].status = "nil" /\ req'[m].at = s
    BY <2>1, <2>2
  <2>4. \A t \in Servers, n \in Messages :
           threads'[t][n] = IF t = s /\ n = m THEN "received" ELSE threads[t][n]
    BY <2>1
  <2>5. \A n \in Messages : n # m => req'[n] = req[n]
    BY <2>1
  <2> QED  BY <2>1, <2>3, <2>4, <2>5 DEF Moved
<1>2. ASSUME NEW s \in Servers, ConnectFails(m, s) PROVE Moved(m)
  <2>1. \A t : Balancing(t).stage = "balancing" /\ Balancing(t).status = "nil"
    BY DEF Balancing, Unsent
  <2>2. req' = [req EXCEPT ![m] = Balancing(req[m].tried \cup {s})]
    BY <1>2 DEF ConnectFails
  <2>3. req'[m].stage = "balancing" /\ req'[m].status = "nil"
    BY <2>1, <2>2
  <2> QED  BY <1>2, <2>2, <2>3 DEF Moved, ConnectFails
<1>3. ASSUME req' = [req EXCEPT ![m] = Answered("ERROR", Nobody)]
      PROVE  /\ req'[m].stage = "done" /\ req'[m].status = "ERROR"
             /\ \A n \in Messages : n # m => req'[n] = req[n]
  <2>1. Answered("ERROR", Nobody).stage = "done" /\ Answered("ERROR", Nobody).status = "ERROR"
    BY DEF Answered
  <2> QED  BY <1>3, <2>1
<1>4. ASSUME NEW s \in Servers, ConnectTimesOut(m, s) PROVE Moved(m)
  BY <1>3, <1>4 DEF ConnectTimesOut, Moved
<1>5. CASE NoUpstream(m)
  BY <1>3, <1>5 DEF NoUpstream, Moved
<1>6. CASE ConnectionLost(m) \/ ReadTimeout(m)
  BY <1>3, <1>6 DEF ConnectionLost, ReadTimeout, Moved
<1> QED
  BY <1>1, <1>2, <1>4, <1>5, <1>6

\* Server s takes a step for request m: before its script, with its script, which leaves
\* an answer, an error or a call that is sent again, or with its answer.
Ran(s, m) ==
    /\ threads[s][m] = "calling" /\ threads'[s][m] \in Statuses \cup {"calling"}
    /\ req' = req /\ db' = BuyOf(s, m)

Stepped(s, m) ==
    /\ UNCHANGED <<alive, pc, run, reset, crashed>>
    /\ \A t \in Servers, n \in Messages : t # s \/ n # m => threads'[t][n] = threads[t][n]
    /\ \A n \in Messages : n # m => req'[n] = req[n]
    /\ \/ Ran(s, m)
       \/ /\ UNCHANGED <<db, req>>
          /\ threads[s][m] \in Before /\ threads'[s][m] \in {"creating", "calling", "ERROR"}
       \/ /\ db' = db /\ threads[s][m] \in Statuses /\ threads'[s][m] = "none"
          /\ IF Stage(m) = "sent" /\ req[m].at = s
             THEN req'[m] = Answered(threads[s][m], s)
             ELSE req' = req

\* That is all it does.
LEMMA ThreadSteps ==
    ASSUME TypeOK, NEW s \in Servers, NEW m \in Messages,
           Serve(s, m) \/ CreateStoreFails(s, m) \/ RedisError(s, m)
    PROVE  Stepped(s, m)
<1> USE DEF TypeOK, serverVars, historyVars
<1>1. ASSUME NEW x, At(s, m, x)
      PROVE  /\ threads'[s][m] = x
             /\ \A t \in Servers, n \in Messages : t # s \/ n # m => threads'[t][n] = threads[t][n]
  BY <1>1 DEF At
<1>2. CASE FindStore(s, m)
  <2>1. threads'[s][m] \in {"creating", "calling"}
    BY <1>1, <1>2 DEF FindStore
  <2> QED  BY <1>1, <1>2, <2>1 DEF FindStore, Stepped, Before
<1>3. CASE CreateStore(s, m) \/ CreateStoreFails(s, m) \/ NoScript(s, m)
  BY <1>1, <1>3 DEF CreateStore, CreateStoreFails, NoScript, Stepped, Before
<1>4. CASE Execute(s, m)
  <2>1. Outcome(BuyOf(s, m), Op(m)) \in Statuses
    BY BuyOfType DEF Statuses
  <2> QED  BY <1>1, <1>4, <2>1 DEF Execute, Stepped, Ran
<1>5. CASE RedisError(s, m)
  <2>1. /\ threads'[s][m] \in {"ERROR", "calling"}
        /\ \A t \in Servers, n \in Messages : t # s \/ n # m => threads'[t][n] = threads[t][n]
    BY <1>1, <1>5 DEF RedisError
  <2> QED  BY <1>5, <2>1 DEF RedisError, Stepped, Ran, Before, Statuses
<1>6. CASE Reply(s, m)
  BY <1>1, <1>6 DEF Reply, Stepped
<1> QED
  BY <1>2, <1>3, <1>4, <1>5, <1>6 DEF Serve

\* No step takes a request out of the course of its run.
LEMMA CourseKept ==
    ASSUME TypeOK, InCourse, [Next]_vars
    PROVE  InCourse'
<1> USE DEF TypeOK, serverVars, historyVars
<1>1. NoReset' => NoReset
  BY FaultsStay
<1>2. ASSUME NEW m \in Messages, Moved(m) PROVE InCourse'
  <2>1. m[1] = run /\ pc = "sending"
    BY <1>2 DEF Moved, InCourse
  <2>2. req'[m].stage \in {"balancing", "sent"} \/ (req'[m].stage = "done" /\ req'[m].status = "ERROR")
    BY <1>2 DEF Moved
  <2> QED  BY <1>1, <1>2, <2>1, <2>2 DEF Moved, InCourse, Stage, Lines, Statuses
<1>3. ASSUME NEW s \in Servers, NEW m \in Messages, Stepped(s, m) PROVE InCourse'
  <2>1. \A n \in Messages : req'[n] = req[n] \/ (req'[n].stage = "done" /\ req'[n].status \in Statuses)
    BY <1>3 DEF Stepped, Ran, Answered
  <2> QED  BY <1>1, <1>3, <2>1 DEF Stepped, InCourse, Stage, Lines
<1>4. CASE (\E s \in Servers : Crash(s) \/ Restart(s) \/ FailTimeout(s)) \/ RedisRestart
  BY <1>1, <1>4 DEF Crash, Restart, FailTimeout, RedisRestart, InCourse, Stage, Lines
<1>5. CASE LateReset
  BY <1>1, <1>5 DEF LateReset, InCourse, Stage, Lines
<1>12. CASE LateCall
  BY <1>1, <1>12 DEF LateCall, InCourse, Stage, Lines
<1>6. CASE BeginRun
  BY <1>1, <1>6 DEF BeginRun, InCourse, Stage, Lines
<1>7. CASE ResetDone
  BY <1>1, <1>7 DEF ResetDone, InCourse, Stage, Lines
<1>8. CASE ResetGivenUp
  <2>1. NoReset' => reset' = reset
    BY <1>8, FaultsStay DEF ResetGivenUp
  <2> QED  BY <1>1, <1>8, <2>1 DEF ResetGivenUp, InCourse, Stage, Lines
<1>9. CASE Send
  <2>1. PICK m \in Lines : req' = [req EXCEPT ![m] = Balancing({})]
    BY <1>9 DEF Send
  <2>2. Balancing({}).stage = "balancing" /\ pc = "sending"
    BY <1>9 DEF Balancing, Unsent, Send
  <2> QED  BY <1>1, <1>9, <2>1, <2>2 DEF Send, InCourse, Stage, Lines
<1>10. CASE Finish
  BY <1>1, <1>10 DEF Finish, InCourse, Stage, Lines
<1>11. CASE UNCHANGED vars
  BY <1>11 DEF vars, InCourse, Stage, Lines, NoReset
<1> QED
  BY <1>2, <1>3, <1>4, <1>5, <1>6, <1>7, <1>8, <1>9, <1>10, <1>11, <1>12, BalancerMoves,
     ThreadSteps DEF Next, Client, Balance, Failure

\* A script adds one to the count of its server, and to no other name's.
LEMMA ScriptIsCounted ==
    ASSUME TypeOK, NEW s \in Servers, NEW m \in Messages, db' = BuyOf(s, m), NEW t \in Servers
    PROVE  /\ ServerByNode(t) \in Nat /\ ServerByNode(t)' \in Nat
           /\ ServerByNode(t) <= ServerByNode(t)'
           /\ t.node_id = s.node_id => ServerByNode(t)' = ServerByNode(t) + 1
           /\ t.node_id # s.node_id => ServerByNode(t)' = ServerByNode(t)
<1>1. s \in Stores /\ s.arch = "direct" /\ Op(m) \in Purchases /\ db \in Db /\ t.node_id \in Nodes
  BY ServerType, MessageType DEF TypeOK, Nodes, Servers
<1>2. ServerByNode(t) \in Nat
  BY LoadType
<1> DEFINE e == Buy(db, s, Op(m), 0, 0)
<1>3. /\ e.nodes[s.arch][s.node_id] = db.nodes[s.arch][s.node_id] + 1
      /\ \A n \in Nodes : n # s.node_id => e.nodes[s.arch][n] = db.nodes[s.arch][n]
  BY <1>1, BuyLoad
<1>4. db' = e
  BY DEF BuyOf
<1> HIDE DEF e
<1>5. /\ t.node_id = s.node_id => ServerByNode(t)' = ServerByNode(t) + 1
      /\ t.node_id # s.node_id => ServerByNode(t)' = ServerByNode(t)
  BY <1>1, <1>3, <1>4 DEF ServerByNode
<1> QED
  BY <1>2, <1>5

\* Counts of scripts are natural numbers that change with the keys only.
LEMMA NotCounted ==
    ASSUME TypeOK, NEW t \in Servers, db' = db
    PROVE  ServerByNode(t) \in Nat /\ ServerByNode(t)' = ServerByNode(t)
BY LoadType DEF ServerByNode

\* Fewer things are no more than a larger number.
LEMMA FewerAreNoMore ==
    ASSUME NEW S, NEW T, IsFiniteSet(S), T \subseteq S, NEW a \in Nat, NEW b \in Nat,
           Cardinality(S) <= a, a <= b
    PROVE  Cardinality(T) <= b
<1>1. /\ IsFiniteSet(T) /\ Cardinality(T) <= Cardinality(S)
      /\ Cardinality(T) \in Nat /\ Cardinality(S) \in Nat
  BY FS_Subset, FS_CardinalityType
<1> QED
  BY <1>1

\* One thing more is one more at most.
LEMMA OneMoreAtMost ==
    ASSUME NEW S, NEW T, NEW x, IsFiniteSet(S), T \subseteq S \cup {x}, NEW a \in Nat,
           Cardinality(S) <= a
    PROVE  Cardinality(T) <= a + 1
<1>1. /\ IsFiniteSet(S \cup {x})
      /\ Cardinality(S \cup {x}) = IF x \in S THEN Cardinality(S) ELSE Cardinality(S) + 1
  BY FS_AddElement
<1>2. Cardinality(S) \in Nat /\ Cardinality(S \cup {x}) <= a + 1
  BY <1>1, FS_CardinalityType
<1> QED
  BY <1>1, <1>2, FewerAreNoMore

\* As a run begins, nothing of it has run.
LEMMA NothingHasRun ==
    ASSUME TypeOK, AnswersInv, pc = "resetting", UNCHANGED <<req, threads, run>>, NEW s \in Servers
    PROVE  Certain(s)' = {}
<1>1. Unsent.status = "nil" /\ Unsent.stage = "unsent" /\ "nil" \notin Outcomes /\ "none" \notin Outcomes
  BY DEF Unsent, Outcomes
<1>2. \A m \in Lines : req[m] = Unsent /\ threads[s][m] = "none"
  BY <1>1 DEF AnswersInv, FutureUnsent, UnplacedInNoThread, Lines, Stage
<1> QED
  BY <1>1, <1>2 DEF Certain, Lines

\* A server has run a script for every request that certainly ran on it.
LEMMA CertainIsCounted ==
    ASSUME TypeOK, AnswersInv, InCourse, [Next]_vars, NoReset', Begun', NEW t \in Servers,
           Begun => Cardinality(Certain(t)) <= ServerByNode(t)
    PROVE  Cardinality(Certain(t)') <= ServerByNode(t)'
<1> USE DEF TypeOK, serverVars, historyVars
<1>1. NoReset /\ reset = "settled"
  BY FaultsStay DEF InCourse
<1>2. "none" \notin Outcomes /\ "nil" \notin Outcomes /\ "ERROR" \notin Outcomes
      /\ {"received", "creating", "calling"} \cap Outcomes = {}
  BY DEF Outcomes
<1>3. IsFiniteSet(Certain(t)) /\ ServerByNode(t) \in Nat
  BY LoadType
<1>4. ASSUME Begun, Lines' = Lines, Certain(t)' \subseteq Certain(t), db' = db
      PROVE  Cardinality(Certain(t)') <= ServerByNode(t)'
  <2>1. /\ ServerByNode(t) <= ServerByNode(t)' /\ ServerByNode(t)' \in Nat
        /\ Cardinality(Certain(t)) <= ServerByNode(t)
    BY <1>3, <1>4, NotCounted
  <2> HIDE DEF TypeOK
  <2> QED  BY <1>3, <1>4, <2>1, FewerAreNoMore
<1>5. ASSUME NEW m \in Messages, Moved(m) PROVE Cardinality(Certain(t)') <= ServerByNode(t)'
  <2>1. Begun /\ Lines' = Lines /\ db' = db
    BY <1>5 DEF Moved, Begun, Lines
  <2>2. threads'[t][m] \in Outcomes => threads[t][m] \in Outcomes
    BY <1>2, <1>5 DEF Moved
  <2>3. req'[m].status \notin Outcomes
    BY <1>2, <1>5 DEF Moved
  <2>4. Certain(t)' \subseteq Certain(t)
    BY <1>5, <2>1, <2>2, <2>3 DEF Moved, Certain, Lines
  <2> QED  BY <1>4, <2>1, <2>4
<1>6. ASSUME NEW s \in Servers, NEW m \in Messages, Stepped(s, m)
      PROVE  Cardinality(Certain(t)') <= ServerByNode(t)'
  <2>1. Begun /\ Lines' = Lines
    BY <1>6 DEF Stepped, Begun, Lines
  <2>2. CASE ~Ran(s, m)
    <3>1. db' = db /\ threads'[s][m] \notin Outcomes
      BY <1>2, <1>6, <2>2 DEF Stepped
    <3>2. \A n \in Lines : req'[n].at = t /\ req'[n].status \in Outcomes => n \in Certain(t)
      BY <1>6, <2>2 DEF Stepped, Answered, Certain, Lines
    <3>3. \A n \in Lines : threads'[t][n] \in Outcomes => threads[t][n] \in Outcomes
      BY <1>6, <3>1 DEF Stepped, Lines
    <3>4. Certain(t)' \subseteq Certain(t)
      BY <2>1, <3>2, <3>3 DEF Certain
    <3> QED  BY <1>4, <2>1, <3>1, <3>4
  <2>3. CASE Ran(s, m)
    <3>1. /\ ServerByNode(t) <= ServerByNode(t)' /\ ServerByNode(t)' \in Nat
          /\ s = t => ServerByNode(t)' = ServerByNode(t) + 1
      BY <2>3, ScriptIsCounted DEF Ran
    <3>2. Cardinality(Certain(t)) <= ServerByNode(t)
      BY <2>1
    <3>3. CASE s # t
      <4>1. Certain(t)' \subseteq Certain(t)
        BY <1>6, <2>1, <2>3, <3>3 DEF Stepped, Ran, Certain, Lines
      <4> HIDE DEF TypeOK
      <4> QED  BY <1>3, <3>1, <3>2, <4>1, FewerAreNoMore
    <3>4. CASE s = t
      <4>1. Certain(t)' \subseteq Certain(t) \cup {m}
        BY <1>6, <2>1, <2>3, <3>4 DEF Stepped, Ran, Certain, Lines
      <4> HIDE DEF TypeOK
      <4>2. Cardinality(Certain(t)') <= ServerByNode(t) + 1
        BY <1>3, <3>2, <4>1, OneMoreAtMost
      <4> QED  BY <3>1, <3>4, <4>2
    <3> QED  BY <3>3, <3>4
  <2> QED  BY <2>2, <2>3
<1>7. ASSUME NEW s \in Servers, Crash(s) PROVE Cardinality(Certain(t)') <= ServerByNode(t)'
  <2>1. \A n \in Messages : threads'[t][n] \in {threads[t][n], "none"}
    BY <1>7 DEF Crash, NoThread
  <2>2. Begun /\ UNCHANGED <<Lines, db, req>>
    BY <1>7 DEF Crash, Begun, Lines
  <2>3. Certain(t)' \subseteq Certain(t)
    BY <1>2, <2>1, <2>2 DEF Certain, Lines
  <2> QED  BY <1>4, <2>2, <2>3
<1>8. CASE \/ \E s \in Servers : Restart(s) \/ FailTimeout(s)
           \/ RedisRestart \/ Finish \/ UNCHANGED vars
  <2>1. Begun /\ UNCHANGED <<Lines, db, req, threads>>
    BY <1>8 DEF Restart, FailTimeout, RedisRestart, Finish, Begun, Lines, vars
  <2> QED  BY <1>4, <2>1 DEF Certain
<1>9. CASE Send
  <2>1. PICK m \in Messages : req' = [req EXCEPT ![m] = Balancing({})]
    BY <1>9 DEF Send, Lines
  <2>2. Balancing({}).status = "nil"
    BY DEF Balancing, Unsent
  <2>3. \A n \in Messages : req'[n] = req[n] \/ req'[n].status = "nil"
    BY <2>1, <2>2
  <2>4. Begun /\ UNCHANGED <<Lines, db, threads>>
    BY <1>9 DEF Send, Begun, Lines
  <2>5. Certain(t)' \subseteq Certain(t)
    BY <1>2, <2>3, <2>4 DEF Certain, Lines
  <2> QED  BY <1>4, <2>4, <2>5
<1>10. CASE ResetDone \/ ResetGivenUp
  <2>1. Certain(t)' = {}
    BY <1>10, NothingHasRun DEF ResetDone, ResetGivenUp
  <2>2. db' = db \/ db' = EmptyDb
    BY <1>10 DEF ResetDone, ResetGivenUp
  <2>3. ServerByNode(t)' >= 0
    BY <1>3, <2>2 DEF ServerByNode, EmptyDb, NoLoad, ARCHITECTURES, Nodes, Servers
  <2> QED  BY <2>1, <2>3, FS_EmptySet
<1>11. CASE LateCall
  <2>1. Begun /\ UNCHANGED <<Lines, req, threads>>
    BY <1>11 DEF LateCall, Begun, Lines
  <2>2. Certain(t)' = Certain(t)
    BY <2>1 DEF Certain
  <2>3. ServerByNode(t) <= ServerByNode(t)' /\ ServerByNode(t)' \in Nat
    BY <1>11, LateCallTouches, ScriptIsCounted, NotCounted
  <2> HIDE DEF TypeOK
  <2> QED  BY <1>3, <2>1, <2>2, <2>3, FewerAreNoMore
<1>12. ~BeginRun /\ ~LateReset
  BY <1>1 DEF BeginRun, LateReset, Begun
<1> QED
  BY <1>5, <1>6, <1>7, <1>8, <1>9, <1>10, <1>11, <1>12, BalancerMoves, ThreadSteps
     DEF Next, Client, Balance, Failure


-----------------------------------------------------------------------------
(* Scripts that have yet to run: a server's thread will run the script of  *)
(* its request, and a call that was given up still may run.  A step adds   *)
(* one only if it hands a request to a server or breaks a connection to    *)
(* Redis, and takes one away if it runs one.                               *)

CallsBy(X) == {c \in calls : c.by \in X}
WorkAt(X) == {m \in Messages : \E s \in X : threads[s][m] \in Before}
Pending(X) == Cardinality(CallsBy(X)) + Cardinality(WorkAt(X))

\* A request is on at most one server.
OneThreadEach ==
    \A m \in Messages, s, t \in Servers :
        threads[s][m] # "none" /\ threads[t][m] # "none" => s = t

PendingInv == OneThreadEach /\ IsFiniteSet(calls)

\* Of the things counted a few are gone, or one has come.
LEMMA Counting ==
    ASSUME NEW S, IsFiniteSet(S), NEW T
    PROVE  /\ Cardinality(S) \in Nat
           /\ T \subseteq S =>
                 IsFiniteSet(T) /\ Cardinality(T) \in Nat /\ Cardinality(T) <= Cardinality(S)
           /\ \A x : x \in S /\ T \subseteq S \ {x} => Cardinality(T) + 1 <= Cardinality(S)
           /\ \A x : T \subseteq S \cup {x} =>
                 IsFiniteSet(T) /\ Cardinality(T) \in Nat /\ Cardinality(T) <= Cardinality(S) + 1
<1>1. Cardinality(S) \in Nat
  BY FS_CardinalityType
<1>2. ASSUME NEW U, IsFiniteSet(U), T \subseteq U
      PROVE  IsFiniteSet(T) /\ Cardinality(T) \in Nat /\ Cardinality(T) <= Cardinality(U)
  <2>1. T \in SUBSET U
    BY <1>2
  <2>2. IsFiniteSet(T) /\ Cardinality(T) <= Cardinality(U)
    BY <1>2, <2>1, FS_Subset
  <2> QED  BY <2>2, FS_CardinalityType
<1>3. ASSUME NEW x, x \in S, T \subseteq S \ {x}
      PROVE  Cardinality(T) + 1 <= Cardinality(S)
  <2>1. IsFiniteSet(S \ {x}) /\ Cardinality(S \ {x}) = Cardinality(S) - 1
    BY <1>3, FS_RemoveElement
  <2>2. Cardinality(T) \in Nat /\ Cardinality(T) <= Cardinality(S \ {x})
    BY <1>2, <1>3, <2>1
  <2> QED  BY <1>1, <2>1, <2>2
<1>4. ASSUME NEW x, T \subseteq S \cup {x}
      PROVE  IsFiniteSet(T) /\ Cardinality(T) \in Nat /\ Cardinality(T) <= Cardinality(S) + 1
  <2>1. /\ IsFiniteSet(S \cup {x})
        /\ Cardinality(S \cup {x}) = IF x \in S THEN Cardinality(S) ELSE Cardinality(S) + 1
    BY FS_AddElement
  <2>2. IsFiniteSet(T) /\ Cardinality(T) \in Nat /\ Cardinality(T) <= Cardinality(S \cup {x})
    BY <1>2, <1>4, <2>1
  <2> QED  BY <1>1, <2>1, <2>2
<1> QED
  BY <1>1, <1>2, <1>3, <1>4

\* What is pending can be counted.
LEMMA PendingType ==
    ASSUME IsFiniteSet(calls), NEW X
    PROVE  /\ IsFiniteSet(CallsBy(X)) /\ Cardinality(CallsBy(X)) \in Nat
           /\ IsFiniteSet(WorkAt(X)) /\ Cardinality(WorkAt(X)) \in Nat
           /\ Pending(X) \in Nat
<1>1. CallsBy(X) \subseteq calls /\ WorkAt(X) \subseteq Messages
  BY DEF CallsBy, WorkAt
<1>2. /\ IsFiniteSet(CallsBy(X)) /\ Cardinality(CallsBy(X)) \in Nat
      /\ IsFiniteSet(WorkAt(X)) /\ Cardinality(WorkAt(X)) \in Nat
  BY <1>1, MessagesAreFinite, Counting
<1> QED
  BY <1>2 DEF Pending

\* As many calls are left behind by a crash as the server had sent and the crash let out.
Left(s, sent) == {m \in Messages : threads[s][m] = "calling" /\ Call(s, m) \in sent}

LEMMA CrashLeaves ==
    ASSUME NEW s \in Servers,
           NEW sent \in SUBSET {Call(s, m) : m \in {n \in Messages : threads[s][n] = "calling"}}
    PROVE  /\ IsFiniteSet(sent) /\ Cardinality(sent) <= Cardinality(Left(s, sent))
           /\ IsFiniteSet(Left(s, sent)) /\ Cardinality(Left(s, sent)) \in Nat
           /\ Cardinality(sent) \in Nat
           /\ \A c \in sent : c.by = s /\ \E m \in Left(s, sent) : c.of = m
           /\ \A m \in Left(s, sent) : \E c \in sent : c.of = m
<1> DEFINE L == Left(s, sent)
           f == [m \in L |-> Call(s, m)]
<1>1. L \subseteq Messages
  BY DEF Left
<1>2. IsFiniteSet(L) /\ Cardinality(L) \in Nat
  BY <1>1, MessagesAreFinite, Counting
<1>3. \A c \in sent : \E m \in L : c = Call(s, m)
  BY DEF Left
<1>4. f \in [L -> sent]
  BY DEF Left
<1>5. \A c \in sent : \E m \in L : f[m] = c
  BY <1>3
<1> HIDE DEF f, L
<1>6. f \in Surjection(L, sent)
  BY <1>4, <1>5 DEF Surjection
<1>7. IsFiniteSet(sent) /\ Cardinality(sent) <= Cardinality(L)
  BY <1>2, <1>6, FS_Surjection
<1>8. Cardinality(sent) \in Nat
  BY <1>7, FS_CardinalityType
<1>9. \A m : Call(s, m).by = s /\ Call(s, m).of = m
  BY DEF Call
<1>10. \A m \in L : Call(s, m) \in sent
  BY DEF L, Left
<1> QED
  BY <1>2, <1>3, <1>7, <1>8, <1>9, <1>10 DEF L

\* A step of a thread begins no new work, and once its script has run or failed the
\* request is no more any server's work.
LEMMA ThreadWork ==
    ASSUME TypeOK, OneThreadEach, NEW s \in Servers, NEW m \in Messages, Stepped(s, m),
           NEW X \in SUBSET Servers
    PROVE  /\ WorkAt(X)' \subseteq WorkAt(X)
           /\ threads[s][m] \in Before /\ s \in X => m \in WorkAt(X)
           /\ threads[s][m] \in Before /\ threads'[s][m] \notin Before => m \notin WorkAt(X)'
<1>1. "none" \notin Before \cup Statuses /\ Before \cap Statuses = {} /\ "calling" \in Before
  BY DEF Before, Statuses, Outcomes
<1>2. threads'[s][m] \in Before => threads[s][m] \in Before
  BY <1>1 DEF Stepped, Ran
<1>3. \A t \in Servers, n \in Messages : threads'[t][n] \in Before => threads[t][n] \in Before
  BY <1>2 DEF Stepped
<1>4. ASSUME threads[s][m] \in Before, threads'[s][m] \notin Before, m \in WorkAt(X)'
      PROVE  FALSE
  <2>1. PICK t \in X : threads'[t][m] \in Before
    BY <1>4 DEF WorkAt
  <2>2. t # s /\ threads[t][m] \in Before
    BY <1>3, <1>4, <2>1
  <2> QED  BY <1>1, <1>4, <2>2 DEF OneThreadEach
<1> QED
  BY <1>3, <1>4 DEF WorkAt

\* What a step is for those who count: it runs a script, hands a request to a server, or
\* neither, and what is pending changes accordingly.
Runs(X) ==
    /\ UNCHANGED <<req, run, pc>>
    /\ \E s \in Servers, m \in Messages :
          /\ db' = BuyOf(s, m)
          /\ Pending(X)' + (IF s \in X THEN 1 ELSE 0) + faults["redis"]
                <= Pending(X) + faults'["redis"]

Places(X) ==
    \E m \in Messages, s \in Servers :
        /\ Forward(m, s)
        /\ Pending(X)' + faults["redis"]
              <= Pending(X) + (IF s \in X THEN 1 ELSE 0) + faults'["redis"]

OnItsWay(m) ==
    \/ Stage(m) \in {"unsent", "balancing"} /\ Stage(m)' = "balancing"
    \/ Stage(m) \in {"balancing", "sent"} /\ Stage(m)' = "done" /\ req'[m].status = "ERROR"
    \/ Stage(m) = "sent" /\ Stage(m)' = "done" /\ req'[m].at = req[m].at

Rests(X) ==
    /\ UNCHANGED <<db, run>> /\ (pc' = "resetting" <=> pc = "resetting")
    /\ \A m \in Messages : req'[m] = req[m] \/ OnItsWay(m)
    /\ Pending(X)' + faults["redis"] <= Pending(X) + faults'["redis"]

\* NGINX hands out requests, and no other step of its is work for a server.
LEMMA BalancerPends ==
    ASSUME TypeOK, PendingInv, [Next]_vars, NEW m \in Messages, NEW X \in SUBSET Servers,
           \/ \E s \in Servers : Forward(m, s) \/ ConnectFails(m, s) \/ ConnectTimesOut(m, s)
           \/ NoUpstream(m) \/ ConnectionLost(m) \/ ReadTimeout(m)
    PROVE  Places(X) \/ Rests(X)
<1>1. /\ IsFiniteSet(CallsBy(X)) /\ IsFiniteSet(WorkAt(X)) /\ Pending(X) \in Nat
      /\ Cardinality(CallsBy(X)) \in Nat /\ Cardinality(WorkAt(X)) \in Nat
  BY PendingType DEF PendingInv
<1>2. /\ faults["redis"] \in Nat /\ faults'["redis"] \in Nat
      /\ faults["redis"] <= faults'["redis"]
  BY FaultsStay
<1>3. calls' = calls /\ CallsBy(X)' = CallsBy(X)
  BY DEF Forward, ConnectFails, ConnectTimesOut, NoUpstream, ConnectionLost, ReadTimeout, CallsBy
<1>4. ASSUME NEW s \in Servers, Forward(m, s) PROVE Places(X)
  <2>1. threads' = [threads EXCEPT ![s][m] = "received"]
    BY <1>4 DEF Forward
  <2>2. \A t \in Servers, n \in Messages :
           threads'[t][n] = IF t = s /\ n = m THEN "received" ELSE threads[t][n]
    BY <2>1 DEF TypeOK
  <2>3. WorkAt(X)' \subseteq WorkAt(X) \cup {m} /\ (s \notin X => WorkAt(X)' \subseteq WorkAt(X))
    BY <2>2 DEF WorkAt
  <2>4. /\ Cardinality(WorkAt(X)') \in Nat /\ Cardinality(WorkAt(X)') <= Cardinality(WorkAt(X)) + 1
        /\ s \notin X => Cardinality(WorkAt(X)') <= Cardinality(WorkAt(X))
    BY <1>1, <2>3, Counting
  <2>5. Pending(X)' <= Pending(X) + (IF s \in X THEN 1 ELSE 0) /\ Pending(X)' \in Nat
    BY <1>1, <1>3, <2>4 DEF Pending
  <2> QED  BY <1>1, <1>2, <1>4, <2>5 DEF Places
<1>5. ASSUME \A s \in Servers : ~Forward(m, s) PROVE Rests(X)
  <2>1. threads' = threads
    BY <1>5 DEF ConnectFails, ConnectTimesOut, NoUpstream, ConnectionLost, ReadTimeout, serverVars
  <2>2. Pending(X)' = Pending(X)
    BY <1>3, <2>1 DEF Pending, WorkAt
  <2>3. /\ UNCHANGED <<db, run, pc>> /\ \A n \in Messages : n # m => req'[n] = req[n]
    BY BalancerMoves DEF Moved
  <2>4. OnItsWay(m)
    <3>1. /\ \A t : Balancing(t).stage = "balancing"
          /\ Answered("ERROR", Nobody).stage = "done" /\ Answered("ERROR", Nobody).status = "ERROR"
      BY DEF Balancing, Unsent, Answered
    <3>2. CASE \E s \in Servers : ConnectFails(m, s)
      BY <3>1, <3>2 DEF ConnectFails, OnItsWay, Stage, TypeOK
    <3>3. CASE (\E s \in Servers : ConnectTimesOut(m, s)) \/ NoUpstream(m)
      BY <3>1, <3>3 DEF ConnectTimesOut, NoUpstream, OnItsWay, Stage, TypeOK
    <3>4. CASE ConnectionLost(m) \/ ReadTimeout(m)
      BY <3>1, <3>4 DEF ConnectionLost, ReadTimeout, OnItsWay, Stage, TypeOK
    <3> QED  BY <1>5, <3>2, <3>3, <3>4
  <2> QED  BY <1>1, <1>2, <2>2, <2>3, <2>4 DEF Rests
<1> QED
  BY <1>4, <1>5

\* A thread that runs its script has done its work, unless its connection broke.
LEMMA ThreadPends ==
    ASSUME TypeOK, PendingInv, [Next]_vars, NEW s \in Servers, NEW m \in Messages,
           NEW X \in SUBSET Servers,
           Serve(s, m) \/ CreateStoreFails(s, m) \/ RedisError(s, m)
    PROVE  Runs(X) \/ Rests(X)
<1>1. /\ IsFiniteSet(CallsBy(X)) /\ IsFiniteSet(WorkAt(X)) /\ Pending(X) \in Nat
      /\ Cardinality(CallsBy(X)) \in Nat /\ Cardinality(WorkAt(X)) \in Nat
  BY PendingType DEF PendingInv
<1>2. /\ faults["redis"] \in Nat /\ faults'["redis"] \in Nat
      /\ faults["redis"] <= faults'["redis"]
      /\ Fault("redis") => faults'["redis"] = faults["redis"] + 1
  BY FaultsStay
<1>3. Stepped(s, m)
  BY ThreadSteps
<1>4. /\ WorkAt(X)' \subseteq WorkAt(X)
      /\ threads[s][m] \in Before /\ s \in X => m \in WorkAt(X)
      /\ threads[s][m] \in Before /\ threads'[s][m] \notin Before => m \notin WorkAt(X)'
  BY <1>3, ThreadWork DEF PendingInv
<1>5. Cardinality(WorkAt(X)') \in Nat /\ Cardinality(WorkAt(X)') <= Cardinality(WorkAt(X))
  BY <1>1, <1>4, Counting
<1>6. ASSUME db' = db PROVE run' = run /\ pc' = pc /\ \A n \in Messages : req'[n] = req[n] \/ OnItsWay(n)
  <2>1. run' = run /\ pc' = pc /\ \A n \in Messages : n # m => req'[n] = req[n]
    BY <1>3 DEF Stepped
  <2>2. Answered(threads[s][m], s).stage = "done" /\ Answered(threads[s][m], s).at = s
    BY DEF Answered
  <2>3. req'[m] = req[m] \/ OnItsWay(m)
    BY <1>3, <2>2 DEF Stepped, Ran, OnItsWay, Stage
  <2> QED  BY <2>1, <2>3
<1>7. CASE calls' = calls /\ db' = db
  <2>1. CallsBy(X)' = CallsBy(X)
    BY <1>7 DEF CallsBy
  <2> QED  BY <1>1, <1>2, <1>5, <1>6, <1>7, <2>1 DEF Rests, Pending
<1>8. CASE Execute(s, m)
  <2>1. /\ threads[s][m] \in Before /\ threads'[s][m] \notin Before
        /\ db' = BuyOf(s, m) /\ CallsBy(X)' = CallsBy(X) /\ UNCHANGED <<req, run, pc>>
    <3>1. Outcome(BuyOf(s, m), Op(m)) \notin Before
      BY BuyOfType DEF TypeOK, Outcomes, Before
    <3> QED  BY <1>8, <3>1 DEF Execute, At, TypeOK, Before, CallsBy
  <2>2. s \in X => Cardinality(WorkAt(X)') + 1 <= Cardinality(WorkAt(X))
    <3>1. s \in X => m \in WorkAt(X) /\ WorkAt(X)' \subseteq WorkAt(X) \ {m}
      BY <1>4, <2>1
    <3> QED  BY <1>1, <3>1, Counting
  <2> QED  BY <1>1, <1>2, <1>5, <2>1, <2>2 DEF Runs, Pending
<1>9. CASE RedisError(s, m)
  <2>1. faults'["redis"] = faults["redis"] + 1 /\ UNCHANGED <<req, run, pc>>
    BY <1>2, <1>9 DEF RedisError
  <2>2. CASE db' = db /\ calls' \in {calls, calls \cup {Call(s, m)}}
    <3>1. CallsBy(X)' \subseteq CallsBy(X) \cup {Call(s, m)}
      BY <2>2 DEF CallsBy
    <3>2. Cardinality(CallsBy(X)') \in Nat /\ Cardinality(CallsBy(X)') <= Cardinality(CallsBy(X)) + 1
      BY <1>1, <3>1, Counting
    <3> QED  BY <1>1, <1>2, <1>5, <1>6, <2>1, <2>2, <3>2 DEF Rests, Pending
  <2>3. CASE db' = BuyOf(s, m) /\ calls' = calls
    <3>1. CallsBy(X)' = CallsBy(X)
      BY <2>3 DEF CallsBy
    <3> QED  BY <1>1, <1>2, <1>5, <2>1, <2>3, <3>1 DEF Runs, Pending
  <2> QED  BY <1>9, <2>2, <2>3 DEF RedisError
<1>10. Execute(s, m) \/ RedisError(s, m) \/ (calls' = calls /\ db' = db)
  BY DEF Serve, FindStore, CreateStore, CreateStoreFails, NoScript, Reply
<1> QED
  BY <1>7, <1>8, <1>9, <1>10

\* A crash leaves no more calls behind than it ends threads, and a late call is one of
\* those pending.
LEMMA OthersPend ==
    ASSUME TypeOK, PendingInv, [Next]_vars, NEW X \in SUBSET Servers,
           \/ \E s \in Servers : Crash(s) \/ Restart(s) \/ FailTimeout(s)
           \/ LateCall \/ RedisRestart \/ Send \/ Finish \/ UNCHANGED vars
    PROVE  Runs(X) \/ Rests(X)
<1>1. /\ IsFiniteSet(CallsBy(X)) /\ IsFiniteSet(WorkAt(X)) /\ Pending(X) \in Nat
      /\ Cardinality(CallsBy(X)) \in Nat /\ Cardinality(WorkAt(X)) \in Nat
  BY PendingType DEF PendingInv
<1>2. /\ faults["redis"] \in Nat /\ faults'["redis"] \in Nat
      /\ faults["redis"] <= faults'["redis"]
  BY FaultsStay
<1>3. CASE \/ \E s \in Servers : Restart(s) \/ FailTimeout(s)
           \/ RedisRestart \/ Send \/ Finish \/ UNCHANGED vars
  <2>1. UNCHANGED <<db, run, calls, threads>> /\ (pc' = "resetting" <=> pc = "resetting")
    BY <1>3 DEF Restart, FailTimeout, RedisRestart, Send, Finish, vars, serverVars
  <2>2. Pending(X)' = Pending(X)
    BY <2>1 DEF Pending, CallsBy, WorkAt
  <2>3. ASSUME NEW n \in Messages PROVE req'[n] = req[n] \/ OnItsWay(n)
    <3>1. CASE Send
      <4>1. PICK m \in Lines : Stage(m) = "unsent" /\ req' = [req EXCEPT ![m] = Balancing({})]
        BY <3>1 DEF Send
      <4>2. Balancing({}).stage = "balancing"
        BY DEF Balancing, Unsent
      <4> QED  BY <4>1, <4>2 DEF OnItsWay, Stage, TypeOK
    <3>2. CASE ~Send
      BY <1>3, <3>2 DEF Restart, FailTimeout, RedisRestart, Finish, vars, serverVars
    <3> QED  BY <3>1, <3>2
  <2> QED  BY <1>1, <1>2, <2>1, <2>2, <2>3 DEF Rests
<1>4. CASE LateCall
  <2>1. PICK c \in calls : /\ calls' = calls \ {c} /\ c.by \in Servers /\ c.of \in Messages
                           /\ db' = db \/ db' = BuyOf(c.by, c.of)
    BY <1>4, LateCallTouches
  <2>2. UNCHANGED <<req, run, pc, threads>>
    BY <1>4 DEF LateCall, serverVars
  <2>3. /\ CallsBy(X)' \subseteq CallsBy(X) /\ WorkAt(X)' = WorkAt(X)
        /\ c.by \in X => c \in CallsBy(X) /\ CallsBy(X)' \subseteq CallsBy(X) \ {c}
    BY <2>1, <2>2 DEF CallsBy, WorkAt
  <2>4. /\ Cardinality(CallsBy(X)') \in Nat /\ Cardinality(CallsBy(X)') <= Cardinality(CallsBy(X))
        /\ c.by \in X => Cardinality(CallsBy(X)') + 1 <= Cardinality(CallsBy(X))
    BY <1>1, <2>3, Counting
  <2>5. Pending(X)' + (IF c.by \in X THEN 1 ELSE 0) <= Pending(X) /\ Pending(X)' \in Nat
    BY <1>1, <2>3, <2>4 DEF Pending
  <2> QED  BY <1>1, <1>2, <2>1, <2>2, <2>5 DEF Runs, Rests
<1>5. ASSUME NEW s \in Servers, Crash(s) PROVE Rests(X)
  <2>1. PICK sent \in SUBSET {Call(s, m) : m \in {n \in Messages : threads[s][n] = "calling"}} :
           calls' = calls \cup sent
    BY <1>5 DEF Crash
  <2>2. /\ IsFiniteSet(sent) /\ Cardinality(sent) <= Cardinality(Left(s, sent))
        /\ IsFiniteSet(Left(s, sent)) /\ Cardinality(Left(s, sent)) \in Nat
        /\ Cardinality(sent) \in Nat /\ \A c \in sent : c.by = s
    BY <2>1, CrashLeaves
  <2>3. /\ UNCHANGED <<db, run, pc, req>> /\ threads' = [threads EXCEPT ![s] = NoThread]
    BY <1>5 DEF Crash
  <2>4. \A t \in Servers, n \in Messages :
           threads'[t][n] = IF t = s THEN "none" ELSE threads[t][n]
    BY <2>3 DEF NoThread, TypeOK
  <2>5. "none" \notin Before /\ "calling" \in Before /\ "calling" # "none"
    BY DEF Before
  <2>6. CASE s \notin X
    <3>1. CallsBy(X)' = CallsBy(X) /\ WorkAt(X)' = WorkAt(X)
      BY <2>1, <2>2, <2>4, <2>6 DEF CallsBy, WorkAt
    <3> QED  BY <1>1, <1>2, <2>3, <3>1 DEF Rests, Pending
  <2>7. CASE s \in X
    <3> DEFINE L == Left(s, sent)
    <3>1. L \subseteq WorkAt(X) /\ WorkAt(X)' \subseteq WorkAt(X) \ L
      <4>1. \A t \in X : t \in Servers
        OBVIOUS
      <4>2. L \subseteq WorkAt(X) /\ WorkAt(X)' \subseteq WorkAt(X)
        BY <2>4, <2>5, <2>7, <4>1 DEF Left, WorkAt
      <4>3. ASSUME NEW m \in L, m \in WorkAt(X)' PROVE FALSE
        <5>1. PICK t \in X : threads'[t][m] \in Before /\ m \in Messages
          BY <4>3 DEF WorkAt
        <5>2. t # s /\ threads[t][m] \in Before
          BY <2>4, <2>5, <4>1, <5>1
        <5>3. threads[s][m] = "calling"
          BY DEF Left
        <5> QED  BY <2>5, <4>1, <5>1, <5>2, <5>3 DEF PendingInv, OneThreadEach
      <4> QED  BY <4>2, <4>3
    <3>2. CallsBy(X)' \subseteq CallsBy(X) \cup sent
      BY <2>1 DEF CallsBy
    <3> HIDE DEF L
    <3>3. Cardinality(WorkAt(X)') \in Nat
          /\ Cardinality(WorkAt(X)') + Cardinality(L) <= Cardinality(WorkAt(X))
      <4>1. L \in SUBSET WorkAt(X) /\ WorkAt(X) \cap L = L
        BY <3>1
      <4>2. /\ IsFiniteSet(WorkAt(X) \ L)
            /\ Cardinality(WorkAt(X) \ L)
                  = Cardinality(WorkAt(X)) - Cardinality(WorkAt(X) \cap L)
        BY <1>1, FS_Difference
      <4>3. Cardinality(WorkAt(X)') \in Nat /\ Cardinality(WorkAt(X)') <= Cardinality(WorkAt(X) \ L)
        BY <3>1, <4>2, Counting
      <4>4. Cardinality(WorkAt(X) \cap L) = Cardinality(L) /\ Cardinality(L) \in Nat
        BY <2>2, <4>1 DEF L
      <4> QED  BY <1>1, <4>2, <4>3, <4>4
    <3>4. Cardinality(CallsBy(X)') \in Nat
          /\ Cardinality(CallsBy(X)') <= Cardinality(CallsBy(X)) + Cardinality(sent)
      <4>1. /\ IsFiniteSet(CallsBy(X) \cup sent) /\ Cardinality(CallsBy(X) \cap sent) \in Nat
            /\ Cardinality(CallsBy(X) \cup sent)
                  = Cardinality(CallsBy(X)) + Cardinality(sent) - Cardinality(CallsBy(X) \cap sent)
        BY <1>1, <2>2, FS_Union, FS_Intersection, FS_CardinalityType
      <4>2. /\ Cardinality(CallsBy(X)') \in Nat
            /\ Cardinality(CallsBy(X)') <= Cardinality(CallsBy(X) \cup sent)
        BY <3>2, <4>1, Counting
      <4> QED  BY <1>1, <2>2, <4>1, <4>2
    <3> QED  BY <1>1, <1>2, <2>2, <2>3, <3>3, <3>4 DEF Rests, Pending, L
  <2> QED  BY <2>6, <2>7
<1> QED
  BY <1>3, <1>4, <1>5

\* So every step that neither begins a run nor resets the keys is one of the three.
LEMMA StepsAreAccounted ==
    ASSUME TypeOK, PendingInv, [Next]_vars, NEW X \in SUBSET Servers,
           ~BeginRun, ~ResetDone, ~ResetGivenUp, ~LateReset
    PROVE  Runs(X) \/ Places(X) \/ Rests(X)
BY BalancerPends, ThreadPends, OthersPend DEF Next, Client, Balance, Failure

\* No step gives up more calls than can be counted.
LEMMA CallsStayFinite ==
    ASSUME PendingInv, [Next]_vars
    PROVE  IsFiniteSet(calls')
<1>1. ASSUME NEW x, calls' \subseteq calls \cup {x} PROVE IsFiniteSet(calls')
  BY <1>1, Counting DEF PendingInv
<1>2. ASSUME NEW s \in Servers, Crash(s) PROVE IsFiniteSet(calls')
  <2>1. PICK sent \in SUBSET {Call(s, m) : m \in {n \in Messages : threads[s][n] = "calling"}} :
           calls' = calls \cup sent
    BY <1>2 DEF Crash
  <2> QED  BY <2>1, CrashLeaves, FS_Union DEF PendingInv
<1>3. ASSUME NEW s \in Servers, NEW m \in Messages, RedisError(s, m) PROVE IsFiniteSet(calls')
  BY <1>1, <1>3 DEF RedisError
<1>4. CASE LateCall
  BY <1>1, <1>4 DEF LateCall
<1>5. \/ calls' = calls \/ LateCall \/ \E s \in Servers : Crash(s)
      \/ \E s \in Servers, m \in Messages : RedisError(s, m)
  BY DEF Next, Client, BeginRun, ResetDone, ResetGivenUp, LateReset, Send, Finish, Balance,
         Forward, ConnectFails, ConnectTimesOut, NoUpstream, ConnectionLost, ReadTimeout,
         FailTimeout, Serve, FindStore, CreateStore, CreateStoreFails, NoScript, Reply,
         Execute, Restart, RedisRestart, Failure, vars
<1> QED  BY <1>1, <1>2, <1>3, <1>4, <1>5 DEF PendingInv

\* A request is never on two servers, and no more calls are given up than can be counted.
LEMMA PendingHolds == Spec => []PendingInv
<1>1. Init => PendingInv
  BY FS_EmptySet DEF Init, PendingInv, OneThreadEach, NoThread
<1>2. TypeOK /\ AnswersInv /\ PendingInv /\ [Next]_vars => PendingInv'
  <2> SUFFICES ASSUME TypeOK, AnswersInv, PendingInv, [Next]_vars PROVE PendingInv'
    OBVIOUS
  <2>1. IsFiniteSet(calls')
    BY CallsStayFinite
  <2>2. ASSUME \A s \in Servers, m \in Messages : threads'[s][m] # "none" => threads[s][m] # "none"
        PROVE  OneThreadEach'
    BY <2>2 DEF PendingInv, OneThreadEach
  <2>3. ASSUME NEW m \in Messages, Moved(m) PROVE OneThreadEach'
    <3>1. ASSUME Stage(m) = "balancing", NEW s \in Servers, NEW t \in Servers,
                 threads'[s][m] # "none", threads'[t][m] # "none"
          PROVE  s = t
      BY <2>3, <3>1 DEF Moved, AnswersInv, UnplacedInNoThread
    <3> QED  BY <2>2, <2>3, <3>1 DEF Moved, PendingInv, OneThreadEach
  <2>4. ASSUME NEW s \in Servers, NEW m \in Messages, Stepped(s, m) PROVE OneThreadEach'
    <3>1. threads[s][m] # "none"
      BY <2>4 DEF Stepped, Ran, Before, Statuses, Outcomes
    <3> QED  BY <2>2, <2>4, <3>1 DEF Stepped
  <2>5. ASSUME NEW s \in Servers, Crash(s) PROVE OneThreadEach'
    <3>1. \A t \in Servers, n \in Messages : threads'[t][n] \in {threads[t][n], "none"}
      BY <2>5 DEF Crash, NoThread, TypeOK
    <3> QED  BY <2>2, <3>1
  <2>6. ASSUME \/ \E s \in Servers : Restart(s) \/ FailTimeout(s)
               \/ Client \/ LateCall \/ RedisRestart \/ LateReset \/ UNCHANGED vars
        PROVE  OneThreadEach'
    <3>1. threads' = threads
      BY <2>6 DEF Restart, FailTimeout, LateCall, RedisRestart, LateReset, Client, BeginRun,
                  ResetDone, ResetGivenUp, Send, Finish, vars, serverVars
    <3> QED  BY <2>2, <3>1
  <2> QED  BY <2>1, <2>3, <2>4, <2>5, <2>6, BalancerMoves, ThreadSteps
              DEF Next, Balance, Failure, PendingInv
<1> QED
  BY <1>1, <1>2, TypeCorrect, AnswersHold, PTL DEF Spec

-----------------------------------------------------------------------------
(* The load.  Each script beyond those of the requests a server has had in *)
(* this run is owed to a broken connection or to an error of an earlier    *)
(* run, and so is each that has yet to run.                                *)

Lost == {m \in Lines : req[m].status = "ERROR"}
Own(s) == {m \in Lines : req[m].at = s /\ req[m].status \in Outcomes}
LoadDebt(s) == ServerByNode(s) - Cardinality(Possible(s))

CountedInv == NoReset /\ Begun => \A s \in Servers : Cardinality(Certain(s)) <= ServerByNode(s)
LoadInv ==
    Steady =>
        \A s \in Servers :
            /\ Begun => LoadDebt(s) + Pending({s}) <= faults["redis"] + Cardinality(EarlierErrors)
            /\ ~Begun => Pending({s}) <= faults["redis"] + Cardinality(EarlierErrors)

\* An error stays one, and the errors of a run are earlier ones when the next begins.
LEMMA ErrorsStay ==
    ASSUME TypeOK, AnswersInv, InCourse, [Next]_vars
    PROVE  /\ IsFiniteSet(Lost) /\ Cardinality(Lost) \in Nat
           /\ Cardinality(EarlierErrors) \in Nat /\ Cardinality(EarlierErrors') \in Nat
           /\ Cardinality(EarlierErrors) <= Cardinality(EarlierErrors')
           /\ BeginRun => Cardinality(EarlierErrors) + Cardinality(Lost) <= Cardinality(EarlierErrors')
<1>1. /\ EarlierErrors \subseteq Messages /\ EarlierErrors' \subseteq Messages /\ Lost \subseteq Messages
  BY DEF EarlierErrors, Lost, Lines
<1>2. /\ IsFiniteSet(EarlierErrors) /\ IsFiniteSet(EarlierErrors') /\ IsFiniteSet(Lost)
      /\ Cardinality(Lost) \in Nat /\ Cardinality(EarlierErrors) \in Nat
      /\ Cardinality(EarlierErrors') \in Nat
  BY <1>1, MessagesAreFinite, Counting
<1>3. \A m \in Messages : m[1] \in Nat /\ m[1] >= 1
  BY MessageType, BenchmarksAssumption
<1>4. run \in Nat /\ run' \in Nat /\ run <= run' /\ (BeginRun => run' = run + 1 /\ req' = req)
  <2>1. run \in Nat
    BY BenchmarksAssumption DEF TypeOK
  <2>2. BeginRun \/ run' = run
    BY DEF Next, Client, ResetDone, ResetGivenUp, LateReset, Send, Finish, Balance,
           Forward, ConnectFails, ConnectTimesOut, NoUpstream, ConnectionLost, ReadTimeout,
           FailTimeout, Serve, FindStore, CreateStore, CreateStoreFails, NoScript, Reply,
           Execute, RedisError, Crash, LateCall, Restart, RedisRestart, Failure, vars
  <2> QED  BY <2>1, <2>2 DEF BeginRun
<1>5. ASSUME NEW m \in Messages, req[m].status = "ERROR", m[1] < run
      PROVE  req'[m] = req[m]
  <2>1. Stage(m) \notin {"unsent", "balancing", "sent"}
    <3>1. m[1] # run
      BY <1>3, <1>4, <1>5
    <3> QED  BY <1>5, <3>1 DEF AnswersInv, UnplacedInNoThread, InCourse
  <2>2. ASSUME NEW n \in Messages, Moved(n) PROVE req'[m] = req[m]
    BY <2>1, <2>2 DEF Moved
  <2>3. ASSUME NEW s \in Servers, NEW n \in Messages, Stepped(s, n) PROVE req'[m] = req[m]
    BY <2>1, <2>3 DEF Stepped, Ran
  <2>4. CASE Send
    BY <2>1, <2>4 DEF Send, TypeOK
  <2>5. ASSUME \/ \E s \in Servers : Restart(s) \/ FailTimeout(s) \/ Crash(s)
               \/ BeginRun \/ ResetDone \/ ResetGivenUp \/ Finish
               \/ LateCall \/ RedisRestart \/ LateReset \/ UNCHANGED vars
        PROVE  req'[m] = req[m]
    BY <2>5 DEF Restart, FailTimeout, Crash, LateCall, RedisRestart, LateReset, BeginRun,
                ResetDone, ResetGivenUp, Finish, vars
  <2> QED  BY <2>2, <2>3, <2>4, <2>5, BalancerMoves, ThreadSteps
              DEF Next, Client, Balance, Failure
<1>6. EarlierErrors \subseteq EarlierErrors'
  BY <1>3, <1>4, <1>5 DEF EarlierErrors
<1>7. ASSUME BeginRun
      PROVE  Cardinality(EarlierErrors) + Cardinality(Lost) <= Cardinality(EarlierErrors')
  <2>1. EarlierErrors \cap Lost = {} /\ EarlierErrors \cup Lost \subseteq EarlierErrors'
    BY <1>3, <1>4, <1>6, <1>7 DEF EarlierErrors, Lost, Lines
  <2>2. /\ IsFiniteSet(EarlierErrors \cup Lost)
        /\ Cardinality(EarlierErrors \cup Lost)
              = Cardinality(EarlierErrors) + Cardinality(Lost) - Cardinality(EarlierErrors \cap Lost)
    BY <1>2, FS_Union
  <2>3. Cardinality(EarlierErrors \cup Lost) <= Cardinality(EarlierErrors')
    BY <1>2, <2>1, Counting
  <2> QED  BY <1>2, <2>1, <2>2, <2>3, FS_EmptySet
<1>8. Cardinality(EarlierErrors) <= Cardinality(EarlierErrors')
  BY <1>2, <1>6, Counting
<1> QED
  BY <1>2, <1>7, <1>8

\* No two servers share a name: it is set for each of them, or made of its port
\* and process id (server.py:32).
DistinctNames == \A s, t \in Servers : s.node_id = t.node_id => s = t

\* A script adds to the debt of its server; a request that is handed to a server pays for
\* one; nothing else adds to it.
LEMMA LoadDebtSteps ==
    ASSUME TypeOK, InCourse, DistinctNames, NEW t \in Servers, Begun
    PROVE  /\ LoadDebt(t) \in Int
           /\ \A s \in Servers, m \in Messages :
                 db' = BuyOf(s, m) /\ UNCHANGED <<req, run, pc>> =>
                    LoadDebt(t)' \in Int /\ LoadDebt(t)' = LoadDebt(t) + (IF s = t THEN 1 ELSE 0)
           /\ \A s \in Servers, m \in Messages :
                 Forward(m, s) =>
                    LoadDebt(t)' \in Int /\ LoadDebt(t)' <= LoadDebt(t) - (IF s = t THEN 1 ELSE 0)
           /\ UNCHANGED <<db, run>> /\ (\A m \in Messages : req'[m] = req[m] \/ OnItsWay(m)) =>
                 LoadDebt(t)' \in Int /\ LoadDebt(t)' <= LoadDebt(t)
<1>1. /\ IsFiniteSet(Possible(t)) /\ Cardinality(Possible(t)) \in Nat /\ ServerByNode(t) \in Nat
  BY LoadType
<1>2. LoadDebt(t) \in Int
  BY <1>1 DEF LoadDebt
<1>3. ASSUME NEW s \in Servers, NEW m \in Messages, db' = BuyOf(s, m), UNCHANGED <<req, run, pc>>
      PROVE  LoadDebt(t)' \in Int /\ LoadDebt(t)' = LoadDebt(t) + (IF s = t THEN 1 ELSE 0)
  <2>1. Possible(t)' = Possible(t)
    BY <1>3 DEF Possible, Lines, Stage
  <2>2. ServerByNode(t)' = ServerByNode(t) + (IF s = t THEN 1 ELSE 0)
    BY <1>1, <1>3, ScriptIsCounted DEF DistinctNames
  <2> QED  BY <1>1, <2>1, <2>2 DEF LoadDebt
<1>4. ASSUME db' = db, run' = run PROVE ServerByNode(t)' = ServerByNode(t) /\ Lines' = Lines
  BY <1>4, NotCounted DEF Lines
<1>5. ASSUME db' = db, run' = run
      PROVE  IsFiniteSet(Possible(t)') /\ Cardinality(Possible(t)') \in Nat
  <2>1. Possible(t)' \subseteq Lines
    BY <1>4, <1>5 DEF Possible
  <2> QED  BY <2>1, LinesAreFinite, Counting
<1>6. ASSUME NEW s \in Servers, NEW m \in Messages, Forward(m, s)
      PROVE  LoadDebt(t)' \in Int /\ LoadDebt(t)' <= LoadDebt(t) - (IF s = t THEN 1 ELSE 0)
  <2>1. /\ Stage(m) = "balancing" /\ UNCHANGED <<db, run>>
        /\ req' = [req EXCEPT ![m] = Sent(req[m].tried \cup {s}, s)]
    BY <1>6 DEF Forward
  <2>2. Sent(req[m].tried \cup {s}, s).stage = "sent" /\ Sent(req[m].tried \cup {s}, s).at = s
    BY DEF Sent
  <2>3. /\ Stage(m)' = "sent" /\ req'[m].at = s /\ m \in Lines
        /\ \A n \in Messages : n # m => req'[n] = req[n]
    BY <2>1, <2>2 DEF Stage, TypeOK, InCourse, Lines
  <2>4. m \notin Possible(t) /\ Possible(t) \subseteq Possible(t)' \ (IF s = t THEN {m} ELSE {})
        /\ (s = t => m \in Possible(t)')
    BY <1>4, <2>1, <2>3 DEF Possible, Stage, Lines
  <2>5. Cardinality(Possible(t)) + (IF s = t THEN 1 ELSE 0) <= Cardinality(Possible(t)')
    <3>1. CASE s = t
      <4>1. m \in Possible(t)' /\ Possible(t) \subseteq Possible(t)' \ {m}
        BY <2>4, <3>1
      <4> QED  BY <1>5, <2>1, <3>1, <4>1, Counting
    <3>2. CASE s # t
      <4>1. Possible(t) \subseteq Possible(t)'
        BY <2>4, <3>2
      <4>2. Cardinality(Possible(t)) <= Cardinality(Possible(t)')
        BY <1>5, <2>1, <4>1, Counting
      <4> QED  BY <1>1, <3>2, <4>2
    <3> QED  BY <3>1, <3>2
  <2> QED  BY <1>1, <1>4, <1>5, <2>1, <2>5 DEF LoadDebt
<1>7. ASSUME UNCHANGED <<db, run>>, \A m \in Messages : req'[m] = req[m] \/ OnItsWay(m)
      PROVE  LoadDebt(t)' \in Int /\ LoadDebt(t)' <= LoadDebt(t)
  <2>1. Possible(t) \subseteq Possible(t)'
    BY <1>4, <1>7 DEF Possible, OnItsWay, Stage, Lines
  <2>2. Cardinality(Possible(t)) <= Cardinality(Possible(t)')
    BY <1>5, <1>7, <2>1, Counting
  <2> QED  BY <1>1, <1>4, <1>5, <1>7, <2>2 DEF LoadDebt
<1> QED
  BY <1>2, <1>3, <1>6, <1>7

\* A step that runs no script and resets nothing leaves the debt as it is.
LEMMA LoadIsPaid ==
    ASSUME TypeOK, AnswersInv, InCourse, PendingInv, DistinctNames, [Next]_vars, NEW t \in Servers,
           ~BeginRun, ~ResetDone, ~ResetGivenUp, ~LateReset,
           Begun => LoadDebt(t) + Pending({t}) <= faults["redis"] + Cardinality(EarlierErrors),
           ~Begun => Pending({t}) <= faults["redis"] + Cardinality(EarlierErrors)
    PROVE  /\ Begun' =>
                 LoadDebt(t)' + Pending({t})' <= faults'["redis"] + Cardinality(EarlierErrors')
           /\ ~Begun' => Pending({t})' <= faults'["redis"] + Cardinality(EarlierErrors')
<1>1. /\ Cardinality(EarlierErrors) \in Nat /\ Cardinality(EarlierErrors') \in Nat
      /\ Cardinality(EarlierErrors) <= Cardinality(EarlierErrors')
  BY ErrorsStay
<1>2. faults["redis"] \in Nat /\ faults'["redis"] \in Nat
  BY FaultsStay
<1>3. Pending({t}) \in Nat
  BY PendingType DEF PendingInv
<1>4. /\ Pending({t})' \in Int /\ (Begun' <=> Begun)
      /\ Begun => LoadDebt(t) \in Int /\ LoadDebt(t)' \in Int
                  /\ LoadDebt(t)' + Pending({t})' + faults["redis"]
                        <= LoadDebt(t) + Pending({t}) + faults'["redis"]
      /\ \/ Pending({t})' + faults["redis"] <= Pending({t}) + faults'["redis"]
         \/ Begun
  <2>1. Runs({t}) \/ Places({t}) \/ Rests({t})
    BY StepsAreAccounted
  <2>2. Pending({t})' \in Int
    <3>1. IsFiniteSet(calls')
      BY CallsStayFinite
    <3>2. CallsBy({t})' \subseteq calls' /\ WorkAt({t})' \subseteq Messages
      BY DEF CallsBy, WorkAt
    <3>3. Cardinality(CallsBy({t})') \in Nat /\ Cardinality(WorkAt({t})') \in Nat
      BY <3>1, <3>2, MessagesAreFinite, Counting
    <3> QED  BY <3>3 DEF Pending
  <2>3. CASE Runs({t})
    <3>1. PICK s \in Servers, m \in Messages :
             /\ db' = BuyOf(s, m) /\ UNCHANGED <<req, run, pc>>
             /\ Pending({t})' + (IF s = t THEN 1 ELSE 0) + faults["redis"]
                   <= Pending({t}) + faults'["redis"]
      BY <2>3 DEF Runs
    <3>2. Begun' <=> Begun
      BY <3>1 DEF Begun
    <3>3. Begun => /\ LoadDebt(t) \in Int /\ LoadDebt(t)' \in Int
                   /\ LoadDebt(t)' = LoadDebt(t) + (IF s = t THEN 1 ELSE 0)
      BY <3>1, LoadDebtSteps
    <3> HIDE DEF LoadDebt
    <3> QED  BY <1>2, <1>3, <2>2, <3>1, <3>2, <3>3
  <2>4. CASE Places({t})
    <3>1. PICK m \in Messages, s \in Servers :
             /\ Forward(m, s)
             /\ Pending({t})' + faults["redis"]
                   <= Pending({t}) + (IF s = t THEN 1 ELSE 0) + faults'["redis"]
      BY <2>4 DEF Places
    <3>2. Begun /\ Begun'
      BY <3>1 DEF Begun, Forward, InCourse
    <3>3. /\ LoadDebt(t) \in Int /\ LoadDebt(t)' \in Int
          /\ LoadDebt(t)' <= LoadDebt(t) - (IF s = t THEN 1 ELSE 0)
      BY <3>1, <3>2, LoadDebtSteps
    <3> QED  BY <1>2, <1>3, <2>2, <3>1, <3>2, <3>3
  <2>5. CASE Rests({t})
    <3>1. Begun' <=> Begun
      BY <2>5 DEF Begun, Rests
    <3>2. Begun => LoadDebt(t) \in Int /\ LoadDebt(t)' \in Int /\ LoadDebt(t)' <= LoadDebt(t)
      BY <2>5, LoadDebtSteps DEF Rests
    <3> QED  BY <1>2, <1>3, <2>2, <2>5, <3>1, <3>2 DEF Rests
  <2> QED  BY <2>1, <2>3, <2>4, <2>5
<1>5. CASE Begun
  BY <1>1, <1>2, <1>3, <1>4, <1>5
<1>6. CASE ~Begun
  BY <1>1, <1>2, <1>3, <1>4, <1>6
<1> QED
  BY <1>5, <1>6

\* When a run ends a server has run no fewer scripts than its requests that were answered.
LEMMA RunsPayTheirOwn ==
    ASSUME TypeOK, InCourse, NEW t \in Servers, pc \in {"idle", "finished", "failed"},
           Cardinality(Certain(t)) <= ServerByNode(t)
    PROVE  /\ LoadDebt(t) \in Int /\ 0 <= LoadDebt(t) + Cardinality(Lost)
           /\ Cardinality(Own(t)) \in Nat /\ Cardinality(Lost) \in Nat
           /\ ClientByNode(t) = Cardinality(Own(t)) /\ ClientByNode(t) <= ServerByNode(t)
           /\ ServerByNode(t) <= LoadDebt(t) + Cardinality(Own(t)) + Cardinality(Lost)
<1>1. /\ IsFiniteSet(Certain(t)) /\ IsFiniteSet(Possible(t))
      /\ Cardinality(Certain(t)) \in Nat /\ Cardinality(Possible(t)) \in Nat
      /\ ServerByNode(t) \in Nat
  BY LoadType
<1>2. Own(t) \subseteq Certain(t) /\ Own(t) \subseteq Lines /\ Lost \subseteq Lines
  BY DEF Certain, Own, Lost
<1>3. Possible(t) \subseteq Own(t) \cup Lost
  <2>1. \A m \in Lines : Stage(m) = "done" /\ req[m].status \in Outcomes \cup {"ERROR"}
    BY DEF InCourse, Lines, Statuses
  <2> QED  BY <2>1 DEF Possible, Own, Lost
<1>4. /\ IsFiniteSet(Own(t)) /\ IsFiniteSet(Lost)
      /\ Cardinality(Own(t)) \in Nat /\ Cardinality(Lost) \in Nat
  BY <1>2, LinesAreFinite, Counting
<1>5. Cardinality(Own(t)) <= Cardinality(Certain(t))
  BY <1>1, <1>2, Counting
<1>6. Cardinality(Possible(t)) <= Cardinality(Own(t)) + Cardinality(Lost)
  <2>1. /\ IsFiniteSet(Own(t) \cup Lost) /\ Cardinality(Own(t) \cap Lost) \in Nat
        /\ Cardinality(Own(t) \cup Lost)
              = Cardinality(Own(t)) + Cardinality(Lost) - Cardinality(Own(t) \cap Lost)
    BY <1>4, FS_Union, FS_Intersection, FS_CardinalityType
  <2>2. Cardinality(Possible(t)) <= Cardinality(Own(t) \cup Lost)
    BY <1>3, <2>1, Counting
  <2> QED  BY <1>1, <1>4, <2>1, <2>2
<1>7. ClientByNode(t) = Cardinality(Own(t))
  BY DEF ClientByNode, Own
<1> QED
  BY <1>1, <1>4, <1>5, <1>6, <1>7 DEF LoadDebt

\* The two views of the load agree: a server has run a script for every request the client
\* counts as its own, and, as long as a server was there to be reset, for at most as many
\* more as there were errors, in this run or earlier, and broken connections to Redis.
THEOREM LoadViewsMatch == ASSUME DistinctNames PROVE Spec => []LoadViewsAgree
<1>1. Init => InCourse /\ CountedInv /\ LoadInv
  <2> SUFFICES ASSUME Init PROVE InCourse /\ CountedInv /\ LoadInv
    OBVIOUS
  <2>1. \A m \in Messages : Stage(m) = "unsent"
    BY DEF Init, Stage, Unsent
  <2>2. Lines = {} /\ EarlierErrors = {} /\ Lost = {}
    BY MessageType DEF Init, Lines, EarlierErrors, Lost
  <2>3. pc = "idle" /\ reset = "settled" /\ \A s \in Servers : alive[s]
    BY DEF Init
  <2>4. InCourse
    BY <2>1, <2>2, <2>3 DEF InCourse
  <2>5. \A s \in Servers : Certain(s) = {} /\ Possible(s) = {} /\ CallsBy({s}) = {} /\ WorkAt({s}) = {}
    BY <2>2 DEF Certain, Possible, Init, CallsBy, WorkAt, NoThread, Before
  <2>6. \A s \in Servers : ServerByNode(s) = 0
    BY ServerType DEF Init, ServerByNode, EmptyDb, NoLoad, ARCHITECTURES, Nodes, Servers
  <2>7. faults["redis"] = 0
    BY DEF Init, FaultKinds
  <2>8. ASSUME NEW S, S = {} PROVE Cardinality(S) = 0
    BY Zenon, <2>8, FS_EmptySet
  <2>9. CountedInv
    <3>1. \A s \in Servers : Cardinality(Certain(s)) = 0
      BY <2>5, <2>8
    <3> QED  BY <2>6, <3>1 DEF CountedInv
  <2>10. ASSUME NEW s \in Servers
         PROVE  /\ LoadDebt(s) + Pending({s}) <= faults["redis"] + Cardinality(EarlierErrors)
                /\ Pending({s}) <= faults["redis"] + Cardinality(EarlierErrors)
    <3>1. LoadDebt(s) = 0
      <4>1. Cardinality(Possible(s)) = 0
        BY <2>5, <2>8
      <4> QED  BY <2>6, <4>1 DEF LoadDebt
    <3>2. Pending({s}) = 0
      <4>1. Cardinality(CallsBy({s})) = 0 /\ Cardinality(WorkAt({s})) = 0
        BY <2>5, <2>8
      <4> QED  BY <4>1 DEF Pending
    <3>3. Cardinality(EarlierErrors) = 0
      BY <2>2, <2>8
    <3> QED  BY <2>7, <3>1, <3>2, <3>3
  <2>11. LoadInv
    BY <2>10 DEF LoadInv
  <2> QED  BY <2>4, <2>9, <2>11
<1>2. TypeOK /\ AnswersInv /\ PendingInv /\ InCourse /\ CountedInv /\ LoadInv /\ [Next]_vars
      => InCourse' /\ CountedInv' /\ LoadInv'
  <2> SUFFICES ASSUME TypeOK, AnswersInv, PendingInv, InCourse, CountedInv, LoadInv, [Next]_vars
               PROVE  InCourse' /\ CountedInv' /\ LoadInv'
    OBVIOUS
  <2>1. InCourse'
    BY CourseKept
  <2>2. (NoReset' => NoReset) /\ (Steady' => Steady) /\ (Fault("reset") => ~Steady')
    BY FaultsStay DEF Steady
  <2>3. ASSUME NoReset', Begun', NEW t \in Servers
        PROVE  Cardinality(Certain(t)') <= ServerByNode(t)'
    BY <2>2, <2>3, CertainIsCounted DEF CountedInv
  <2>4. ASSUME Steady', NEW t \in Servers
        PROVE  /\ Begun' =>
                     LoadDebt(t)' + Pending({t})' <= faults'["redis"] + Cardinality(EarlierErrors')
               /\ ~Begun' => Pending({t})' <= faults'["redis"] + Cardinality(EarlierErrors')
    <3>1. /\ Steady /\ reset = "settled"
          /\ Begun => LoadDebt(t) + Pending({t}) <= faults["redis"] + Cardinality(EarlierErrors)
          /\ ~Begun => Pending({t}) <= faults["redis"] + Cardinality(EarlierErrors)
      BY <2>2, <2>4 DEF LoadInv, InCourse, Steady
    <3>2. ~LateReset /\ ~ResetGivenUp
      <4>1. ASSUME ResetGivenUp PROVE FALSE
        <5>1. \A s \in Servers : ~alive[s]
          BY <2>2, <2>4, <4>1 DEF ResetGivenUp
        <5>2. crashed = Servers
          BY <5>1 DEF InCourse, TypeOK
        <5> QED  BY <3>1, <5>2 DEF Steady
      <4> QED  BY <3>1, <4>1 DEF LateReset
    <3>3. /\ faults["redis"] \in Nat /\ Pending({t}) \in Nat
          /\ Cardinality(EarlierErrors) \in Nat /\ Cardinality(EarlierErrors') \in Nat
          /\ Cardinality(EarlierErrors) <= Cardinality(EarlierErrors')
      BY FaultsStay, PendingType, ErrorsStay DEF PendingInv
    <3>4. CASE BeginRun
      <4>1. /\ UNCHANGED <<db, calls, threads, faults>> /\ pc \in {"idle", "finished", "failed"}
            /\ pc' = "resetting"
        BY <3>4 DEF BeginRun, serverVars
      <4>2. Pending({t})' = Pending({t}) /\ ~Begun' /\ Begun
        BY <4>1 DEF Pending, CallsBy, WorkAt, Begun
      <4>3. LoadDebt(t) \in Int /\ 0 <= LoadDebt(t) + Cardinality(Lost) /\ Cardinality(Lost) \in Nat
        BY <3>1, <4>1, <4>2, RunsPayTheirOwn DEF CountedInv, Steady
      <4>4. Cardinality(EarlierErrors) + Cardinality(Lost) <= Cardinality(EarlierErrors')
        BY <3>4, ErrorsStay
      <4> QED  BY <3>1, <3>3, <4>1, <4>2, <4>3, <4>4
    <3>5. CASE ResetDone
      <4>1. /\ UNCHANGED <<calls, threads, faults, run, req>> /\ pc = "resetting" /\ pc' = "sending"
            /\ db' = EmptyDb
        BY <3>5 DEF ResetDone
      <4>2. Pending({t})' = Pending({t}) /\ ~Begun /\ Begun'
        BY <4>1 DEF Pending, CallsBy, WorkAt, Begun
      <4>3. ServerByNode(t)' = 0
        BY <4>1, ServerType DEF ServerByNode, EmptyDb, NoLoad, ARCHITECTURES, Nodes, Servers
      <4>4. Possible(t)' = {}
        <5>1. \A m \in Lines : Stage(m) = "unsent"
          BY <4>1 DEF AnswersInv, FutureUnsent, Lines, Stage, Unsent
        <5> QED  BY <4>1, <5>1 DEF Possible, Lines, Stage
      <4>5. LoadDebt(t)' = 0
        BY <4>3, <4>4, FS_EmptySet DEF LoadDebt
      <4> QED  BY <3>1, <3>3, <4>1, <4>2, <4>5
    <3>6. CASE ~BeginRun /\ ~ResetDone
      BY <3>1, <3>2, <3>6, LoadIsPaid
    <3> QED  BY <3>4, <3>5, <3>6
  <2> QED  BY <2>1, <2>3, <2>4 DEF CountedInv, LoadInv
<1>3. TypeOK /\ PendingInv /\ InCourse /\ CountedInv /\ LoadInv => LoadViewsAgree
  <2> SUFFICES ASSUME TypeOK, PendingInv, InCourse, CountedInv, LoadInv, pc = "finished", NoReset,
                      NEW s \in Servers
               PROVE  /\ ClientByNode(s) <= ServerByNode(s)
                      /\ crashed # Servers =>
                            ServerByNode(s)
                               <= ClientByNode(s) + Cardinality(Errors) + faults["redis"]
    BY DEF LoadViewsAgree, NoReset
  <2>1. /\ LoadDebt(s) \in Int /\ Cardinality(Own(s)) \in Nat /\ Cardinality(Lost) \in Nat
        /\ ClientByNode(s) = Cardinality(Own(s)) /\ ClientByNode(s) <= ServerByNode(s)
        /\ ServerByNode(s) <= LoadDebt(s) + Cardinality(Own(s)) + Cardinality(Lost)
    BY RunsPayTheirOwn DEF CountedInv, Begun
  <2>2. ASSUME crashed # Servers
        PROVE  ServerByNode(s) <= ClientByNode(s) + Cardinality(Errors) + faults["redis"]
    <3>1. LoadDebt(s) + Pending({s}) <= faults["redis"] + Cardinality(EarlierErrors)
      BY <2>2 DEF LoadInv, Begun, Steady
    <3>2. Pending({s}) \in Nat /\ faults["redis"] \in Nat /\ ServerByNode(s) \in Nat
      BY PendingType, LoadType DEF PendingInv, TypeOK, FaultKinds
    <3>3. /\ Cardinality(EarlierErrors) \in Nat /\ Cardinality(Errors) \in Nat
          /\ Cardinality(EarlierErrors) + Cardinality(Lost) <= Cardinality(Errors)
      <4>1. /\ EarlierErrors \subseteq Messages /\ Lost \subseteq Messages /\ Errors \subseteq Messages
            /\ EarlierErrors \cup Lost \subseteq Errors
        BY DEF EarlierErrors, Lost, Errors, Lines
      <4>2. \A m \in Messages : m[1] \in Nat
        BY MessageType, BenchmarksAssumption
      <4>3. EarlierErrors \cap Lost = {}
        BY <4>2 DEF EarlierErrors, Lost, Lines
      <4>4. /\ IsFiniteSet(EarlierErrors) /\ IsFiniteSet(Lost) /\ IsFiniteSet(Errors)
            /\ Cardinality(EarlierErrors) \in Nat /\ Cardinality(Errors) \in Nat
        BY <4>1, MessagesAreFinite, Counting
      <4>5. /\ IsFiniteSet(EarlierErrors \cup Lost)
            /\ Cardinality(EarlierErrors \cup Lost)
                  = Cardinality(EarlierErrors) + Cardinality(Lost) - Cardinality(EarlierErrors \cap Lost)
        BY <4>4, FS_Union
      <4>6. Cardinality(EarlierErrors \cup Lost) <= Cardinality(Errors)
        BY <4>1, <4>4, Counting
      <4> QED  BY <2>1, <4>3, <4>4, <4>5, <4>6, FS_EmptySet
    <3> QED  BY <2>1, <3>1, <3>2, <3>3
  <2> QED  BY <2>1, <2>2
<1> QED
  BY <1>1, <1>2, <1>3, TypeCorrect, AnswersHold, PendingHolds, PTL DEF Spec

-----------------------------------------------------------------------------
(* Replays.  Every script that has yet to run may be the first for a line  *)
(* of the run or the first for its id, so the replays of a run are at most *)
(* the scripts there may be, less the lines that wait for their first one. *)
(* That sum grows when a connection breaks, and no other step adds to it;  *)
(* what is left over from a run are errors the client was told of.         *)

Unplaced == {m \in Lines : Stage(m) \in {"unsent", "balancing"}}
Open == WorkAt(Servers) \cup Unplaced
Fresh ==
    {m \in Lines :
        Outcome(db, Op(m)) = "nil" /\ (m \in Open \/ \E c \in calls : c.of = m)}
Replays == db.metrics["direct"].replays
Chances == Cardinality(Open) + Cardinality(calls)

ReplayInv ==
    Steady =>
        /\ Begun => Replays + Chances - Cardinality(Fresh)
                       <= faults["redis"] + Cardinality(EarlierErrors)
        /\ ~Begun => Replays + Pending(Servers) <= faults["redis"] + Cardinality(EarlierErrors)

\* What a step may cost: a replay, a chance more or a line less that waits is paid for by
\* a broken connection.
Paid ==
    Replays' + Chances' - Cardinality(Fresh') + faults["redis"]
        <= Replays + Chances - Cardinality(Fresh) + faults'["redis"]

\* All of it can be counted, before a step and after it.
LEMMA ChancesType ==
    ASSUME TypeOK, TypeOK', PendingInv, [Next]_vars
    PROVE  /\ IsFiniteSet(Open) /\ Cardinality(Open) \in Nat
           /\ IsFiniteSet(calls) /\ Cardinality(calls) \in Nat
           /\ IsFiniteSet(Fresh) /\ Cardinality(Fresh) \in Nat
           /\ IsFiniteSet(Open') /\ Cardinality(Open') \in Nat
           /\ IsFiniteSet(calls') /\ Cardinality(calls') \in Nat
           /\ IsFiniteSet(Fresh') /\ Cardinality(Fresh') \in Nat
           /\ Replays \in Nat /\ Replays' \in Nat
<1>1. /\ Open \subseteq Messages /\ Open' \subseteq Messages
      /\ Fresh \subseteq Messages /\ Fresh' \subseteq Messages
  BY DEF Open, WorkAt, Unplaced, Fresh, Lines
<1>2. IsFiniteSet(calls) /\ IsFiniteSet(calls')
  BY CallsStayFinite DEF PendingInv
<1>3. Replays \in Nat /\ Replays' \in Nat
  BY DEF TypeOK, Db, ARCHITECTURES, Replays, Metrics
<1> HIDE DEF TypeOK
<1> QED
  BY <1>1, <1>2, <1>3, MessagesAreFinite, Counting

\* A script either decides one line at most, its own if that is of the run, or is counted
\* as a replay and decides none.
LEMMA ScriptDecides ==
    ASSUME UniqueLines, TypeOK, NEW s \in Servers, NEW m \in Messages, db' = BuyOf(s, m)
    PROVE  \/ /\ Replays' = Replays + 1 /\ Outcome(db, Op(m)) # "nil"
              /\ \A n \in Messages : Outcome(db', Op(n)) = Outcome(db, Op(n))
           \/ /\ Replays' = Replays
              /\ \E y : \A n \in Lines :
                    n = y \/ (n # m /\ Outcome(db', Op(n)) = Outcome(db, Op(n)))
<1>1. Op(m) \in Purchases /\ s \in Stores /\ s.arch = "direct" /\ db \in Db
  BY MessageType, ServerType DEF TypeOK
<1>2. Replays' = Replays + (IF IsReplay(db, Op(m)) THEN 1 ELSE 0)
  <2>1. db' = Buy(db, s, Op(m), 0, 0)
    BY DEF BuyOf
  <2>2. Buy(db, s, Op(m), 0, 0).metrics =
           [db.metrics EXCEPT ![s.arch] =
               RecordMetrics(@, IsReplay(db, Op(m)), Outcome(Sell(db, Op(m)), Op(m)), 0, 0)]
    BY <1>1, BuyMetrics
  <2>3. "direct" \in DOMAIN db.metrics
    BY <1>1 DEF Db, ARCHITECTURES
  <2>4. db'.metrics["direct"] =
           RecordMetrics(db.metrics["direct"], IsReplay(db, Op(m)), Outcome(Sell(db, Op(m)), Op(m)), 0, 0)
    BY <1>1, <2>1, <2>2, <2>3
  <2> QED  BY <2>4 DEF RecordMetrics, Replays
<1>3. \A n \in Messages :
         /\ Op(n) \in Purchases
         /\ \/ Outcome(db', Op(n)) = Outcome(db, Op(n))
            \/ Op(n).type = Op(m).type /\ Op(n).request_id = Op(m).request_id
  BY <1>1, BuyOutcomes, MessageType DEF BuyOf
<1>4. CASE IsReplay(db, Op(m))
  <2>1. Outcome(db, Op(m)) # "nil"
    BY <1>4 DEF IsReplay
  <2>2. ASSUME NEW n \in Messages PROVE Outcome(db', Op(n)) = Outcome(db, Op(n))
    <3>1. CASE Op(n).type = Op(m).type /\ Op(n).request_id = Op(m).request_id
      <4>1. Outcome(db, Op(n)) # "nil"
        BY <2>1, <3>1 DEF Outcome
      <4> QED  BY <1>1, <1>3, <4>1, ScriptKeepsOutcomes
    <3> QED  BY <1>3, <3>1
  <2>3. Replays \in Nat
    BY DEF TypeOK, Db, ARCHITECTURES, Replays, Metrics
  <2> QED  BY <1>2, <1>4, <2>1, <2>2, <2>3
<1>5. CASE ~IsReplay(db, Op(m))
  <2>1. Replays \in Nat
    BY DEF TypeOK, Db, ARCHITECTURES, Replays, Metrics
  <2>2. \A n, k \in Lines : n[1] = k[1] /\ n \in Messages
    BY DEF Lines
  <2>3. CASE m \in Lines
    <3>1. \A n \in Lines : n = m \/ (n # m /\ Outcome(db', Op(n)) = Outcome(db, Op(n)))
      BY <1>3, <2>2, <2>3 DEF UniqueLines
    <3> QED  BY <1>2, <1>5, <2>1, <3>1
  <2>4. CASE \E y \in Lines : Op(y).type = Op(m).type /\ Op(y).request_id = Op(m).request_id /\ m \notin Lines
    <3>1. PICK y \in Lines : /\ Op(y).type = Op(m).type /\ Op(y).request_id = Op(m).request_id
                             /\ m \notin Lines
      BY <2>4
    <3>2. \A n \in Lines : n = y \/ (n # m /\ Outcome(db', Op(n)) = Outcome(db, Op(n)))
      BY <1>3, <2>2, <3>1 DEF UniqueLines
    <3> QED  BY <1>2, <1>5, <2>1, <3>2
  <2>5. CASE m \notin Lines /\ \A y \in Lines : ~(Op(y).type = Op(m).type /\ Op(y).request_id = Op(m).request_id)
    <3>1. \A n \in Lines : n # m /\ Outcome(db', Op(n)) = Outcome(db, Op(n))
      BY <1>3, <2>2, <2>5
    <3> QED  BY <1>2, <1>5, <2>1, <3>1
  <2> QED  BY <2>3, <2>4, <2>5
<1> QED
  BY <1>4, <1>5

\* A step that takes a chance away, or breaks a connection, is paid for, whatever script
\* it runs for the request concerned.
LEMMA OneChanceLess ==
    ASSUME UniqueLines, TypeOK, TypeOK', PendingInv, [Next]_vars, run' = run, NEW m \in Messages,
           db' = db \/ \E s \in Servers : db' = BuyOf(s, m),
           Open \ {m} \subseteq Open', \A c \in calls : c.of # m => c \in calls',
           Chances' + 1 + faults["redis"] <= Chances + faults'["redis"]
    PROVE  Paid
<1>1. /\ Cardinality(Fresh) \in Nat /\ Cardinality(Fresh') \in Nat /\ Chances \in Nat /\ Chances' \in Nat
      /\ Replays \in Nat /\ Replays' \in Nat /\ IsFiniteSet(Fresh')
  BY ChancesType DEF Chances
<1>2. /\ faults["redis"] \in Nat /\ faults'["redis"] \in Nat
  BY FaultsStay
<1>3. Lines' = Lines
  BY DEF Lines
<1>4. \A n \in Fresh : n # m => n \in Open' \/ \E c \in calls' : c.of = n
  BY DEF Fresh
<1>5. ASSUME NEW y, \A n \in Lines : n = y \/ (n # m /\ Outcome(db', Op(n)) = Outcome(db, Op(n))),
             Replays' = Replays
      PROVE  Paid
  <2>1. Fresh \subseteq Fresh' \cup {y}
    BY <1>3, <1>4, <1>5 DEF Fresh
  <2>2. Cardinality(Fresh) <= Cardinality(Fresh') + 1
    BY <1>1, <2>1, Counting
  <2> QED  BY <1>1, <1>2, <1>5, <2>2 DEF Paid
<1>6. ASSUME Replays' = Replays + 1, Outcome(db, Op(m)) # "nil",
             \A n \in Messages : Outcome(db', Op(n)) = Outcome(db, Op(n))
      PROVE  Paid
  <2>1. Fresh \subseteq Fresh'
    BY <1>3, <1>4, <1>6 DEF Fresh, Lines
  <2>2. Cardinality(Fresh) <= Cardinality(Fresh')
    BY <1>1, <2>1, Counting
  <2> QED  BY <1>1, <1>2, <1>6, <2>2 DEF Paid
<1>7. CASE db' = db
  <2>1. \A n \in Lines : n = m \/ (n # m /\ Outcome(db', Op(n)) = Outcome(db, Op(n)))
    BY <1>7
  <2>2. Replays' = Replays
    BY <1>7 DEF Replays
  <2> QED  BY <1>5, <2>1, <2>2
<1>8. CASE \E s \in Servers : db' = BuyOf(s, m)
  BY <1>5, <1>6, <1>8, ScriptDecides
<1> QED
  BY <1>7, <1>8

\* A step that runs no script and takes nothing from the lines that wait is paid for if
\* every chance it gives is.
LEMMA NoChanceMore ==
    ASSUME TypeOK, TypeOK', PendingInv, [Next]_vars, UNCHANGED <<db, run>>,
           Fresh \subseteq Fresh',
           Chances' + faults["redis"] <= Chances + faults'["redis"]
    PROVE  Paid
<1>1. /\ Cardinality(Fresh) \in Nat /\ Cardinality(Fresh') \in Nat /\ Chances \in Nat /\ Chances' \in Nat
      /\ Replays \in Nat /\ IsFiniteSet(Fresh')
  BY ChancesType DEF Chances
<1>2. /\ faults["redis"] \in Nat /\ faults'["redis"] \in Nat
  BY FaultsStay
<1>3. Cardinality(Fresh) <= Cardinality(Fresh')
  BY <1>1, Counting
<1>4. Replays' = Replays
  BY DEF Replays
<1> QED
  BY <1>1, <1>2, <1>3, <1>4 DEF Paid

\* Nothing NGINX does gives a request another chance.
LEMMA BalancerPays ==
    ASSUME UniqueLines, TypeOK, TypeOK', AnswersInv, InCourse, PendingInv, [Next]_vars,
           NEW m \in Messages,
           \/ \E s \in Servers : Forward(m, s) \/ ConnectFails(m, s) \/ ConnectTimesOut(m, s)
           \/ NoUpstream(m) \/ ConnectionLost(m) \/ ReadTimeout(m)
    PROVE  Paid
<1>1. /\ IsFiniteSet(Open) /\ Cardinality(Open) \in Nat /\ Cardinality(calls) \in Nat
  BY ChancesType
<1>2. /\ faults["redis"] \in Nat /\ faults'["redis"] \in Nat
      /\ faults["redis"] <= faults'["redis"]
  BY FaultsStay
<1>3. Moved(m)
  BY BalancerMoves
<1>4. calls' = calls /\ db' = db /\ run' = run /\ Lines' = Lines
  BY <1>3 DEF Forward, ConnectFails, ConnectTimesOut, NoUpstream, ConnectionLost, ReadTimeout,
              Moved, Lines
<1>5. ASSUME Open' = Open PROVE Paid
  <2>1. Fresh' = Fresh /\ Chances' = Chances
    BY <1>4, <1>5 DEF Fresh, Chances
  <2>2. Chances \in Nat
    BY <1>1 DEF Chances
  <2> QED  BY <1>2, <1>4, <2>1, <2>2, NoChanceMore
<1>6. \A n \in Messages : n # m => (n \in Open' <=> n \in Open)
  BY <1>3, <1>4 DEF Moved, Open, WorkAt, Unplaced, Stage, Lines
<1>7. \A n \in Lines : n \in Messages
  BY DEF Lines
<1>8. Open \subseteq Messages /\ Open' \subseteq Messages
  BY <1>4, <1>7 DEF Open, WorkAt, Unplaced
<1>9. CASE \/ Stage(m) = "balancing" /\ threads' = threads /\ Stage(m)' = "balancing"
           \/ Stage(m) = "balancing" /\ \E s \in Servers : threads'[s][m] = "received"
           \/ Stage(m) = "sent" /\ Stage(m)' = "done" /\ threads' = threads
  <2>1. m \in Open' <=> m \in Open
    <3>1. CASE Stage(m) = "balancing"
      <4>1. m \in Unplaced
        BY <3>1 DEF InCourse, Unplaced, Lines
      <4>2. m \in Open'
        BY <1>4, <1>9, <3>1, <4>1 DEF Open, WorkAt, Unplaced, Before
      <4> QED  BY <4>1, <4>2 DEF Open
    <3>2. CASE Stage(m) = "sent"
      BY <1>4, <1>9, <3>2 DEF Open, WorkAt, Unplaced
    <3> QED  BY <1>9, <3>1, <3>2
  <2> QED  BY <1>5, <1>6, <1>8, <2>1
<1>10. CASE Stage(m) = "balancing" /\ Stage(m)' = "done" /\ threads' = threads
  <2>1. m \in Open /\ m \notin Open'
    <3>1. m \in Unplaced /\ m \notin Unplaced'
      BY <1>10 DEF InCourse, Unplaced, Lines
    <3>2. \A s \in Servers : threads[s][m] = "none"
      BY <1>10 DEF AnswersInv, UnplacedInNoThread
    <3> QED  BY <1>10, <3>1, <3>2 DEF Open, WorkAt, Before
  <2>2. Open' \subseteq Open \ {m} /\ Open \ {m} \subseteq Open'
    BY <1>6, <1>8, <2>1
  <2>3. Cardinality(Open') \in Nat /\ Cardinality(Open') + 1 <= Cardinality(Open)
    BY <1>1, <2>1, <2>2, Counting
  <2>4. Chances' + 1 + faults["redis"] <= Chances + faults'["redis"]
    BY <1>1, <1>2, <1>4, <2>3 DEF Chances
  <2> QED  BY <1>4, <2>2, <2>4, OneChanceLess
<1> QED
  BY <1>3, <1>9, <1>10 DEF Moved, Stage

\* Nor does a thread, but where its connection breaks.
LEMMA ThreadPays ==
    ASSUME UniqueLines, TypeOK, TypeOK', AnswersInv, PendingInv, [Next]_vars,
           NEW s \in Servers, NEW m \in Messages,
           Serve(s, m) \/ CreateStoreFails(s, m) \/ RedisError(s, m)
    PROVE  Paid
<1>1. /\ IsFiniteSet(Open) /\ Cardinality(Open) \in Nat
      /\ IsFiniteSet(calls) /\ Cardinality(calls) \in Nat
  BY ChancesType
<1>2. /\ faults["redis"] \in Nat /\ faults'["redis"] \in Nat
      /\ faults["redis"] <= faults'["redis"]
      /\ Fault("redis") => faults'["redis"] = faults["redis"] + 1
  BY FaultsStay
<1>3. Stepped(s, m)
  BY ThreadSteps
<1>4. run' = run /\ Lines' = Lines
  BY <1>3 DEF Stepped, Lines
<1>5. \A n \in Messages : n # m => (n \in Open' <=> n \in Open)
  BY <1>3, <1>4 DEF Stepped, Open, WorkAt, Unplaced, Stage
<1>6. Open \subseteq Messages /\ Open' \subseteq Messages
  BY DEF Open, WorkAt, Unplaced, Lines
<1>7. m \in Open' => m \in Open
  <2>1. m \in Unplaced' => m \in Unplaced
    <3>1. Answered(threads[s][m], s).stage = "done"
      BY DEF Answered
    <3> QED  BY <1>3, <1>4, <3>1 DEF Stepped, Ran, Unplaced, Stage
  <2>2. m \in WorkAt(Servers)' => m \in WorkAt(Servers)
    <3>1. WorkAt(Servers)' \subseteq WorkAt(Servers)
      BY <1>3, ThreadWork DEF PendingInv
    <3> QED  BY <3>1
  <2> QED  BY <2>1, <2>2 DEF Open
<1>8. /\ Open \ {m} \subseteq Open' /\ Open' \subseteq Open
      /\ Cardinality(Open') \in Nat /\ Cardinality(Open') <= Cardinality(Open)
  <2>1. Open \ {m} \subseteq Open' /\ Open' \subseteq Open
    BY <1>5, <1>6, <1>7
  <2> QED  BY <1>1, <2>1, Counting
<1>9. ASSUME m \in Open, m \notin Open' PROVE Cardinality(Open') + 1 <= Cardinality(Open)
  <2>1. Open' \subseteq Open \ {m}
    BY <1>8, <1>9
  <2> QED  BY <1>1, <1>9, <2>1, Counting
<1>10. CASE calls' = calls /\ db' = db
  <2>1. CASE m \in Open /\ m \notin Open'
    <3>1. Chances' + 1 + faults["redis"] <= Chances + faults'["redis"]
      BY <1>1, <1>2, <1>8, <1>9, <1>10, <2>1 DEF Chances
    <3> QED  BY <1>4, <1>8, <1>10, <3>1, OneChanceLess
  <2>2. CASE ~(m \in Open /\ m \notin Open')
    <3>1. Open' = Open
      BY <1>8, <2>2
    <3>2. Fresh' = Fresh /\ Chances' = Chances
      BY <1>4, <1>10, <3>1 DEF Fresh, Chances
    <3>3. Chances \in Nat
      BY <1>1 DEF Chances
    <3> QED  BY <1>2, <1>4, <1>10, <3>2, <3>3, NoChanceMore
  <2> QED  BY <2>1, <2>2
<1>11. CASE Execute(s, m)
  <2>1. /\ threads[s][m] \in Before /\ threads'[s][m] \notin Before
        /\ calls' = calls /\ db' = BuyOf(s, m)
    <3>1. threads[s][m] \in Before /\ calls' = calls /\ db' = BuyOf(s, m)
      BY <1>11 DEF Execute, Before
    <3>2. threads'[s][m] \in Outcomes
      BY <1>11, BuyOfType DEF Execute, At, TypeOK
    <3> QED  BY <3>1, <3>2 DEF Outcomes, Before
  <2>2. m \in WorkAt(Servers) /\ m \notin WorkAt(Servers)'
    BY <1>3, <2>1, ThreadWork DEF PendingInv
  <2>3. m \notin Unplaced'
    <3>1. Stage(m) \notin {"unsent", "balancing"}
      BY <2>1 DEF AnswersInv, UnplacedInNoThread, Before
    <3> QED  BY <1>11, <3>1 DEF Execute, Unplaced, Stage
  <2>4. Chances' + 1 + faults["redis"] <= Chances + faults'["redis"]
    BY <1>1, <1>2, <1>8, <1>9, <2>1, <2>2, <2>3 DEF Chances, Open
  <2> QED  BY <1>4, <1>8, <2>1, <2>4, OneChanceLess
<1>12. CASE RedisError(s, m)
  <2>1. faults'["redis"] = faults["redis"] + 1
    BY <1>2, <1>12 DEF RedisError
  <2>2. CASE /\ calls' = calls
             /\ db' = db \/ db' = BuyOf(s, m)
    <3>1. Chances' + 1 + faults["redis"] <= Chances + faults'["redis"]
      BY <1>1, <1>2, <1>8, <2>1, <2>2 DEF Chances
    <3> QED  BY <1>4, <1>8, <2>2, <3>1, OneChanceLess
  <2>3. CASE db' = db /\ calls' = calls \cup {Call(s, m)}
    <3>1. Call(s, m).of = m
      BY DEF Call
    <3>2. Fresh \subseteq Fresh'
      BY <1>4, <1>8, <2>3, <3>1 DEF Fresh
    <3>3. Cardinality(calls') \in Nat /\ Cardinality(calls') <= Cardinality(calls) + 1
      BY <1>1, <2>3, Counting
    <3>4. Chances' + faults["redis"] <= Chances + faults'["redis"]
      BY <1>1, <1>2, <1>8, <2>1, <3>3 DEF Chances
    <3> QED  BY <1>4, <2>3, <3>2, <3>4, NoChanceMore
  <2> QED  BY <1>12, <2>2, <2>3 DEF RedisError
<1>13. Execute(s, m) \/ RedisError(s, m) \/ (calls' = calls /\ db' = db)
  BY DEF Serve, FindStore, CreateStore, CreateStoreFails, NoScript, Reply
<1> QED
  BY <1>10, <1>11, <1>12, <1>13

\* A crash leaves a call for each chance it takes, or takes the chance; a late call uses
\* its chance up.
LEMMA OthersPay ==
    ASSUME UniqueLines, TypeOK, TypeOK', AnswersInv, InCourse, PendingInv, [Next]_vars,
           \/ \E s \in Servers : Crash(s) \/ Restart(s) \/ FailTimeout(s)
           \/ LateCall \/ RedisRestart \/ Send \/ Finish \/ UNCHANGED vars
    PROVE  Paid
<1>1. /\ IsFiniteSet(Open) /\ Cardinality(Open) \in Nat
      /\ IsFiniteSet(calls) /\ Cardinality(calls) \in Nat
      /\ IsFiniteSet(Fresh) /\ Cardinality(Fresh) \in Nat
      /\ IsFiniteSet(Fresh') /\ Cardinality(Fresh') \in Nat
      /\ Replays \in Nat /\ Chances \in Nat
  BY ChancesType DEF Chances
<1>2. /\ faults["redis"] \in Nat /\ faults'["redis"] \in Nat
      /\ faults["redis"] <= faults'["redis"]
  BY FaultsStay
<1>3. ASSUME UNCHANGED <<db, run, calls>>, Open' = Open PROVE Paid
  <2>1. Fresh' = Fresh /\ Chances' = Chances
    BY <1>3 DEF Fresh, Chances, Lines
  <2> QED  BY <1>1, <1>2, <1>3, <2>1, NoChanceMore
<1>4. CASE \/ \E s \in Servers : Restart(s) \/ FailTimeout(s)
           \/ RedisRestart \/ Finish \/ UNCHANGED vars
  <2>1. UNCHANGED <<db, run, calls, threads, req>>
    BY <1>4 DEF Restart, FailTimeout, RedisRestart, Finish, vars, serverVars
  <2>2. Open' = Open
    BY <2>1 DEF Open, WorkAt, Unplaced, Lines, Stage
  <2> QED  BY <1>3, <2>1, <2>2
<1>5. CASE Send
  <2>1. PICK m \in Lines : Stage(m) = "unsent" /\ req' = [req EXCEPT ![m] = Balancing({})]
    BY <1>5 DEF Send
  <2>2. Balancing({}).stage = "balancing" /\ UNCHANGED <<db, run, calls, threads>>
    BY <1>5 DEF Balancing, Unsent, Send, serverVars
  <2>3. Unplaced' = Unplaced
    BY <2>1, <2>2 DEF Unplaced, Lines, Stage, TypeOK
  <2>4. Open' = Open
    BY <2>2, <2>3 DEF Open, WorkAt
  <2> QED  BY <1>3, <2>2, <2>4
<1>6. CASE LateCall
  <2>1. PICK c \in calls : /\ calls' = calls \ {c} /\ c.by \in Servers /\ c.of \in Messages
                           /\ db' = db \/ db' = BuyOf(c.by, c.of)
    BY <1>6, LateCallTouches
  <2>2. UNCHANGED <<req, run, threads>>
    BY <1>6 DEF LateCall, serverVars
  <2>3. Open' = Open
    BY <2>2 DEF Open, WorkAt, Unplaced, Lines, Stage
  <2>4. Cardinality(calls') \in Nat /\ Cardinality(calls') + 1 <= Cardinality(calls)
    BY <1>1, <2>1, Counting
  <2>5. Chances' + 1 + faults["redis"] <= Chances + faults'["redis"]
    BY <1>1, <1>2, <2>3, <2>4 DEF Chances
  <2>6. \A x \in calls : x.of # c.of => x \in calls'
    BY <2>1
  <2> HIDE DEF TypeOK
  <2> QED  BY <2>1, <2>2, <2>3, <2>5, <2>6, OneChanceLess
<1>7. ASSUME NEW s \in Servers, Crash(s) PROVE Paid
  <2>1. PICK sent \in SUBSET {Call(s, m) : m \in {n \in Messages : threads[s][n] = "calling"}} :
           calls' = calls \cup sent
    BY <1>7 DEF Crash
  <2> DEFINE L == Left(s, sent)
             T == {m \in Messages : threads[s][m] \in Before}
             G == T \ L
  <2>2. /\ IsFiniteSet(sent) /\ Cardinality(sent) <= Cardinality(L)
        /\ IsFiniteSet(L) /\ Cardinality(L) \in Nat /\ Cardinality(sent) \in Nat
        /\ \A m \in L : \E c \in sent : c.of = m
    BY <2>1, CrashLeaves
  <2>3. /\ UNCHANGED <<db, run, req>> /\ threads' = [threads EXCEPT ![s] = NoThread]
        /\ Lines' = Lines
    BY <1>7 DEF Crash, Lines
  <2>4. \A t \in Servers, n \in Messages :
           threads'[t][n] = IF t = s THEN "none" ELSE threads[t][n]
    BY <2>3 DEF NoThread, TypeOK
  <2>5. "none" \notin Before /\ "calling" \in Before
    BY DEF Before
  <2>6. T \subseteq Open /\ L \subseteq T
    BY <2>5 DEF Open, WorkAt, Left
  <2>7. Open' \subseteq Open \ T /\ Open \ T \subseteq Open'
    <3>1. ASSUME NEW m \in Open' PROVE m \in Open \ T
      <4>1. CASE m \in WorkAt(Servers)'
        <5>1. PICK t \in Servers : threads'[t][m] \in Before /\ m \in Messages
          BY <4>1 DEF WorkAt
        <5>2. t # s /\ threads[t][m] \in Before
          BY <2>4, <2>5, <5>1
        <5>3. threads[s][m] = "none"
          BY <2>5, <5>1, <5>2 DEF PendingInv, OneThreadEach
        <5> QED  BY <2>5, <5>1, <5>2, <5>3 DEF Open, WorkAt
      <4>2. CASE m \in Unplaced'
        <5>1. m \in Unplaced /\ m \in Messages
          BY <2>3, <4>2 DEF Unplaced, Lines, Stage
        <5>2. threads[s][m] = "none"
          BY <5>1 DEF Unplaced, AnswersInv, UnplacedInNoThread
        <5> QED  BY <2>5, <5>1, <5>2 DEF Open
      <4> QED  BY <4>1, <4>2 DEF Open
    <3>2. ASSUME NEW m \in Open, m \notin T PROVE m \in Open'
      <4>1. CASE m \in WorkAt(Servers)
        BY <2>4, <3>2, <4>1 DEF WorkAt, Open
      <4>2. CASE m \in Unplaced
        BY <2>3, <4>2 DEF Unplaced, Open, Stage
      <4> QED  BY <4>1, <4>2 DEF Open
    <3> QED  BY <3>1, <3>2
  <2>8. Fresh \subseteq Fresh' \cup G
    <3>1. ASSUME NEW m \in Fresh, m \notin G PROVE m \in Fresh'
      <4>1. m \in Lines /\ Outcome(db', Op(m)) = "nil" /\ m \in Lines'
        BY <2>3 DEF Fresh
      <4>2. m \in Open' \/ \E c \in calls' : c.of = m
        <5>1. CASE m \in L
          BY <2>1, <2>2, <5>1
        <5>2. CASE m \notin T
          BY <2>1, <2>7, <5>2 DEF Fresh
        <5> QED  BY <3>1, <5>1, <5>2
      <4> QED  BY <4>1, <4>2 DEF Fresh
    <3> QED  BY <3>1
  <2>9. IsFiniteSet(T) /\ Cardinality(T) \in Nat
    BY <1>1, <2>6, Counting
  <2> HIDE DEF T, L
  <2>10. /\ IsFiniteSet(G) /\ Cardinality(G) \in Nat
         /\ Cardinality(G) + Cardinality(L) = Cardinality(T)
    <3>1. T \cap L = L
      BY <2>6
    <3>2. IsFiniteSet(T \ L) /\ Cardinality(T \ L) = Cardinality(T) - Cardinality(T \cap L)
      BY <2>9, FS_Difference
    <3>3. Cardinality(T \cap L) = Cardinality(L)
      BY <3>1
    <3>4. G = T \ L
      BY DEF G
    <3>5. Cardinality(T \ L) \in Nat
      BY <3>2, FS_CardinalityType
    <3> HIDE DEF G
    <3>6. IsFiniteSet(G) /\ Cardinality(G) = Cardinality(T \ L)
      BY <3>2, <3>4
    <3> QED  BY <2>2, <2>9, <3>2, <3>3, <3>5, <3>6
  <2> HIDE DEF G
  <2>11. Cardinality(Open') \in Nat /\ Cardinality(Open') + Cardinality(T) <= Cardinality(Open)
    <3>1. Open \cap T = T
      BY <2>6
    <3>2. IsFiniteSet(Open \ T) /\ Cardinality(Open \ T) = Cardinality(Open) - Cardinality(Open \cap T)
      BY <1>1, FS_Difference
    <3>3. Cardinality(Open') \in Nat /\ Cardinality(Open') <= Cardinality(Open \ T)
      BY <2>7, <3>2, Counting
    <3>4. Cardinality(Open \cap T) = Cardinality(T)
      BY <3>1
    <3> QED  BY <1>1, <2>9, <3>2, <3>3, <3>4
  <2>12. Cardinality(calls') \in Nat /\ Cardinality(calls') <= Cardinality(calls) + Cardinality(sent)
    <3>1. /\ IsFiniteSet(calls \cup sent) /\ Cardinality(calls \cap sent) \in Nat
          /\ Cardinality(calls \cup sent)
                = Cardinality(calls) + Cardinality(sent) - Cardinality(calls \cap sent)
      BY <1>1, <2>2, FS_Union, FS_Intersection, FS_CardinalityType
    <3>2. Cardinality(calls') \in Nat /\ Cardinality(calls') <= Cardinality(calls \cup sent)
      BY <2>1, <3>1, Counting
    <3> QED  BY <1>1, <2>2, <3>1, <3>2
  <2>13. Cardinality(Fresh) <= Cardinality(Fresh') + Cardinality(G)
    <3>1. /\ IsFiniteSet(Fresh' \cup G) /\ Cardinality(Fresh' \cap G) \in Nat
          /\ Cardinality(Fresh' \cup G)
                = Cardinality(Fresh') + Cardinality(G) - Cardinality(Fresh' \cap G)
      BY <1>1, <2>10, FS_Union, FS_Intersection, FS_CardinalityType
    <3>2. Cardinality(Fresh) <= Cardinality(Fresh' \cup G)
      BY <2>8, <3>1, Counting
    <3> QED  BY <1>1, <2>10, <3>1, <3>2
  <2>14. Replays' = Replays
    BY <2>3 DEF Replays
  <2> QED  BY <1>1, <1>2, <2>2, <2>9, <2>10, <2>11, <2>12, <2>13, <2>14 DEF Paid, Chances
<1> QED
  BY <1>4, <1>5, <1>6, <1>7

\* So every step that neither begins a run nor resets the keys pays for what it costs.
LEMMA StepsPay ==
    ASSUME UniqueLines, TypeOK, TypeOK', AnswersInv, InCourse, PendingInv, [Next]_vars,
           ~BeginRun, ~ResetDone, ~ResetGivenUp, ~LateReset
    PROVE  Paid
BY BalancerPays, ThreadPays, OthersPay DEF Next, Client, Balance, Failure

\* What a run leaves behind: chances that old threads and calls still have, less the lines
\* that wait, each of which the client was told had failed.
LEMMA RunsLeaveErrors ==
    ASSUME TypeOK, AnswersInv, InCourse, PendingInv, reset = "settled",
           pc \in {"idle", "finished", "failed"}
    PROVE  /\ Open = WorkAt(Servers) /\ calls = CallsBy(Servers)
           /\ Chances = Pending(Servers) /\ Pending(Servers) \in Nat
           /\ Cardinality(Fresh) \in Nat /\ Cardinality(Fresh) <= Cardinality(Lost)
<1>1. Unplaced = {}
  BY DEF InCourse, Unplaced
<1>2. Open = WorkAt(Servers) /\ calls = CallsBy(Servers)
  BY <1>1 DEF Open, CallsBy, Calls, TypeOK
<1>3. Pending(Servers) \in Nat
  BY PendingType DEF PendingInv
<1>4. \A m \in Lines : Outcome(db, Op(m)) = "nil" => req[m].status = "ERROR"
  BY DEF InCourse, AnswersInv, AnswersMatchLedger, Lines, Statuses, Outcomes
<1>5. Fresh \subseteq Lost /\ Lost \subseteq Messages
  BY <1>4 DEF Fresh, Lost, Lines
<1>6. IsFiniteSet(Lost)
  BY <1>5, MessagesAreFinite, Counting
<1>7. Cardinality(Fresh) \in Nat /\ Cardinality(Fresh) <= Cardinality(Lost)
  BY <1>5, <1>6, Counting
<1>8. /\ Cardinality(Open) = Cardinality(WorkAt(Servers)) /\ Cardinality(Open) \in Nat
      /\ Cardinality(calls) = Cardinality(CallsBy(Servers)) /\ Cardinality(calls) \in Nat
  BY <1>2, PendingType DEF PendingInv
<1>9. Chances = Pending(Servers)
  <2> HIDE DEF TypeOK
  <2> QED  BY <1>8 DEF Chances, Pending
<1> QED
  BY <1>2, <1>3, <1>7, <1>9

\* The lines that wait are no more than the chances there are.
LEMMA NoMoreWait ==
    ASSUME TypeOK, PendingInv
    PROVE  /\ Chances \in Nat /\ Cardinality(Fresh) \in Nat /\ Cardinality(Fresh) <= Chances
           /\ Replays \in Nat
<1> DEFINE f == [c \in calls |-> c.of]
           W == {c.of : c \in calls}
<1>1. IsFiniteSet(calls) /\ Cardinality(calls) \in Nat
  BY FS_CardinalityType DEF PendingInv
<1>2. f \in [calls -> W] /\ \A w \in W : \E c \in calls : f[c] = w
  OBVIOUS
<1>3. Fresh \subseteq Open \cup W /\ Open \subseteq Messages
  BY DEF Fresh, Open, WorkAt, Unplaced, Lines
<1>4. Replays \in Nat
  BY DEF TypeOK, Db, ARCHITECTURES, Replays, Metrics
<1> HIDE DEF f, W, TypeOK
<1>5. f \in Surjection(calls, W)
  BY <1>2 DEF Surjection
<1>6. IsFiniteSet(W) /\ Cardinality(W) <= Cardinality(calls)
  BY <1>1, <1>5, FS_Surjection
<1>7. Cardinality(W) \in Nat
  BY <1>6, FS_CardinalityType
<1>8. IsFiniteSet(Open) /\ Cardinality(Open) \in Nat
  BY <1>3, MessagesAreFinite, Counting
<1>9. /\ IsFiniteSet(Open \cup W) /\ Cardinality(Open \cap W) \in Nat
      /\ Cardinality(Open \cup W)
            = Cardinality(Open) + Cardinality(W) - Cardinality(Open \cap W)
  BY <1>6, <1>8, FS_Union, FS_Intersection, FS_CardinalityType
<1>10. Cardinality(Fresh) \in Nat /\ Cardinality(Fresh) <= Cardinality(Open \cup W)
  BY <1>3, <1>9, Counting
<1> QED
  BY <1>1, <1>4, <1>6, <1>7, <1>8, <1>9, <1>10 DEF Chances

\* As a run is reset, each of its lines has one chance, and waits.
LEMMA RunsStartEven ==
    ASSUME TypeOK, TypeOK', AnswersInv, PendingInv, [Next]_vars, ResetDone
    PROVE  /\ Replays' = 0 /\ Chances' \in Nat /\ Cardinality(Fresh') \in Nat
           /\ Chances' <= Pending(Servers) + Cardinality(Fresh')
<1>1. /\ UNCHANGED <<calls, threads, faults, run, req>> /\ pc = "resetting" /\ db' = EmptyDb
  BY DEF ResetDone
<1>2. /\ Cardinality(Open') \in Nat /\ Cardinality(calls') \in Nat /\ Cardinality(Fresh') \in Nat
      /\ IsFiniteSet(Fresh')
  BY ChancesType
<1>3. \A m \in Lines : Stage(m) = "unsent" /\ m \in Messages
  BY <1>1 DEF AnswersInv, FutureUnsent, Lines, Stage, Unsent
<1>4. \A m \in Messages : Outcome(EmptyDb, Op(m)) = "nil"
  BY MessageType, PurchasesAssumption DEF Outcome, EmptyDb, Requests
<1>5. Fresh' = Lines
  BY <1>1, <1>3, <1>4 DEF Fresh, Open, Unplaced, Lines, Stage
<1>6. Open' \subseteq WorkAt(Servers) \cup Fresh' /\ WorkAt(Servers) \subseteq Messages
  BY <1>1, <1>5 DEF Open, WorkAt, Unplaced, Lines
<1>7. IsFiniteSet(WorkAt(Servers)) /\ Cardinality(WorkAt(Servers)) \in Nat
  BY <1>6, MessagesAreFinite, Counting
<1>8. /\ IsFiniteSet(WorkAt(Servers) \cup Fresh') /\ Cardinality(WorkAt(Servers) \cap Fresh') \in Nat
      /\ Cardinality(WorkAt(Servers) \cup Fresh')
            = Cardinality(WorkAt(Servers)) + Cardinality(Fresh')
                 - Cardinality(WorkAt(Servers) \cap Fresh')
  BY <1>2, <1>7, FS_Union, FS_Intersection, FS_CardinalityType
<1>9. Cardinality(Open') <= Cardinality(WorkAt(Servers) \cup Fresh')
  BY <1>6, <1>8, Counting
<1>10. calls' = CallsBy(Servers)
  BY <1>1 DEF CallsBy, Calls, TypeOK
<1>11. Replays' = 0
  BY <1>1 DEF Replays, EmptyDb, NoMetrics, EmptyMetrics, ARCHITECTURES
<1>12. Cardinality(calls') = Cardinality(CallsBy(Servers))
  BY <1>10
<1>13. Pending(Servers) = Cardinality(calls') + Cardinality(WorkAt(Servers))
  BY <1>12 DEF Pending
<1>14. Chances' = Cardinality(Open') + Cardinality(calls')
  BY DEF Chances
<1>15. Cardinality(Open') <= Cardinality(WorkAt(Servers)) + Cardinality(Fresh')
  <2> HIDE DEF TypeOK
  <2>1. /\ Cardinality(WorkAt(Servers) \cup Fresh') \in Nat
    BY <1>8, FS_CardinalityType
  <2> QED  BY <1>2, <1>7, <1>8, <1>9, <2>1
<1>16. Chances' \in Nat /\ Chances' <= Pending(Servers) + Cardinality(Fresh')
  BY <1>2, <1>7, <1>13, <1>14, <1>15
<1> QED
  BY <1>2, <1>11, <1>16

\* No two lines of one file share an id within a ticket model, though a file may be run
\* any number of times.  Then, as long as no reset is missing or late, a script runs again
\* for an id it has run for only because a connection to Redis broke or because the client
\* was told that a request of an earlier run had failed: once for each, at most.
THEOREM ReplaysAreAccountedFor == ASSUME UniqueLines PROVE Spec => []ReplaysHaveCauses
<1>1. Init => InCourse /\ ReplayInv
  <2> SUFFICES ASSUME Init PROVE InCourse /\ ReplayInv
    OBVIOUS
  <2>1. \A m \in Messages : Stage(m) = "unsent"
    BY DEF Init, Stage, Unsent
  <2>2. Lines = {} /\ EarlierErrors = {}
    BY MessageType DEF Init, Lines, EarlierErrors
  <2>3. pc = "idle" /\ reset = "settled" /\ (\A s \in Servers : alive[s]) /\ calls = {}
    BY DEF Init
  <2>4. InCourse
    BY <2>1, <2>2, <2>3 DEF InCourse
  <2>5. Open = {} /\ Fresh = {}
    BY <2>2 DEF Init, Open, WorkAt, NoThread, Before, Unplaced, Fresh
  <2>6. faults["redis"] = 0 /\ Replays = 0
    BY DEF Init, FaultKinds, Replays, EmptyDb, NoMetrics, EmptyMetrics, ARCHITECTURES
  <2>7. ASSUME NEW S, S = {} PROVE Cardinality(S) = 0
    BY Zenon, <2>7, FS_EmptySet
  <2>8. /\ Cardinality(Open) = 0 /\ Cardinality(Fresh) = 0 /\ Cardinality(calls) = 0
        /\ Cardinality(EarlierErrors) = 0
    BY <2>2, <2>3, <2>5, <2>7
  <2>9. Replays + Chances - Cardinality(Fresh) <= faults["redis"] + Cardinality(EarlierErrors)
    BY <2>6, <2>8 DEF Chances
  <2> QED  BY <2>3, <2>4, <2>9 DEF ReplayInv, Begun
<1>2. TypeOK /\ TypeOK' /\ AnswersInv /\ PendingInv /\ InCourse /\ ReplayInv /\ [Next]_vars
      => InCourse' /\ ReplayInv'
  <2> SUFFICES ASSUME TypeOK, TypeOK', AnswersInv, PendingInv, InCourse, ReplayInv, [Next]_vars
               PROVE  InCourse' /\ ReplayInv'
    OBVIOUS
  <2>1. InCourse'
    BY CourseKept
  <2>2. (NoReset' => NoReset) /\ (Steady' => Steady) /\ (Fault("reset") => ~Steady')
    BY FaultsStay DEF Steady
  <2>3. ASSUME Steady'
        PROVE  /\ Begun' => Replays' + Chances' - Cardinality(Fresh')
                               <= faults'["redis"] + Cardinality(EarlierErrors')
               /\ ~Begun' => Replays' + Pending(Servers)'
                               <= faults'["redis"] + Cardinality(EarlierErrors')
    <3>1. /\ Steady /\ reset = "settled"
          /\ Begun => Replays + Chances - Cardinality(Fresh)
                         <= faults["redis"] + Cardinality(EarlierErrors)
          /\ ~Begun => Replays + Pending(Servers) <= faults["redis"] + Cardinality(EarlierErrors)
      BY <2>2, <2>3 DEF ReplayInv, InCourse, Steady
    <3>2. ~LateReset /\ ~ResetGivenUp
      <4>1. ASSUME ResetGivenUp PROVE FALSE
        <5>1. \A s \in Servers : ~alive[s]
          BY <2>2, <2>3, <4>1 DEF ResetGivenUp
        <5>2. crashed = Servers
          BY <5>1 DEF InCourse, TypeOK
        <5> QED  BY <3>1, <5>2 DEF Steady
      <4> QED  BY <3>1, <4>1 DEF LateReset
    <3>3. /\ faults["redis"] \in Nat /\ faults'["redis"] \in Nat
          /\ faults["redis"] <= faults'["redis"]
          /\ Pending(Servers) \in Nat
          /\ Cardinality(EarlierErrors) \in Nat /\ Cardinality(EarlierErrors') \in Nat
          /\ Cardinality(EarlierErrors) <= Cardinality(EarlierErrors')
          /\ Cardinality(Lost) \in Nat
      BY FaultsStay, PendingType, ErrorsStay DEF PendingInv
    <3>4. /\ Chances \in Nat /\ Chances' \in Nat /\ Replays \in Nat /\ Replays' \in Nat
          /\ Cardinality(Fresh) \in Nat /\ Cardinality(Fresh') \in Nat
      BY ChancesType DEF Chances
    <3>5. CASE BeginRun
      <4>1. /\ UNCHANGED <<db, calls, threads, faults>> /\ pc \in {"idle", "finished", "failed"}
            /\ pc' = "resetting"
        BY <3>5 DEF BeginRun, serverVars
      <4>2. Pending(Servers)' = Pending(Servers) /\ ~Begun' /\ Begun /\ Replays' = Replays
        BY <4>1 DEF Pending, CallsBy, WorkAt, Begun, Replays
      <4>3. Chances = Pending(Servers) /\ Cardinality(Fresh) <= Cardinality(Lost)
        BY <3>1, <4>1, RunsLeaveErrors
      <4>4. Cardinality(EarlierErrors) + Cardinality(Lost) <= Cardinality(EarlierErrors')
        BY <3>5, ErrorsStay
      <4> QED  BY <3>1, <3>3, <3>4, <4>1, <4>2, <4>3, <4>4
    <3>6. CASE ResetDone
      <4>1. faults' = faults /\ ~Begun /\ Begun'
        BY <3>6 DEF ResetDone, Begun
      <4>2. Replays' = 0 /\ Chances' <= Pending(Servers) + Cardinality(Fresh')
        BY <3>6, RunsStartEven
      <4> QED  BY <3>1, <3>3, <3>4, <4>1, <4>2
    <3>7. CASE ~BeginRun /\ ~ResetDone /\ Begun
      <4>1. Begun'
        BY <3>2, <3>7, StepsAreAccounted DEF Runs, Places, Rests, Begun, Forward
      <4>2. Paid
        BY <3>2, <3>7, StepsPay
      <4>3. Replays + Chances - Cardinality(Fresh) <= faults["redis"] + Cardinality(EarlierErrors)
        BY <3>1, <3>7
      <4>4. Replays' + Chances' - Cardinality(Fresh')
               <= faults'["redis"] + Cardinality(EarlierErrors')
        BY <3>3, <3>4, <4>2, <4>3 DEF Paid
      <4> QED  BY <4>1, <4>4
    <3>8. CASE ~BeginRun /\ ~ResetDone /\ ~Begun
      <4>1. Runs(Servers) \/ Rests(Servers)
        BY <3>2, <3>8, StepsAreAccounted DEF Places, Forward, InCourse, Begun
      <4>2. ~Begun'
        BY <3>8, <4>1 DEF Runs, Rests, Begun
      <4>3. Pending(Servers)' \in Nat
        <5>1. CallsBy(Servers)' \subseteq calls' /\ WorkAt(Servers)' \subseteq Messages
          BY DEF CallsBy, WorkAt
        <5>2. Cardinality(CallsBy(Servers)') \in Nat /\ Cardinality(WorkAt(Servers)') \in Nat
          BY <5>1, CallsStayFinite, MessagesAreFinite, Counting
        <5> QED  BY <5>2 DEF Pending
      <4>4. CASE Runs(Servers)
        <5>1. PICK s \in Servers, m \in Messages :
                 /\ db' = BuyOf(s, m)
                 /\ Pending(Servers)' + 1 + faults["redis"] <= Pending(Servers) + faults'["redis"]
          BY <4>4 DEF Runs
        <5>2. Replays' <= Replays + 1
          BY <3>4, <5>1, ScriptDecides
        <5> QED  BY <3>1, <3>3, <3>4, <3>8, <4>2, <4>3, <5>1, <5>2
      <4>5. CASE Rests(Servers)
        <5>1. Replays' = Replays
          BY <4>5 DEF Rests, Replays
        <5>2. Pending(Servers)' + faults["redis"] <= Pending(Servers) + faults'["redis"]
          BY <4>5 DEF Rests
        <5> QED  BY <3>1, <3>3, <3>4, <3>8, <4>2, <4>3, <5>1, <5>2
      <4> QED  BY <4>1, <4>4, <4>5
    <3> QED  BY <3>5, <3>6, <3>7, <3>8
  <2> QED  BY <2>1, <2>3 DEF ReplayInv
<1>3. TypeOK /\ PendingInv /\ ReplayInv => ReplaysHaveCauses
  <2> SUFFICES ASSUME TypeOK, PendingInv, ReplayInv, Steady
               PROVE  Replays <= faults["redis"] + Cardinality(EarlierErrors)
    BY DEF ReplaysHaveCauses, Steady, NoReset, Replays
  <2>1. /\ Chances \in Nat /\ Cardinality(Fresh) \in Nat /\ Cardinality(Fresh) <= Chances
        /\ Replays \in Nat /\ Pending(Servers) \in Nat
    BY NoMoreWait, PendingType DEF PendingInv
  <2>2. faults["redis"] \in Nat
    BY DEF TypeOK, FaultKinds
  <2>3. Cardinality(EarlierErrors) \in Nat
    <3>1. EarlierErrors \subseteq Messages
      BY DEF EarlierErrors
    <3> QED  BY <3>1, MessagesAreFinite, Counting
  <2>4. CASE Begun
    BY <2>1, <2>2, <2>3, <2>4 DEF ReplayInv
  <2>5. CASE ~Begun
    BY <2>1, <2>2, <2>3, <2>5 DEF ReplayInv
  <2> QED  BY <2>4, <2>5
<1> QED
  BY <1>1, <1>2, <1>3, TypeCorrect, AnswersHold, PendingHolds, PTL DEF Spec
=============================================================================
