------------------------ MODULE IndirectReplaysProofs ------------------------
(***************************************************************************)
(* Every script run twice is paid for by a crash or a lost connection, to  *)
(* the broker or to Redis, and the client's report does not show it.       *)
(*                                                                         *)
(* The broker has at most one copy of a message; what is beyond it is with *)
(* workers that have lost their connection, and each of these can run one  *)
(* message more, or on its way to Redis with no worker waiting for it.  So *)
(* the runs that may still be replays are counted: the copies of what has  *)
(* been run already, such workers, and such calls.  What the client        *)
(* collects is what the ledger of its first run says for good.             *)
(***************************************************************************)
EXTENDS IndirectPipelineProofs

\* No two requests share an id within a ticket model.
UniqueLines ==
    \A m, n \in Messages :
        Op(m).type = Op(n).type /\ Op(m).request_id = Op(n).request_id => m = n

-----------------------------------------------------------------------------
(* One copy of a message.                                                  *)

\* What the broker has with a worker.
UnackedAt(w, m) == linked[w] /\ (m \in buffer[w] \/ (work[w] # NoWork /\ work[w].of = m))

DownIsEmpty ==
    \A w \in Workers :
        proc[w] \in {"exited", "off"} => ~linked[w] /\ buffer[w] = {} /\ work[w] = NoWork

OneCopy ==
    /\ \A m \in requests : m \notin orphans
    /\ \A w \in Workers : \A m : UnackedAt(w, m) => m \notin requests /\ m \notin orphans
    /\ \A w, v \in Workers : \A m : UnackedAt(w, m) /\ UnackedAt(v, m) => w = v
    /\ \A w \in Workers : work[w] # NoWork => work[w].of \notin buffer[w]

CopyInv == DownIsEmpty /\ OneCopy

\* A step that moves nothing but out of workers' hands.
LEMMA FewerCopies ==
    ASSUME CopyInv, UNCHANGED <<requests, orphans>>, DownIsEmpty',
           \A v \in Workers : \A m : UnackedAt(v, m)' => UnackedAt(v, m),
           \A v \in Workers : work'[v] # NoWork => work'[v].of \notin buffer'[v]
    PROVE  CopyInv'
BY DEF CopyInv, OneCopy

\* A worker hands on what it was given, one copy of it.
LEMMA WorkerCopies ==
    ASSUME TypeOK, CopyInv, NEW w \in Workers,
           Deliver(w) \/ Callback(w) \/ RedisError(w) \/ ConnectionError(w) \/ Exit(w) \/ Start(w)
    PROVE  CopyInv'
<1> USE DEF TypeOK
<1>0. NoWork.stage = "none" /\ \A s, m : [stage |-> s, of |-> m].stage = s
  BY DEF NoWork
<1>1. CASE Deliver(w)
  <2>1. PICK m \in requests :
           buffer' = [buffer EXCEPT ![w] = @ \cup {m}] /\ requests' = requests \ {m}
    BY <1>1 DEF Deliver
  <2>2. linked[w] /\ proc[w] = "consuming" /\ UNCHANGED <<orphans, proc, linked, work>>
    BY <1>1 DEF Deliver
  <2>3. \A v \in Workers : \A n : UnackedAt(v, n)' <=> UnackedAt(v, n) \/ (v = w /\ n = m)
    BY <2>1, <2>2 DEF UnackedAt
  <2>4. DownIsEmpty'
    BY <2>1, <2>2 DEF CopyInv, DownIsEmpty
  <2>5. work[w] # NoWork => work[w].of # m
    BY <2>1, <2>2 DEF CopyInv, OneCopy, UnackedAt
  <2>6. \A v \in Workers : work'[v] # NoWork => work'[v].of \notin buffer'[v]
    BY <2>1, <2>2, <2>5 DEF CopyInv, OneCopy
  <2>7. OneCopy'
    <3> HIDE DEF TypeOK
    <3> QED  BY <2>1, <2>2, <2>3, <2>6 DEF CopyInv, OneCopy
  <2> QED  BY <2>4, <2>7 DEF CopyInv
<1>2. CASE Take(w)
  <2>1. PICK m \in buffer[w] :
           /\ buffer' = [buffer EXCEPT ![w] = @ \ {m}]
           /\ work' = [work EXCEPT ![w] = [stage |-> "taken", of |-> m]]
    BY <1>2 DEF Take
  <2>2. /\ work[w] = NoWork /\ proc[w] = "consuming"
        /\ UNCHANGED <<requests, orphans, proc, linked>>
    BY <1>2 DEF Take
  <2>3. DownIsEmpty'
    BY <2>1, <2>2 DEF CopyInv, DownIsEmpty
  <2>4. \A v \in Workers : \A n : UnackedAt(v, n)' => UnackedAt(v, n)
    BY <2>1, <2>2 DEF UnackedAt
  <2>5. \A v \in Workers : work'[v] # NoWork => work'[v].of \notin buffer'[v]
    BY <2>1, <2>2 DEF CopyInv, OneCopy
  <2> QED  BY <2>2, <2>3, <2>4, <2>5, FewerCopies
<1>3. ASSUME NEW x, x.of = work[w].of, work' = [work EXCEPT ![w] = x], work[w] # NoWork,
             UNCHANGED <<requests, orphans, proc, linked, buffer>>
      PROVE  CopyInv'
  <2>1. DownIsEmpty'
    BY <1>3 DEF CopyInv, DownIsEmpty
  <2>2. \A v \in Workers : \A n : UnackedAt(v, n)' => UnackedAt(v, n)
    BY <1>3 DEF UnackedAt
  <2>3. \A v \in Workers : work'[v] # NoWork => work'[v].of \notin buffer'[v]
    BY <1>3 DEF CopyInv, OneCopy
  <2> QED  BY <1>3, <2>1, <2>2, <2>3, FewerCopies
<1>4. CASE Execute(w) \/ NoScript(w) \/ RedisError(w)
  <2>1. CASE UNCHANGED <<scripts, requests, orphans, results, workerVars, clientVars>>
    <3>1. UNCHANGED <<requests, orphans, proc, linked, buffer, work>>
      BY <2>1 DEF workerVars
    <3> QED  BY <3>1 DEF CopyInv, OneCopy, DownIsEmpty, UnackedAt
  <2>2. CASE \E status : Answer(w, status)
    <3>1. work[w] # NoWork
      BY <1>4, WorkIs DEF Execute, NoScript, RedisError
    <3> QED  BY <1>3, <2>2, <3>1 DEF Answer
  <2> QED  BY <1>4, <2>1, <2>2 DEF Execute, NoScript, RedisError
<1>5. CASE Publish(w)
  <2>1. work[w] # NoWork
    BY <1>5, WorkIs DEF Publish
  <2>2. [work[w] EXCEPT !.stage = "published"].of = work[w].of
    BY <2>1, WorkCases
  <2>3. work' = [work EXCEPT ![w] = [work[w] EXCEPT !.stage = "published"]]
    BY <1>5 DEF Publish
  <2> QED  BY <1>3, <1>5, <2>1, <2>2, <2>3 DEF Publish
<1>6. CASE Ack(w)
  <2>1. /\ work' = [work EXCEPT ![w] = NoWork]
        /\ UNCHANGED <<requests, orphans, proc, linked, buffer>>
    BY <1>6 DEF Ack
  <2>2. DownIsEmpty'
    BY <2>1 DEF CopyInv, DownIsEmpty
  <2>3. \A v \in Workers : \A n : UnackedAt(v, n)' => UnackedAt(v, n)
    BY <2>1 DEF UnackedAt
  <2>4. \A v \in Workers : work'[v] # NoWork => work'[v].of \notin buffer'[v]
    BY <2>1 DEF CopyInv, OneCopy
  <2> QED  BY <2>1, <2>2, <2>3, <2>4, FewerCopies
<1>7. CASE ConnectionError(w) \/ Exit(w)
  <2>1. PICK how : Ends(w, how)
    BY <1>7 DEF ConnectionError, Exit
  <2>2. UNCHANGED <<requests, orphans>>
    BY <1>7 DEF ConnectionError, Exit
  <2>3. DownIsEmpty'
    BY <2>1 DEF CopyInv, DownIsEmpty, Ends
  <2>4. \A v \in Workers : \A n : UnackedAt(v, n)' => UnackedAt(v, n)
    BY <2>1 DEF UnackedAt, Ends
  <2>5. \A v \in Workers : work'[v] # NoWork => work'[v].of \notin buffer'[v]
    BY <2>1 DEF CopyInv, OneCopy, Ends
  <2> QED  BY <2>2, <2>3, <2>4, <2>5, FewerCopies
<1>8. CASE Start(w)
  <2>1. /\ proc[w] \in {"exited", "off"} /\ proc' = [proc EXCEPT ![w] = "consuming"]
        /\ linked' = [linked EXCEPT ![w] = TRUE]
        /\ UNCHANGED <<requests, orphans, buffer, work>>
    BY <1>8 DEF Start
  <2>2. DownIsEmpty'
    BY <2>1 DEF CopyInv, DownIsEmpty
  <2>3. \A v \in Workers : \A n : UnackedAt(v, n)' => UnackedAt(v, n)
    BY <2>1 DEF UnackedAt, CopyInv, DownIsEmpty
  <2> QED  BY <2>1, <2>2, <2>3, FewerCopies DEF CopyInv, OneCopy
<1> QED
  BY <1>1, <1>2, <1>4, <1>5, <1>6, <1>7, <1>8 DEF Callback

\* What a dead worker had, the broker has instead; and a request published for
\* the first time has no copy yet.
LEMMA OtherCopies ==
    ASSUME TypeOK, PlacesInv, CopyInv,
           \/ \E w \in Workers : WorkerEnds(w) \/ Partition(w)
           \/ Requeue \/ RedisRestart \/ LateCall \/ ConsumerDies \/ Timeout \/ Client \/ NewRun
    PROVE  CopyInv'
<1> USE DEF workerVars
<1>1. ASSUME NEW w \in Workers, Kill(w) PROVE CopyInv'
  <2>1. PICK how \in {"exited", "off"} : Ends(w, how)
    BY <1>1 DEF Kill
  <2>2. requests' = requests /\ orphans' = orphans \cup Unacked(w)
    BY <1>1 DEF Kill
  <2>3. \A m : m \in orphans' <=> m \in orphans \/ UnackedAt(w, m)
    BY <2>2 DEF Unacked, InHand, UnackedAt
  <2>4. \A v \in Workers : \A m : UnackedAt(v, m)' <=> v # w /\ UnackedAt(v, m)
    BY <2>1 DEF TypeOK, Ends, UnackedAt
  <2>5. DownIsEmpty'
    BY <2>1 DEF TypeOK, Ends, CopyInv, DownIsEmpty
  <2>6. \A v \in Workers : work'[v] # NoWork => work'[v].of \notin buffer'[v]
    BY <2>1 DEF TypeOK, Ends, CopyInv, OneCopy
  <2> QED  BY <2>2, <2>3, <2>4, <2>5, <2>6 DEF CopyInv, OneCopy
<1>2. ASSUME NEW w \in Workers, Partition(w) PROVE CopyInv'
  <2>1. /\ linked' = [linked EXCEPT ![w] = FALSE] /\ requests' = requests \cup Unacked(w)
        /\ UNCHANGED <<orphans, proc, buffer, work>>
    BY <1>2 DEF Partition
  <2>2. \A m : m \in requests' <=> m \in requests \/ UnackedAt(w, m)
    BY <2>1 DEF Unacked, InHand, UnackedAt
  <2>3. \A v \in Workers : \A m : UnackedAt(v, m)' <=> v # w /\ UnackedAt(v, m)
    BY <2>1 DEF TypeOK, UnackedAt
  <2>4. DownIsEmpty'
    BY <2>1 DEF TypeOK, CopyInv, DownIsEmpty
  <2> QED  BY <2>1, <2>2, <2>3, <2>4 DEF CopyInv, OneCopy
<1>3. ASSUME NEW w \in Workers, Cancel(w) PROVE CopyInv'
  <2>1. /\ proc[w] = "consuming" /\ proc' = [proc EXCEPT ![w] = "stopping"]
        /\ buffer' = [buffer EXCEPT ![w] = {}]
        /\ requests' = (IF linked[w] THEN requests \cup buffer[w] ELSE requests)
        /\ UNCHANGED <<orphans, linked, work>>
    BY <1>3 DEF Cancel
  <2>2. \A m : m \in requests' <=> m \in requests \/ (linked[w] /\ m \in buffer[w])
    BY <2>1
  <2>3. \A v \in Workers : \A m :
           UnackedAt(v, m)' <=> UnackedAt(v, m) /\ (v # w \/ (work[w] # NoWork /\ work[w].of = m))
    BY <2>1 DEF TypeOK, UnackedAt
  <2>4. DownIsEmpty'
    BY <2>1 DEF TypeOK, CopyInv, DownIsEmpty
  <2>5. \A v \in Workers : work'[v] # NoWork => work'[v].of \notin buffer'[v]
    BY <2>1 DEF TypeOK, CopyInv, OneCopy
  <2>6. \A m : linked[w] /\ m \in buffer[w] => UnackedAt(w, m)
    BY DEF UnackedAt
  <2>7. \A v \in Workers : \A m : linked[w] /\ m \in buffer[w] => ~UnackedAt(v, m)'
    BY <2>3, <2>6 DEF CopyInv, OneCopy
  <2> QED  BY <2>1, <2>2, <2>3, <2>4, <2>5, <2>6, <2>7 DEF CopyInv, OneCopy
<1>4. CASE Requeue
  <2>1. PICK m \in orphans : orphans' = orphans \ {m} /\ requests' = requests \cup {m}
    BY <1>4 DEF Requeue
  <2>2. UNCHANGED <<proc, linked, buffer, work>>
    BY <1>4 DEF Requeue
  <2> QED  BY <2>1, <2>2 DEF CopyInv, OneCopy, DownIsEmpty, UnackedAt
<1>5. CASE PublishRequest
  <2>1. /\ requests' = requests \cup {<<run, sent + 1>>}
        /\ UNCHANGED <<orphans, proc, linked, buffer, work>>
    BY <1>5 DEF PublishRequest
  <2>2. run \in Nat /\ sent \in Nat
    BY BenchmarksAssumption DEF TypeOK
  <2>3. ~Known(<<run, sent + 1>>)
    BY <2>2 DEF Known
  <2>4. <<run, sent + 1>> \notin orphans /\ \A w \in Workers : ~UnackedAt(w, <<run, sent + 1>>)
    BY <2>3 DEF PlacesInv, AllKnown, UnackedAt
  <2> QED  BY <2>1, <2>4 DEF CopyInv, OneCopy, DownIsEmpty, UnackedAt
<1>6. CASE RedisRestart \/ LateCall \/ ConsumerDies \/ Timeout \/ BeginRun \/ NewRun \/ Purge
             \/ AllPublished \/ WaitReturns \/ Collect \/ AckResult \/ ConsumerReturns
  <2>1. UNCHANGED <<requests, orphans, proc, linked, buffer, work>>
    BY <1>6 DEF RedisRestart, LateCall, ConsumerDies, Timeout, BeginRun, NewRun, Purge,
                AllPublished, WaitReturns, Aggregate, Collect, AckResult, ConsumerReturns
  <2> QED  BY <2>1 DEF CopyInv, OneCopy, DownIsEmpty, UnackedAt
<1> QED
  BY <1>1, <1>2, <1>3, <1>4, <1>5, <1>6 DEF Client, WorkerEnds

\* No step copies a message.
LEMMA CopiesStand ==
    ASSUME TypeOK, PlacesInv, CopyInv, AnyStep
    PROVE  CopyInv'
<1>1. CASE UNCHANGED vars
  BY <1>1 DEF vars, workerVars, CopyInv, DownIsEmpty, OneCopy, UnackedAt
<1>2. CASE ~UNCHANGED vars
  BY <1>2, StepCases, WorkerCopies, OtherCopies
<1> QED
  BY <1>1, <1>2

\* The broker has at most one copy of a message throughout.
LEMMA Copies == Spec => []CopyInv
<1>1. Init => CopyInv
  BY DEF Init, Initially, CopyInv, DownIsEmpty, OneCopy, UnackedAt
<1>2. TypeOK /\ PlacesInv /\ CopyInv /\ [Next]_vars => CopyInv'
  BY CopiesStand DEF AnyStep
<1> QED
  BY <1>1, <1>2, TypeCorrect, Places, PTL DEF Spec

-----------------------------------------------------------------------------
(* What has been run.                                                      *)

HasRun(m) == Outcome(db, Op(m)) # "nil"
Replays == db.metrics["indirect"].replays

\* Nothing is known of a request that was not published.
NothingRunBefore == \A m \in Messages : HasRun(m) => Known(m)

\* A script decides the messages of its own type and id and no other, and it is
\* a replay if that has been run already.
LEMMA ScriptRecords ==
    ASSUME TypeOK, NEW w \in Workers, NEW m \in Messages, db' = Buy(db, w, Op(m), 0, 0)
    PROVE  /\ \A n \in Messages :
                 HasRun(n)' => \/ HasRun(n)
                               \/ Op(n).type = Op(m).type /\ Op(n).request_id = Op(m).request_id
           /\ Replays' = Replays + (IF HasRun(m) THEN 1 ELSE 0)
           /\ Replays \in Nat
<1>1. Op(m) \in Purchases /\ w \in Stores /\ w.arch = "indirect" /\ db \in Db
  BY MessageType, WorkerType DEF TypeOK
<1>2. db' = Buy(db, w, Op(m), 0, 0)
  OBVIOUS
<1>3. ASSUME NEW n \in Messages, Op(n).type # Op(m).type \/ Op(n).request_id # Op(m).request_id
      PROVE  Outcome(db', Op(n)) = Outcome(db, Op(n))
  BY <1>1, <1>2, <1>3, MessageType, BuyOutcomes
<1>4. db'.metrics = [db.metrics EXCEPT ![w.arch] =
                        RecordMetrics(@, IsReplay(db, Op(m)), Outcome(Sell(db, Op(m)), Op(m)), 0, 0)]
  BY <1>1, <1>2, BuyMetrics
<1>5. "indirect" \in DOMAIN db.metrics /\ db.metrics["indirect"].replays \in Nat
  BY <1>1 DEF Db, ARCHITECTURES, Metrics
<1>6. Replays' = Replays + (IF HasRun(m) THEN 1 ELSE 0)
  BY <1>1, <1>4, <1>5 DEF Replays, HasRun, RecordMetrics, IsReplay
<1> QED
  BY <1>3, <1>5, <1>6 DEF HasRun, Replays

\* If all lines differ, that is the message itself.
LEMMA ScriptRuns ==
    ASSUME UniqueLines, TypeOK, NEW w \in Workers, NEW m \in Messages,
           db' = Buy(db, w, Op(m), 0, 0)
    PROVE  /\ \A n \in Messages : HasRun(n)' => HasRun(n) \/ n = m
           /\ Replays' = Replays + (IF HasRun(m) THEN 1 ELSE 0)
           /\ Replays \in Nat
BY ScriptRecords DEF UniqueLines

\* A step that runs no script: it leaves the keys alone or resets them.
Quiet == (\A m \in Messages : HasRun(m)' => HasRun(m)) /\ Replays' <= Replays

RunsScript(w) ==
    Stage(w) = "taken" /\ db' = BuyOf(w) /\ calls' = calls /\ (Execute(w) \/ RedisError(w))

\* A worker runs the script for a message that is in its hands.
LEMMA ScriptIsOf ==
    ASSUME TypeOK, NEW w \in Workers, RunsScript(w)
    PROVE  work[w].of \in Messages /\ db' = Buy(db, w, Op(work[w].of), 0, 0)
BY TakenType DEF RunsScript, BuyOf

\* Keys that are left alone or reset know no more and count no more replays.
LEMMA NoScriptIsQuiet ==
    ASSUME TypeOK, db' = db \/ db' = EmptyDb
    PROVE  Quiet
<1>1. CASE db' = db
  <2>1. Replays' = Replays /\ \A m \in Messages : HasRun(m)' <=> HasRun(m)
    BY <1>1 DEF Replays, HasRun, Outcome
  <2>2. Replays \in Nat
    BY DEF TypeOK, Replays, Db, Metrics, ARCHITECTURES
  <2> QED  BY <2>1, <2>2 DEF Quiet
<1>2. CASE db' = EmptyDb
  <2>1. \A m \in Messages : ~HasRun(m)'
    BY <1>2, EmptyOutcomes, MessageType DEF HasRun
  <2>2. Replays' = 0
    BY <1>2 DEF Replays, EmptyDb, NoMetrics, EmptyMetrics, ARCHITECTURES
  <2>3. Replays \in Nat
    BY DEF TypeOK, Replays, Db, Metrics, ARCHITECTURES
  <2> QED  BY <2>1, <2>2, <2>3 DEF Quiet
<1> QED
  BY <1>1, <1>2

\* No other step runs a script.
LEMMA QuietOrScript ==
    ASSUME TypeOK, [Next]_vars
    PROVE  Quiet \/ LateCall \/ \E w \in Workers : RunsScript(w)
<1>1. ASSUME NEW w \in Workers, Execute(w) \/ RedisError(w)
      PROVE  db' = db \/ RunsScript(w)
  BY <1>1 DEF Execute, RedisError, RunsScript
<1>2. db' = db \/ db' = EmptyDb \/ LateCall \/ \E w \in Workers : Execute(w) \/ RedisError(w)
  BY DEF Next, Callback, Client, Failure, Deliver, ConnectionError, Exit, Start, Requeue,
         Take, NoScript, Publish, Ack, BeginRun, Purge, PublishRequest, AllPublished,
         WaitReturns, Collect, AckResult, ConsumerReturns, Crash, Kill, Partition, Stop, Cancel,
         RedisRestart, ConsumerDies, Timeout, Aggregate, vars
<1> QED
  BY <1>1, <1>2, NoScriptIsQuiet

\* A script is run for messages that were published.
LEMMA RunsBegin == ASSUME UniqueLines PROVE Spec => []NothingRunBefore
<1>1. Init => NothingRunBefore
  BY EmptyOutcomes, MessageType DEF Init, Initially, NothingRunBefore, HasRun
<1>2. TypeOK /\ PlacesInv /\ NothingRunBefore /\ [Next]_vars => NothingRunBefore'
  <2> SUFFICES ASSUME TypeOK, PlacesInv, NothingRunBefore, [Next]_vars PROVE NothingRunBefore'
    OBVIOUS
  <2>1. (run' = run /\ (sent' = sent \/ sent' = sent + 1)) \/ run' = run + 1
    BY DEF Next, Callback, Client, Failure, Deliver, ConnectionError, Exit, Start, Requeue,
           Take, NoScript, Execute, Answer, RedisError, Publish, Ack, BeginRun, NewClient, Purge,
           PublishRequest, AllPublished, WaitReturns, Collect, AckResult, ConsumerReturns, Crash,
           Partition, Stop, Cancel, RedisRestart, LateCall, ConsumerDies, Timeout, Aggregate,
           clientVars, vars
  <2>2. \A m \in Messages : Known(m) => Known(m)'
    BY <2>1, KnownStands
  <2>3. CASE Quiet
    BY <2>2, <2>3 DEF Quiet, NothingRunBefore
  <2>4. ASSUME NEW w \in Workers, RunsScript(w) PROVE NothingRunBefore'
    <3>1. \A n \in Messages : HasRun(n)' => HasRun(n) \/ n = work[w].of
      BY <2>4, ScriptIsOf, ScriptRuns
    <3>2. Known(work[w].of)
      BY <2>4, WorkIs DEF RunsScript, PlacesInv, AllKnown
    <3> QED  BY <2>2, <3>1, <3>2 DEF NothingRunBefore
  <2>5. CASE LateCall
    <3>1. PICK c \in calls : db' = db \/ db' = Buy(db, c.by, Op(c.of), 0, 0)
      BY <2>5, LateCallTouches
    <3>2. c.by \in Workers /\ c.of \in Messages /\ Known(c.of)
      BY DEF TypeOK, Calls, PlacesInv, AllKnown
    <3>3. CASE db' = db
      BY <2>3, <3>3, NoScriptIsQuiet
    <3>4. CASE db' = Buy(db, c.by, Op(c.of), 0, 0)
      <4>1. \A n \in Messages : HasRun(n)' => HasRun(n) \/ n = c.of
        BY <3>2, <3>4, ScriptRuns
      <4> QED  BY <2>2, <3>2, <4>1 DEF NothingRunBefore
    <3> QED  BY <3>1, <3>3, <3>4
  <2> QED  BY <2>3, <2>4, <2>5, QuietOrScript
<1> QED
  BY <1>1, <1>2, TypeCorrect, Places, PTL DEF Spec

-----------------------------------------------------------------------------
(* The account.                                                            *)

\* The messages that a worker has yet to run for the broker.
ToBeRun(m) ==
    \/ m \in requests \/ m \in orphans
    \/ \E w \in Workers : linked[w] /\ (m \in buffer[w] \/ (Stage(w) = "taken" /\ work[w].of = m))

\* What will be replayed if nothing else fails, and who can run a message that
\* the broker gives to another.
Repeats == {m \in Messages : HasRun(m) /\ ToBeRun(m)}
Strays == {w \in Workers : /\ proc[w] \in {"consuming", "stopping"} /\ ~linked[w]
                           /\ Stage(w) \in {"none", "taken"}}

Paid == faults["crash"] + faults["partition"] + faults["redis"]

Account ==
    /\ IsFiniteSet(Strays) /\ IsFiniteSet(Repeats) /\ IsFiniteSet(calls)
    /\ Replays + Cardinality(Strays) + Cardinality(Repeats) + Cardinality(calls) <= Paid

\* By how much a set grows, at most.
Grows(S, T, d) ==
    IsFiniteSet(S) => IsFiniteSet(T) /\ Cardinality(T) <= Cardinality(S) + d

\* A set that keeps, gains or loses an element.
LEMMA Counting ==
    ASSUME NEW S, NEW T
    PROVE  /\ T \subseteq S => Grows(S, T, 0)
           /\ \A x : T \subseteq S \cup {x} => Grows(S, T, 1)
           /\ \A x \in S : T \subseteq S \ {x} => Grows(S, T, -1)
<1> SUFFICES ASSUME IsFiniteSet(S)
             PROVE  /\ T \subseteq S => Grows(S, T, 0)
                    /\ \A x : T \subseteq S \cup {x} => Grows(S, T, 1)
                    /\ \A x \in S : T \subseteq S \ {x} => Grows(S, T, -1)
  BY DEF Grows
<1>1. Cardinality(S) \in Nat
  BY FS_CardinalityType
<1>2. ASSUME NEW U, IsFiniteSet(U), T \subseteq U
      PROVE  IsFiniteSet(T) /\ Cardinality(T) \in Nat /\ Cardinality(T) <= Cardinality(U)
             /\ Cardinality(U) \in Nat
  BY <1>2, FS_Subset, FS_CardinalityType
<1>3. ASSUME NEW x, T \subseteq S \cup {x} PROVE Grows(S, T, 1)
  <2>1. /\ IsFiniteSet(S \cup {x})
        /\ Cardinality(S \cup {x}) = IF x \in S THEN Cardinality(S) ELSE Cardinality(S) + 1
    BY FS_AddElement
  <2> QED  BY <1>1, <1>2, <1>3, <2>1 DEF Grows
<1>4. ASSUME NEW x \in S, T \subseteq S \ {x} PROVE Grows(S, T, -1)
  <2>1. IsFiniteSet(S \ {x}) /\ Cardinality(S \ {x}) = Cardinality(S) - 1
    BY FS_RemoveElement
  <2> QED  BY <1>1, <1>2, <1>4, <2>1 DEF Grows
<1> QED
  BY <1>1, <1>2, <1>3, <1>4 DEF Grows

\* The account holds if nothing is added to it without being paid for.
LEMMA AccountStands ==
    ASSUME TypeOK, TypeOK', Account, NEW a \in Int, NEW b \in Int, NEW c \in Int, NEW d \in Int,
           NEW e \in Int, Grows(Strays, Strays', a), Grows(Repeats, Repeats', b),
           Grows(calls, calls', e), Replays' <= Replays + c, Paid' >= Paid + d,
           a + b + c + e <= d
    PROVE  Account'
<1>1. Replays \in Nat /\ Replays' \in Nat
  BY DEF TypeOK, Replays, Db, Metrics, ARCHITECTURES
<1>2. Paid \in Nat /\ Paid' \in Nat
  <2>1. faults \in [FaultKinds -> Nat] /\ faults' \in [FaultKinds -> Nat]
    BY DEF TypeOK
  <2> QED  BY <2>1 DEF Paid, FaultKinds
<1>3. /\ IsFiniteSet(Strays) /\ IsFiniteSet(Strays')
      /\ Cardinality(Strays') <= Cardinality(Strays) + a
  BY DEF Account, Grows
<1>4. /\ IsFiniteSet(Repeats) /\ IsFiniteSet(Repeats')
      /\ Cardinality(Repeats') <= Cardinality(Repeats) + b
  BY DEF Account, Grows
<1>8. /\ IsFiniteSet(calls) /\ IsFiniteSet(calls')
      /\ Cardinality(calls') <= Cardinality(calls) + e
  BY DEF Account, Grows
<1>5. /\ Cardinality(Strays) \in Nat /\ Cardinality(Strays') \in Nat
      /\ Cardinality(Repeats) \in Nat /\ Cardinality(Repeats') \in Nat
      /\ Cardinality(calls) \in Nat /\ Cardinality(calls') \in Nat
  BY <1>3, <1>4, <1>8, FS_CardinalityType
<1>6. Replays + Cardinality(Strays) + Cardinality(Repeats) + Cardinality(calls) <= Paid
  BY DEF Account
<1>7. Replays' + Cardinality(Strays') + Cardinality(Repeats') + Cardinality(calls') <= Paid'
  BY <1>1, <1>2, <1>3, <1>4, <1>5, <1>6, <1>8
<1> QED
  BY <1>3, <1>4, <1>7, <1>8 DEF Account

\* Something that is paid for adds one to one of them.
LEMMA PaidAccount ==
    ASSUME TypeOK, TypeOK', Account, Replays' <= Replays + 0, Paid' >= Paid + 1,
           NEW a \in {0, 1}, NEW b \in {0, 1}, NEW e \in {0, 1}, a + b + e <= 1,
           Grows(Strays, Strays', a), Grows(Repeats, Repeats', b), Grows(calls, calls', e)
    PROVE  Account'
<1>1. a \in Int /\ b \in Int /\ e \in Int /\ a + b + 0 + e <= 1
  OBVIOUS
<1> QED
  BY <1>1, AccountStands

\* Only a crash or a lost connection pays.
LEMMA Pays ==
    ASSUME TypeOK, NEW kind \in FaultKinds, Fault(kind)
    PROVE  /\ Paid \in Nat
           /\ Paid' = Paid + (IF kind \in {"crash", "partition", "redis"} THEN 1 ELSE 0)
<1>1. faults \in [FaultKinds -> Nat] /\ faults' = [faults EXCEPT ![kind] = @ + 1]
  BY Zenon DEF TypeOK, Fault
<1> QED
  BY <1>1 DEF Paid, FaultKinds

\* A script that a worker runs for the broker uses up the broker's copy: a
\* message that has been run was due to be replayed.  One that a stray runs
\* leaves a copy to be replayed, or is a replay, and the stray is one no more.
LEMMA ScriptAccount ==
    ASSUME UniqueLines, TypeOK, TypeOK', CopyInv, Account, NEW w \in Workers, RunsScript(w),
           NEW status, Answer(w, status)
    PROVE  Account'
<1>0. PICK m \in Messages : m = work[w].of
  BY WorkIs DEF RunsScript
<1>1. /\ work[w] # NoWork
      /\ \A n \in Messages : HasRun(n)' => HasRun(n) \/ n = m
      /\ Replays' = Replays + (IF HasRun(m) THEN 1 ELSE 0) /\ Replays \in Nat
  BY <1>0, ScriptIsOf, ScriptRuns, WorkIs DEF RunsScript
<1>2. Grows(calls, calls', 0)
  BY Counting DEF RunsScript
<1>3. Paid' >= Paid + 0
  <2>1. CASE Execute(w)
    <3>1. faults' = faults /\ faults \in [FaultKinds -> Nat]
      BY <2>1 DEF Execute, TypeOK
    <3> QED  BY <3>1 DEF Paid, FaultKinds
  <2>2. CASE RedisError(w)
    BY <2>2, Pays DEF RedisError, FaultKinds
  <2> QED  BY <2>1, <2>2 DEF RunsScript
<1>4. /\ Stage(w)' = "answered" /\ Stage(w) = "taken"
      /\ \A v \in Workers : v # w => work'[v] = work[v]
      /\ UNCHANGED <<requests, orphans, proc, linked, buffer>>
  BY DEF RunsScript, Answer, Stage, TypeOK
<1>5. \A n : ToBeRun(n)' => ToBeRun(n)
  BY <1>4 DEF ToBeRun, Stage
<1>6. Strays' \subseteq Strays \ {w}
  BY <1>4 DEF Strays, Stage
<1>7. CASE linked[w]
  <2>1. UnackedAt(w, m)
    BY <1>0, <1>1, <1>7 DEF UnackedAt
  <2>2. ToBeRun(m)
    BY <1>0, <1>4, <1>7 DEF ToBeRun
  <2>3. ~ToBeRun(m)'
    <3>1. m \notin requests /\ m \notin orphans /\ m \notin buffer[w]
      BY <1>0, <1>1, <2>1 DEF CopyInv, OneCopy
    <3>2. \A v \in Workers : v # w => ~UnackedAt(v, m)
      BY <2>1 DEF CopyInv, OneCopy
    <3>3. \A v \in Workers : Stage(v) = "taken" => work[v] # NoWork
      BY WorkIs
    <3> QED  BY <1>4, <3>1, <3>2, <3>3 DEF ToBeRun, UnackedAt, Stage
  <2>4. Repeats' \subseteq Repeats \ {m}
    BY <1>1, <1>5, <2>3 DEF Repeats
  <2>5. Strays' \subseteq Strays /\ Repeats' \subseteq Repeats
    BY <1>6, <2>4
  <2>6. Grows(Strays, Strays', 0)
    BY <2>5, Counting
  <2>7. CASE HasRun(m)
    <3>1. m \in Repeats
      BY <1>1, <2>2, <2>7 DEF Repeats
    <3>2. Grows(Repeats, Repeats', -1)
      BY <2>4, <3>1, Counting
    <3>3. Replays' <= Replays + 1 /\ Paid' >= Paid + 0
      BY <1>1, <1>3
    <3> QED  BY <1>2, <2>6, <3>2, <3>3, AccountStands
  <2>8. CASE ~HasRun(m)
    <3>1. Grows(Repeats, Repeats', 0)
      BY <2>5, Counting
    <3>2. Replays' <= Replays + 0 /\ Paid' >= Paid + 0
      BY <1>1, <1>3, <2>8
    <3> QED  BY <1>2, <2>6, <3>1, <3>2, AccountStands
  <2> QED  BY <2>7, <2>8
<1>8. CASE ~linked[w]
  <2>1. w \in Strays
    BY <1>1, <1>4, <1>8 DEF Strays, CopyInv, DownIsEmpty, TypeOK
  <2>2. Grows(Strays, Strays', -1)
    BY <1>6, <2>1, Counting
  <2>3. CASE HasRun(m)
    <3>1. Repeats' \subseteq Repeats
      BY <1>1, <1>5, <2>3 DEF Repeats
    <3>2. Grows(Repeats, Repeats', 0)
      BY <3>1, Counting
    <3>3. Replays' <= Replays + 1 /\ Paid' >= Paid + 0
      BY <1>1, <1>3
    <3> QED  BY <1>2, <2>2, <3>2, <3>3, AccountStands
  <2>4. CASE ~HasRun(m)
    <3>1. Repeats' \subseteq Repeats \cup {m}
      BY <1>1, <1>5 DEF Repeats
    <3>2. Grows(Repeats, Repeats', 1)
      BY <3>1, Counting
    <3>3. Replays' <= Replays + 0 /\ Paid' >= Paid + 0
      BY <1>1, <1>3, <2>4
    <3> QED  BY <1>2, <2>2, <3>2, <3>3, AccountStands
  <2> QED  BY <2>3, <2>4
<1> QED
  BY <1>7, <1>8

\* A script that runs for a message replays it, or leaves what may be a copy of
\* it to be replayed: one run that nobody waits for, one more at most.
LEMMA ExtraRun ==
    ASSUME UniqueLines, TypeOK, NEW v \in Workers, NEW m \in Messages,
           db' = Buy(db, v, Op(m), 0, 0), UNCHANGED <<requests, orphans, linked, buffer, work>>
    PROVE  /\ Replays \in Nat
           /\ \/ Replays' <= Replays + 1 /\ Grows(Repeats, Repeats', 0)
              \/ Replays' <= Replays + 0 /\ Grows(Repeats, Repeats', 1)
<1>1. /\ \A n \in Messages : HasRun(n)' => HasRun(n) \/ n = m
      /\ Replays' = Replays + (IF HasRun(m) THEN 1 ELSE 0) /\ Replays \in Nat
  BY ScriptRuns
<1>2. \A n : ToBeRun(n)' => ToBeRun(n)
  BY DEF ToBeRun, Stage
<1>3. CASE HasRun(m)
  <2>1. Repeats' \subseteq Repeats
    BY <1>1, <1>2, <1>3 DEF Repeats
  <2>2. Grows(Repeats, Repeats', 0)
    BY <2>1, Counting
  <2> QED  BY <1>1, <1>3, <2>2
<1>4. CASE ~HasRun(m)
  <2>1. Repeats' \subseteq Repeats \cup {m}
    BY <1>1, <1>2 DEF Repeats
  <2>2. Grows(Repeats, Repeats', 1)
    BY <2>1, Counting
  <2> QED  BY <1>1, <1>4, <2>2
<1> QED
  BY <1>3, <1>4

\* A call that redis-py sends again although its script has run: the broken
\* connection pays for it.
LEMMA ResentAccount ==
    ASSUME UniqueLines, TypeOK, TypeOK', Account, NEW w \in Workers, RunsScript(w), RedisError(w),
           UNCHANGED <<scripts, requests, orphans, results, workerVars, clientVars>>
    PROVE  Account'
<1>1. UNCHANGED <<requests, orphans, proc, linked, buffer, work>> /\ calls' = calls
  BY DEF RunsScript, workerVars
<1>2. /\ Replays \in Nat
      /\ \/ Replays' <= Replays + 1 /\ Grows(Repeats, Repeats', 0)
         \/ Replays' <= Replays + 0 /\ Grows(Repeats, Repeats', 1)
  BY <1>1, ScriptIsOf, ExtraRun
<1>3. Paid' >= Paid + 1
  BY Pays DEF RedisError, FaultKinds
<1>4. Strays' = Strays
  BY <1>1 DEF Strays, Stage
<1>5. Grows(Strays, Strays', 0) /\ Grows(calls, calls', 0)
  BY <1>1, <1>4, Counting
<1>6. CASE Replays' <= Replays + 1 /\ Grows(Repeats, Repeats', 0)
  BY <1>3, <1>5, <1>6, AccountStands
<1>7. CASE Replays' <= Replays + 0 /\ Grows(Repeats, Repeats', 1)
  BY <1>3, <1>5, <1>7, AccountStands
<1> QED
  BY <1>2, <1>6, <1>7

\* A call that arrives late has been paid for when it was left behind.
LEMMA LateAccount ==
    ASSUME UniqueLines, TypeOK, TypeOK', Account, LateCall
    PROVE  Account'
<1>1. PICK c \in calls :
         /\ calls' = calls \ {c}
         /\ db' = db \/ db' = Buy(db, c.by, Op(c.of), 0, 0)
  BY LateCallTouches
<1>2. UNCHANGED <<requests, orphans, proc, linked, buffer, work, faults>>
  BY DEF LateCall, workerVars
<1>3. c.by \in Workers /\ c.of \in Messages
  BY DEF TypeOK, Calls
<1>4. Paid' >= Paid + 0
  <2>1. faults' = faults /\ faults \in [FaultKinds -> Nat]
    BY <1>2 DEF TypeOK
  <2> QED  BY <2>1 DEF Paid, FaultKinds
<1>5. Strays' = Strays
  BY <1>2 DEF Strays, Stage
<1>6. Grows(Strays, Strays', 0) /\ Grows(calls, calls', -1)
  BY <1>1, <1>5, Counting
<1>7. CASE db' = db
  <2>1. Repeats' = Repeats /\ Replays' = Replays
    BY <1>2, <1>7 DEF Repeats, Replays, HasRun, Outcome, ToBeRun, Stage
  <2>2. Replays \in Nat
    BY DEF TypeOK, Replays, Db, Metrics, ARCHITECTURES
  <2>3. Grows(Repeats, Repeats', 0) /\ Replays' <= Replays + 0
    BY <2>1, <2>2, Counting
  <2> QED  BY <1>4, <1>6, <2>3, AccountStands
<1>8. CASE db' = Buy(db, c.by, Op(c.of), 0, 0)
  <2>1. \/ Replays' <= Replays + 1 /\ Grows(Repeats, Repeats', 0)
        \/ Replays' <= Replays + 0 /\ Grows(Repeats, Repeats', 1)
    BY <1>2, <1>3, <1>8, ExtraRun
  <2>2. CASE Replays' <= Replays + 1 /\ Grows(Repeats, Repeats', 0)
    BY <1>4, <1>6, <2>2, AccountStands
  <2>3. CASE Replays' <= Replays + 0 /\ Grows(Repeats, Repeats', 1)
    BY <1>4, <1>6, <2>3, AccountStands
  <2> QED  BY <2>1, <2>2, <2>3
<1> QED
  BY <1>1, <1>7, <1>8

\* Steps that give nobody more to run.
LEMMA QuietAccount ==
    ASSUME TypeOK, TypeOK', Account, Quiet, Paid' >= Paid, calls' = calls,
           Strays' \subseteq Strays, \A n \in Messages : HasRun(n) /\ ToBeRun(n)' => ToBeRun(n)
    PROVE  Account'
<1>1. Repeats' \subseteq Repeats
  BY DEF Quiet, Repeats
<1>2. Grows(Strays, Strays', 0) /\ Grows(Repeats, Repeats', 0) /\ Grows(calls, calls', 0)
  BY <1>1, Counting
<1>3. Replays \in Nat /\ Replays' \in Nat
  BY DEF TypeOK, Replays, Db, Metrics, ARCHITECTURES
<1>4. Paid \in Nat /\ Paid' \in Nat
  <2>1. faults \in [FaultKinds -> Nat] /\ faults' \in [FaultKinds -> Nat]
    BY DEF TypeOK
  <2> QED  BY <2>1 DEF Paid, FaultKinds
<1>5. Replays' <= Replays + 0 /\ Paid' >= Paid + 0
  BY <1>3, <1>4 DEF Quiet
<1> QED
  BY <1>2, <1>5, AccountStands

\* A worker that does anything but run a script.
LEMMA WorkerAccount ==
    ASSUME TypeOK, TypeOK', CopyInv, Account, Quiet, NEW w \in Workers,
           Deliver(w) \/ Callback(w) \/ RedisError(w) \/ ConnectionError(w) \/ Exit(w) \/ Start(w)
    PROVE  Account'
<1> USE DEF Stage, NoWork
<1>10. Deliver(w) \/ Callback(w) \/ ConnectionError(w) \/ Exit(w) \/ Start(w) => calls' = calls
  BY DEF Deliver, Callback, Take, Execute, NoScript, Publish, Ack, ConnectionError, Exit, Start
<1>1. Paid' >= Paid
  <2>1. faults' = faults \/ Fault("redis")
    BY DEF Deliver, Callback, Take, Execute, NoScript, Publish, Ack, RedisError, ConnectionError,
           Exit, Start
  <2>2. faults \in [FaultKinds -> Nat]
    BY DEF TypeOK
  <2>3. Paid \in Nat /\ (faults' = faults => Paid' = Paid)
    BY <2>2 DEF Paid, FaultKinds
  <2> QED  BY <2>1, <2>3, Pays DEF FaultKinds
<1>2. CASE Deliver(w)
  <2>1. PICK m \in requests :
           buffer' = [buffer EXCEPT ![w] = @ \cup {m}] /\ requests' = requests \ {m}
    BY <1>2 DEF Deliver
  <2>2. UNCHANGED <<orphans, proc, linked, work>>
    BY <1>2 DEF Deliver
  <2>3. \A n : ToBeRun(n)' => ToBeRun(n)
    BY <2>1, <2>2 DEF ToBeRun, TypeOK
  <2>4. Strays' = Strays
    BY <2>2 DEF Strays
  <2> QED  BY <1>1, <1>2, <1>10, <2>3, <2>4, QuietAccount
<1>3. CASE Take(w)
  <2>1. PICK m \in buffer[w] :
           /\ buffer' = [buffer EXCEPT ![w] = @ \ {m}]
           /\ work' = [work EXCEPT ![w] = [stage |-> "taken", of |-> m]]
    BY <1>3 DEF Take
  <2>2. work[w] = NoWork /\ UNCHANGED <<requests, orphans, proc, linked>>
    BY <1>3 DEF Take
  <2>3. \A n : ToBeRun(n)' => ToBeRun(n)
    BY <2>1, <2>2 DEF ToBeRun, TypeOK
  <2>4. Strays' \subseteq Strays
    BY <2>1, <2>2 DEF Strays, TypeOK
  <2> QED  BY <1>1, <1>3, <1>10, <2>3, <2>4, QuietAccount DEF Callback
<1>4. ASSUME calls' = calls, work'[w].stage \in {"answered", "published"},
             \A v \in Workers : v # w => work'[v] = work[v],
             UNCHANGED <<requests, orphans, proc, linked, buffer>>
      PROVE  Account'
  <2>1. \A n : ToBeRun(n)' => ToBeRun(n)
    BY <1>4 DEF ToBeRun
  <2>2. Strays' \subseteq Strays
    BY <1>4 DEF Strays
  <2> QED  BY <1>1, <1>4, <2>1, <2>2, QuietAccount
<1>5. CASE Execute(w) \/ NoScript(w)
  <2>1. PICK status : Answer(w, status)
    BY <1>5 DEF Execute, NoScript
  <2>2. work'[w].stage = "answered" /\ \A v \in Workers : v # w => work'[v] = work[v]
    BY <2>1 DEF Answer, TypeOK
  <2>3. UNCHANGED <<requests, orphans, proc, linked, buffer>>
    BY <2>1 DEF Answer
  <2> QED  BY <1>4, <1>5, <1>10, <2>2, <2>3 DEF Callback
<1>11. CASE RedisError(w)
  <2>1. Paid' >= Paid + 1
    BY <1>11, Pays DEF RedisError, FaultKinds
  <2>2. /\ \A v \in Workers : v # w => work'[v] = work[v]
        /\ work'[w] = work[w] \/ work'[w].stage = "answered"
        /\ UNCHANGED <<requests, orphans, proc, linked, buffer>>
    BY <1>11 DEF RedisError, Answer, workerVars, TypeOK
  <2>3. \A n \in Messages : ToBeRun(n)' => ToBeRun(n)
    BY <2>2 DEF ToBeRun
  <2>4. Strays' \subseteq Strays
    BY <2>2 DEF Strays
  <2>5. Repeats' \subseteq Repeats
    BY <2>3 DEF Quiet, Repeats
  <2>6. calls' \subseteq calls \cup {Call(w)}
    BY <1>11 DEF RedisError
  <2>7. Grows(Strays, Strays', 0) /\ Grows(Repeats, Repeats', 0) /\ Grows(calls, calls', 1)
    BY <2>4, <2>5, <2>6, Counting
  <2>8. Replays' <= Replays + 0
    <3>1. Replays \in Nat /\ Replays' \in Nat
      BY DEF TypeOK, Replays, Db, Metrics, ARCHITECTURES
    <3> QED  BY <3>1 DEF Quiet
  <2> QED  BY <2>1, <2>7, <2>8, AccountStands
<1>6. CASE Publish(w)
  <2>1. work' = [work EXCEPT ![w] = [work[w] EXCEPT !.stage = "published"]]
    BY <1>6 DEF Publish
  <2>2. [work[w] EXCEPT !.stage = "published"].stage = "published"
    <3>1. work[w].stage = "answered" /\ work[w] \in Work
      BY <1>6 DEF Publish, TypeOK
    <3>2. work[w] = [stage |-> work[w].stage, of |-> work[w].of, status |-> work[w].status]
      BY <3>1, WorkCases
    <3> QED  BY <3>2
  <2>3. work'[w].stage = "published" /\ \A v \in Workers : v # w => work'[v] = work[v]
    BY <2>1, <2>2 DEF TypeOK
  <2>4. UNCHANGED <<requests, orphans, proc, linked, buffer>>
    BY <1>6 DEF Publish
  <2> QED  BY <1>4, <1>6, <1>10, <2>3, <2>4 DEF Callback
<1>7. CASE Ack(w)
  <2>1. /\ linked[w] /\ work' = [work EXCEPT ![w] = NoWork]
        /\ UNCHANGED <<requests, orphans, proc, linked, buffer>>
    BY <1>7 DEF Ack
  <2>2. \A n : ToBeRun(n)' => ToBeRun(n)
    BY <2>1 DEF ToBeRun, TypeOK
  <2>3. Strays' \subseteq Strays
    BY <2>1 DEF Strays, TypeOK
  <2> QED  BY <1>1, <1>7, <1>10, <2>2, <2>3, QuietAccount DEF Callback
<1>8. CASE ConnectionError(w) \/ Exit(w)
  <2>1. PICK how \in {"exited", "off"} : Ends(w, how)
    BY <1>8 DEF ConnectionError, Exit
  <2>2. UNCHANGED <<requests, orphans>>
    BY <1>8 DEF ConnectionError, Exit
  <2>3. \A n : ToBeRun(n)' => ToBeRun(n)
    BY <2>1, <2>2 DEF Ends, ToBeRun, TypeOK
  <2>4. Strays' \subseteq Strays
    BY <2>1 DEF Ends, Strays, TypeOK
  <2> QED  BY <1>1, <1>8, <1>10, <2>3, <2>4, QuietAccount
<1>9. CASE Start(w)
  <2>1. /\ proc[w] \in {"exited", "off"} /\ proc' = [proc EXCEPT ![w] = "consuming"]
        /\ linked' = [linked EXCEPT ![w] = TRUE]
        /\ UNCHANGED <<requests, orphans, buffer, work>>
    BY <1>9 DEF Start
  <2>2. buffer[w] = {} /\ work[w] = NoWork
    BY <2>1 DEF CopyInv, DownIsEmpty
  <2>3. \A n : ToBeRun(n)' => ToBeRun(n)
    BY <2>1, <2>2 DEF ToBeRun, TypeOK
  <2>4. Strays' \subseteq Strays
    BY <2>1 DEF Strays, TypeOK
  <2> QED  BY <1>1, <1>9, <1>10, <2>3, <2>4, QuietAccount
<1> QED
  BY <1>2, <1>3, <1>5, <1>6, <1>7, <1>8, <1>9, <1>11 DEF Callback

\* A crash gives the broker back at most one message that has been run, or
\* leaves one call on its way; a lost connection gives it back one, or one stray.
LEMMA FailureAccount ==
    ASSUME TypeOK, TypeOK', CopyInv, Account, Quiet, NEW w \in Workers, Crash(w) \/ Partition(w)
    PROVE  Account'
<1> USE DEF Stage
<1>0. Replays \in Nat /\ Replays' \in Nat /\ Replays' <= Replays + 0
  <2>1. Replays \in Nat /\ Replays' \in Nat
    BY DEF TypeOK, Replays, Db, Metrics, ARCHITECTURES
  <2> QED  BY <2>1 DEF Quiet
<1>1. Paid' >= Paid + 1
  BY Pays DEF Crash, Partition, FaultKinds
<1>2. \A n \in Messages : ToBeRun(n)' => ToBeRun(n) \/ (linked[w] /\ work[w] # NoWork /\ n = work[w].of)
  <2>1. CASE Crash(w)
    <3>1. PICK how : Ends(w, how)
      BY <2>1 DEF Crash, Kill
    <3>2. requests' = requests /\ orphans' = orphans \cup Unacked(w)
      BY <2>1 DEF Crash, Kill
    <3>3. \A v \in Workers : v # w => /\ linked'[v] = linked[v] /\ buffer'[v] = buffer[v]
                                      /\ work'[v] = work[v]
      BY <3>1 DEF Ends, TypeOK
    <3>4. ~linked'[w]
      BY <3>1 DEF Ends, TypeOK
    <3>5. \A n \in orphans' : n \in orphans \/ UnackedAt(w, n)
      BY <3>2 DEF Unacked, InHand, UnackedAt
    <3> QED  BY <3>2, <3>3, <3>4, <3>5 DEF ToBeRun, UnackedAt
  <2>2. CASE Partition(w)
    <3>1. /\ linked' = [linked EXCEPT ![w] = FALSE] /\ requests' = requests \cup Unacked(w)
          /\ UNCHANGED <<orphans, buffer, work>>
      BY <2>2 DEF Partition
    <3>2. \A n \in requests' : n \in requests \/ UnackedAt(w, n)
      BY <3>1 DEF Unacked, InHand, UnackedAt
    <3> QED  BY <3>1, <3>2 DEF ToBeRun, UnackedAt, TypeOK
  <2> QED  BY <2>1, <2>2
\* The message whose call is on its way was to be run as it was.
<1>5. CASE Crash(w) /\ Stage(w) = "taken"
  <2>1. PICK how \in {"exited", "off"} : Ends(w, how)
    BY <1>5 DEF Crash, Kill
  <2>2. Strays' \subseteq Strays
    BY <2>1 DEF Strays, Ends, TypeOK
  <2>3. Repeats' \subseteq Repeats
    <3>1. \A n \in Messages : ToBeRun(n)' => ToBeRun(n)
      BY <1>2, <1>5 DEF ToBeRun
    <3> QED  BY <3>1 DEF Repeats, Quiet
  <2>4. calls' \subseteq calls \cup {Call(w)}
    BY <1>5 DEF Crash, Kill
  <2>5. Grows(Strays, Strays', 0) /\ Grows(Repeats, Repeats', 0) /\ Grows(calls, calls', 1)
    BY <2>2, <2>3, <2>4, Counting
  <2> QED  BY <1>0, <1>1, <2>5, PaidAccount
<1>3. CASE (Crash(w) /\ Stage(w) # "taken") \/ (Partition(w) /\ Stage(w) \notin {"none", "taken"})
  <2>4. Grows(calls, calls', 0)
    <3>1. calls' = calls
      BY <1>3 DEF Crash, Kill, Partition
    <3> QED  BY <3>1, Counting
  <2>1. Strays' \subseteq Strays
    <3>1. CASE Crash(w)
      <4>1. PICK how \in {"exited", "off"} : Ends(w, how)
        BY <3>1 DEF Crash, Kill
      <4> QED  BY <4>1 DEF Strays, Ends, TypeOK
    <3>2. CASE Partition(w) /\ Stage(w) \notin {"none", "taken"}
      BY <3>2 DEF Strays, Partition, TypeOK
    <3> QED  BY <1>3, <3>1, <3>2
  <2>2. \E m : Repeats' \subseteq Repeats \cup {m}
    <3>1. Repeats' \subseteq Repeats \cup {work[w].of}
      BY <1>2 DEF Repeats, Quiet
    <3> QED  BY <3>1
  <2>3. Grows(Strays, Strays', 0) /\ Grows(Repeats, Repeats', 1)
    BY <2>1, <2>2, Counting
  <2> QED  BY <1>0, <1>1, <2>3, <2>4, PaidAccount
<1>4. CASE Partition(w) /\ Stage(w) \in {"none", "taken"}
  <2>1. Strays' \subseteq Strays \cup {w}
    BY <1>4 DEF Strays, Partition, TypeOK
  <2>2. \A n \in Messages : ToBeRun(n)' => ToBeRun(n)
    BY <1>2, <1>4, WorkIs DEF ToBeRun
  <2>3. Repeats' \subseteq Repeats
    BY <2>2 DEF Repeats, Quiet
  <2>4. Grows(Strays, Strays', 1) /\ Grows(Repeats, Repeats', 0) /\ Grows(calls, calls', 0)
    BY <1>4, <2>1, <2>3, Counting DEF Partition
  <2> QED  BY <1>0, <1>1, <2>4, PaidAccount
<1> QED
  BY <1>3, <1>4, <1>5

\* Everything else moves a message back or publishes one that was never run.
LEMMA OtherAccount ==
    ASSUME TypeOK, TypeOK', PlacesInv, NothingRunBefore, Account, Quiet,
           \/ \E w \in Workers : Stop(w)
           \/ Requeue \/ RedisRestart \/ ConsumerDies \/ Timeout \/ Client
    PROVE  Account'
<1>6. calls' = calls
  BY DEF Stop, Cancel, Requeue, RedisRestart, ConsumerDies, Timeout, Aggregate, Client, BeginRun,
         Purge, PublishRequest, AllPublished, WaitReturns, Collect, AckResult, ConsumerReturns
<1>1. Paid' >= Paid
  <2>1. faults' = faults \/ \E kind \in {"stop", "redis_restart", "consumer", "timeout", "redis"} :
                               Fault(kind)
    BY DEF Stop, Requeue, RedisRestart, ConsumerDies, Timeout, Client, BeginRun, Purge,
           PublishRequest, AllPublished, WaitReturns, Collect, AckResult, ConsumerReturns
  <2>2. faults \in [FaultKinds -> Nat]
    BY DEF TypeOK
  <2>3. Paid \in Nat /\ (faults' = faults => Paid' = Paid)
    BY <2>2 DEF Paid, FaultKinds
  <2> QED  BY <2>1, <2>3, Pays DEF FaultKinds
<1>2. ASSUME NEW w \in Workers, Stop(w) PROVE Account'
  <2>1. /\ proc[w] = "consuming" /\ proc' = [proc EXCEPT ![w] = "stopping"]
        /\ buffer' = [buffer EXCEPT ![w] = {}]
        /\ requests' = (IF linked[w] THEN requests \cup buffer[w] ELSE requests)
        /\ UNCHANGED <<orphans, linked, work>>
    BY <1>2 DEF Stop, Cancel
  <2>2. \A n : ToBeRun(n)' => ToBeRun(n)
    BY <2>1 DEF ToBeRun, Stage, TypeOK
  <2>3. Strays' \subseteq Strays
    BY <2>1 DEF Strays, Stage, TypeOK
  <2> QED  BY <1>1, <1>6, <2>2, <2>3, QuietAccount
<1>3. CASE Requeue
  <2>1. PICK m \in orphans : orphans' = orphans \ {m} /\ requests' = requests \cup {m}
    BY <1>3 DEF Requeue
  <2>2. UNCHANGED <<proc, linked, buffer, work>>
    BY <1>3 DEF Requeue, workerVars
  <2>3. \A n : ToBeRun(n)' => ToBeRun(n)
    BY <2>1, <2>2 DEF ToBeRun, Stage
  <2>4. Strays' \subseteq Strays
    BY <2>2 DEF Strays, Stage
  <2> QED  BY <1>1, <1>6, <2>3, <2>4, QuietAccount
<1>4. CASE PublishRequest
  <2>1. requests' = requests \cup {<<run, sent + 1>>}
        /\ UNCHANGED <<orphans, proc, linked, buffer, work>>
    BY <1>4 DEF PublishRequest, workerVars
  <2>2. run \in Nat /\ sent \in Nat
    BY BenchmarksAssumption DEF TypeOK
  <2>3. ~Known(<<run, sent + 1>>)
    BY <2>2 DEF Known
  <2>4. \A n \in Messages : HasRun(n) => n # <<run, sent + 1>>
    BY <2>3 DEF NothingRunBefore
  <2>5. \A n \in Messages : HasRun(n) /\ ToBeRun(n)' => ToBeRun(n)
    BY <2>1, <2>4 DEF ToBeRun, Stage
  <2>6. Strays' \subseteq Strays
    BY <2>1 DEF Strays, Stage
  <2> QED  BY <1>1, <1>6, <2>5, <2>6, QuietAccount
<1>5. CASE RedisRestart \/ ConsumerDies \/ Timeout \/ BeginRun \/ Purge \/ AllPublished
             \/ WaitReturns \/ Collect \/ AckResult \/ ConsumerReturns
  <2>1. UNCHANGED <<requests, orphans, proc, linked, buffer, work>>
    BY <1>5 DEF RedisRestart, ConsumerDies, Timeout, BeginRun, Purge, AllPublished, WaitReturns,
                Aggregate, Collect, AckResult, ConsumerReturns, workerVars
  <2>2. \A n : ToBeRun(n)' => ToBeRun(n)
    BY <2>1 DEF ToBeRun, Stage
  <2>3. Strays' \subseteq Strays
    BY <2>1 DEF Strays, Stage
  <2> QED  BY <1>1, <1>6, <2>2, <2>3, QuietAccount
<1> QED
  BY <1>2, <1>3, <1>4, <1>5 DEF Client

\* If no two lines share an id, every script that is run twice is paid for by a
\* crash, a lost connection or a failed call to Redis of its own, whatever else
\* fails and however many messages a worker had prefetched; a graceful stop
\* replays nothing.
THEOREM ReplaysArePaidFor ==
    ASSUME UniqueLines
    PROVE  Spec => []ReplaysNeedFailures
<1>1. Init => Account
  <2> SUFFICES ASSUME Init PROVE Account
    OBVIOUS
  <2>1. Strays = {} /\ Repeats = {}
    BY DEF Init, Initially, Strays, Repeats, ToBeRun, Stage, NoWork
  <2>2. Replays = 0 /\ Paid = 0 /\ calls = {}
    BY DEF Init, Initially, Replays, Paid, FaultKinds, EmptyDb, NoMetrics, EmptyMetrics,
           ARCHITECTURES
  <2> QED  BY <2>1, <2>2, FS_EmptySet DEF Account
<1>2. TypeOK /\ TypeOK' /\ PlacesInv /\ CopyInv /\ NothingRunBefore /\ Account /\ [Next]_vars
        => Account'
  <2> SUFFICES ASSUME TypeOK, TypeOK', PlacesInv, CopyInv, NothingRunBefore, Account, [Next]_vars
               PROVE  Account'
    OBVIOUS
  <2>1. ASSUME NEW w \in Workers, RunsScript(w) PROVE Account'
    <3>1. \/ \E status : Answer(w, status)
          \/ RedisError(w)
             /\ UNCHANGED <<scripts, requests, orphans, results, workerVars, clientVars>>
      BY <2>1 DEF RunsScript, Execute, RedisError
    <3> QED  BY <2>1, <3>1, ScriptAccount, ResentAccount
  <2>2. CASE Quiet
    <3>1. CASE UNCHANGED vars
      <4>1. UNCHANGED <<db, calls, requests, orphans, proc, linked, buffer, work, faults>>
        BY <3>1 DEF vars, workerVars
      <4>2. Strays' = Strays /\ Repeats' = Repeats /\ Replays' = Replays /\ Paid' = Paid
        BY <4>1 DEF Strays, Repeats, Replays, Paid, HasRun, Outcome, ToBeRun, Stage
      <4> QED  BY <4>1, <4>2 DEF Account
    <3>2. CASE Next
      BY <2>2, <3>2, WorkerAccount, FailureAccount, OtherAccount, LateAccount DEF Next, Failure
    <3> QED  BY <3>1, <3>2
  <2> QED  BY <2>1, <2>2, LateAccount, QuietOrScript
<1>3. TypeOK /\ Account => ReplaysNeedFailures
  <2> SUFFICES ASSUME TypeOK, Account PROVE Replays <= Paid
    BY DEF ReplaysNeedFailures, Replays, Paid
  <2>1. Replays \in Nat
    BY DEF TypeOK, Replays, Db, Metrics, ARCHITECTURES
  <2>2. Paid \in Nat
    <3>1. faults \in [FaultKinds -> Nat]
      BY DEF TypeOK
    <3> QED  BY <3>1 DEF Paid, FaultKinds
  <2>3. /\ Cardinality(Strays) \in Nat /\ Cardinality(Repeats) \in Nat
        /\ Cardinality(calls) \in Nat
    BY FS_CardinalityType DEF Account
  <2>4. Replays + Cardinality(Strays) + Cardinality(Repeats) + Cardinality(calls) <= Paid
    BY DEF Account
  <2> QED  BY <2>1, <2>2, <2>3, <2>4
<1>4. Spec => []NothingRunBefore
  BY RunsBegin
<1> QED
  BY <1>1, <1>2, <1>3, <1>4, TypeCorrect, Places, Copies, PTL DEF Spec

-----------------------------------------------------------------------------
(* Reports.  In the first run no result is an old one; if Redis answers    *)
(* every call, none is an error, and what is collected is what the ledger  *)
(* says for good.                                                          *)

\* Redis answers every call: otherwise a sale may be answered ERROR.
RedisStaysUp == MaxFaults["redis"] = 0 /\ MaxFaults["redis_restart"] = 0

\* No file was run before, so no result of an earlier run is in the queues.
OneFile == Len(Benchmarks) = 1

NoErrors ==
    /\ scripts
    /\ \A w \in Workers : HasAnswer(w) => work[w].status # "ERROR"
    /\ \A r \in results : r.status # "ERROR"

\* What is collected are outcomes of the file's lines.
CollectedIsTrue ==
    /\ \A m \in Messages :
          m[1] = 1 => collected[Op(m).request_id] \in {"nil", Outcome(db, Op(m))}
    /\ Got(collected) \subseteq Ids(1)

\* Nothing but lines of the file is on record.
OfTheFile ==
    \A k \in Kinds, c \in Requests :
        db.processed[k][c] # "nil" =>
            \E m \in Messages : m[1] = 1 /\ Op(m).type = k /\ Op(m).request_id = c

\* The report holds what has been collected, and nothing is collected later.
ReportIsCollected ==
    pc = "finished" /\ ~report.late => done /\ report.statuses = collected

FirstRun == NoErrors /\ CollectedIsTrue /\ OfTheFile /\ Tallied(db) /\ ReportIsCollected

FirstRunInv == run <= 1 => FirstRun

\* Redis does not fail.
LEMMA RedisIsUp ==
    ASSUME RedisStaysUp, TypeOK
    PROVE  /\ \A w \in Workers : ~RedisError(w)
           /\ ~RedisRestart
           /\ BeginRun => db' = EmptyDb
<1>1. "redis" \in FaultKinds /\ "redis_restart" \in FaultKinds
  BY DEF FaultKinds
<1>2. ~Fault("redis") /\ ~Fault("redis_restart")
  BY <1>1 DEF RedisStaysUp, Fault, TypeOK
<1> QED
  BY <1>2 DEF RedisError, RedisRestart, BeginRun

\* A first run is not preceded by another, and what it knows is its own.
LEMMA FirstRunIsFirst ==
    ASSUME TypeOK, [Next]_vars, run' <= 1
    PROVE  /\ run <= 1
           /\ NewClient => run = 0 /\ run' = 1
           /\ \A m \in Messages : Known(m) => m[1] = 1 /\ run = 1
<1>1. run \in Nat
  BY BenchmarksAssumption DEF TypeOK
<1>2. NewClient => run' = run + 1
  BY DEF NewClient
<1>3. run' = run \/ NewClient
  BY DEF Next, Client, Failure, Deliver, Callback, Take, Execute, NoScript, Answer, Publish, Ack,
         ConnectionError, Exit, Start, Requeue, BeginRun, Purge, PublishRequest, AllPublished,
         WaitReturns, Timeout, Aggregate, Collect, AckResult, ConsumerReturns, ConsumerDies,
         RedisError, RedisRestart, LateCall, Crash, Kill, Partition, Stop, Cancel, vars, clientVars
<1>4. run <= 1 /\ (NewClient => run = 0 /\ run' = 1)
  BY <1>1, <1>2, <1>3
<1>5. ASSUME NEW m \in Messages, Known(m) PROVE m[1] = 1 /\ run = 1
  <2>1. m[1] \in Nat /\ m[1] >= 1
    BY MessageType, BenchmarksAssumption
  <2> QED  BY <1>1, <1>4, <1>5, <2>1 DEF Known
<1> QED
  BY <1>4, <1>5

\* The keys change by a script, of a worker or of one that died, or a reset.
LEMMA KeysOfNext ==
    ASSUME RedisStaysUp, TypeOK, [Next]_vars
    PROVE  \/ db' = db
           \/ BeginRun /\ db' = EmptyDb
           \/ \E w \in Workers, m \in Messages :
                 /\ (work[w] # NoWork /\ m = work[w].of) \/ \E c \in calls : c.of = m
                 /\ db' = Buy(db, w, Op(m), 0, 0)
<1>1. db' = db \/ BeginRun \/ LateCall \/ \E w \in Workers : Execute(w)
  BY RedisIsUp
     DEF Next, Client, Failure, Deliver, Callback, Take, NoScript, Publish, Ack, ConnectionError,
         Exit, Start, Requeue, Purge, PublishRequest, AllPublished, WaitReturns, Timeout, Aggregate,
         Collect, AckResult, ConsumerReturns, ConsumerDies, Crash, Kill, Partition, Stop, Cancel,
         vars
<1>2. ASSUME NEW w \in Workers, Execute(w)
      PROVE  work[w] # NoWork /\ work[w].of \in Messages /\ db' = Buy(db, w, Op(work[w].of), 0, 0)
  BY <1>2, WorkIs DEF Execute, BuyOf
<1>3. CASE LateCall
  <2>1. PICK c \in calls : db' = db \/ db' = Buy(db, c.by, Op(c.of), 0, 0)
    BY <1>3, LateCallTouches
  <2>2. c.by \in Workers /\ c.of \in Messages
    BY DEF TypeOK, Calls
  <2> QED  BY <2>1, <2>2
<1> QED
  BY <1>1, <1>2, <1>3, RedisIsUp

\* As long as Redis answers, no result is an error.
LEMMA NoErrorsStand ==
    ASSUME RedisStaysUp, TypeOK, NoErrors, [Next]_vars
    PROVE  NoErrors'
<1> USE DEF TypeOK, workerVars
<1>1. NoWork.stage = "none"
  BY DEF NoWork
<1>2. ASSUME scripts', results' \subseteq results,
             \A v \in Workers : work'[v] = work[v] \/ work'[v].stage \in {"none", "taken"}
      PROVE  NoErrors'
  BY <1>2 DEF NoErrors, HasAnswer, Stage
<1>3. ASSUME NEW w \in Workers, Deliver(w) \/ Take(w) \/ Ack(w) \/ ConnectionError(w) \/ Exit(w)
                                \/ Start(w) \/ Crash(w) \/ Partition(w) \/ Stop(w)
      PROVE  NoErrors'
  <2>1. scripts' /\ results' = results
    BY <1>3 DEF NoErrors, Deliver, Take, Ack, ConnectionError, Exit, Start, Crash, Kill, Partition,
                Stop, Cancel
  <2>2. \A v \in Workers : work'[v] = work[v] \/ work'[v].stage \in {"none", "taken"}
    BY <1>1, <1>3 DEF Deliver, Take, Ack, ConnectionError, Exit, Ends, Start, Crash, Kill,
                      Partition, Stop, Cancel
  <2> QED  BY <1>2, <2>1, <2>2
<1>4. ASSUME NEW w \in Workers, Execute(w) PROVE NoErrors'
  <2>1. PICK o \in Outcomes :
           work' = [work EXCEPT ![w] = [stage |-> "answered", of |-> work[w].of, status |-> o]]
    BY <1>4, TakenType DEF Execute, Answer
  <2>2. results' = results /\ scripts' = scripts
    BY <1>4 DEF Execute, Answer
  <2> QED  BY <2>1, <2>2 DEF NoErrors, HasAnswer, Stage, Outcomes
<1>5. ASSUME NEW w \in Workers, Publish(w) PROVE NoErrors'
  <2>1. /\ Stage(w) = "answered" /\ work' = [work EXCEPT ![w].stage = "published"]
        /\ results' = results \cup
              {[of |-> work[w].of, status |-> work[w].status, worker_id |-> w.node_id]}
        /\ scripts' = scripts
    BY <1>5 DEF Publish
  <2>2. work[w].status # "ERROR"
    BY <2>1 DEF NoErrors, HasAnswer
  <2> QED  BY <2>1, <2>2 DEF NoErrors, HasAnswer, Stage
<1>6. \A w \in Workers : ~NoScript(w)
  BY DEF NoErrors, NoScript
<1>7. CASE Requeue \/ LateCall \/ Client \/ ConsumerDies \/ Timeout \/ UNCHANGED vars
  <2>1. scripts' /\ results' \subseteq results /\ work' = work
    BY <1>7 DEF NoErrors, Requeue, LateCall, Client, BeginRun, Purge, PublishRequest, AllPublished,
                WaitReturns, Collect, AckResult, ConsumerReturns, ConsumerDies, Timeout, Aggregate,
                vars
  <2> QED  BY <1>2, <2>1
<1> QED
  BY <1>3, <1>4, <1>5, <1>6, <1>7, RedisIsUp DEF Next, Callback, Failure

\* What has been collected is not contradicted by what is.
LEMMA CollectedInFirst ==
    ASSUME TypeOK, PlacesInv, LedgerInv, NoErrors, CollectedIsTrue, run <= 1,
           \A m \in Messages : Known(m) => m[1] = 1 /\ run = 1,
           NEW r \in results,
           collected' = [collected EXCEPT ![Op(r.of).request_id] = r.status]
    PROVE  /\ r.of \in Messages /\ r.of[1] = 1
           /\ r.status = Outcome(db, Op(r.of)) /\ r.status # "nil"
           /\ collected[Op(r.of).request_id] \in {"nil", r.status}
           /\ \A c \in Requests :
                 collected'[c] = IF c = Op(r.of).request_id THEN r.status ELSE collected[c]
<1>1. r.of \in Messages /\ r.status \in Statuses /\ Op(r.of).request_id \in Requests
  BY MessageType DEF TypeOK, Results
<1>2. r.of[1] = 1 /\ run = 1
  BY <1>1 DEF PlacesInv, AllKnown
<1>3. r.status # "ERROR" /\ r.status = Outcome(db, Op(r.of))
  BY <1>2 DEF NoErrors, LedgerInv, ResultsMatchLedger
<1>4. r.status # "nil"
  BY <1>1 DEF Statuses, Outcomes
<1> QED
  BY <1>1, <1>2, <1>3, <1>4 DEF CollectedIsTrue, TypeOK

\* What is collected stays true: outcomes stand, and so do results.
LEMMA CollectedStaysTrue ==
    ASSUME DistinctIds, RedisStaysUp, TypeOK, PlacesInv, LedgerInv, NoErrors, CollectedIsTrue,
           [Next]_vars, run' <= 1
    PROVE  CollectedIsTrue'
<1>1. /\ run <= 1 /\ (NewClient => run = 0 /\ run' = 1)
      /\ \A m \in Messages : Known(m) => m[1] = 1 /\ run = 1
  BY FirstRunIsFirst
<1>2. CASE BeginRun
  <2>1. \A c \in Requests : collected'[c] = "nil"
    BY <1>2 DEF BeginRun, NewClient, NothingCollected
  <2> QED  BY <2>1, MessageType DEF CollectedIsTrue, Got
<1>3. CASE Collect
  <2>1. PICK r \in results :
           /\ collected' = [collected EXCEPT ![Op(r.of).request_id] = r.status]
           /\ db' = db
    BY <1>3 DEF Collect
  <2>2. /\ r.of \in Messages /\ r.of[1] = 1
        /\ r.status = Outcome(db, Op(r.of)) /\ r.status # "nil"
        /\ \A c \in Requests :
              collected'[c] = IF c = Op(r.of).request_id THEN r.status ELSE collected[c]
    BY <1>1, <2>1, CollectedInFirst
  <2>3. ASSUME NEW m \in Messages, m[1] = 1
        PROVE  collected'[Op(m).request_id] \in {"nil", Outcome(db', Op(m))}
    <3>1. Op(m).request_id = Op(r.of).request_id => m = r.of
      BY <2>2, <2>3, OneLine
    <3>2. collected[Op(m).request_id] \in {"nil", Outcome(db, Op(m))}
          /\ Op(m).request_id \in Requests
      BY <2>3, MessageType DEF CollectedIsTrue
    <3> QED  BY <2>1, <2>2, <3>1, <3>2
  <2>4. Op(r.of).request_id \in Ids(1)
    BY <2>2 DEF Messages, Op, Ids
  <2>5. Got(collected') \subseteq Ids(1)
    BY <2>2, <2>4 DEF CollectedIsTrue, Got
  <2> QED  BY <2>3, <2>5 DEF CollectedIsTrue, Got
<1>4. CASE ~BeginRun /\ ~Collect
  <2>1. collected' = collected
    BY <1>4, RedisIsUp
       DEF Next, Client, Failure, Deliver, Callback, Take, Execute, NoScript, Answer, Publish, Ack,
           ConnectionError, Exit, Start, Requeue, Purge, PublishRequest, AllPublished,
           WaitReturns, Timeout, Aggregate, AckResult, ConsumerReturns, ConsumerDies, LateCall,
           Crash, Kill, Partition, Stop, Cancel, vars, clientVars
  <2>2. OutcomesKept
    <3>1. CASE db' = db
      BY <3>1 DEF OutcomesKept, Outcome
    <3>2. ASSUME NEW w \in Workers, NEW m \in Messages, db' = Buy(db, w, Op(m), 0, 0)
          PROVE  OutcomesKept
      <4>1. db \in Db /\ w \in Stores /\ Op(m) \in Purchases
        BY WorkerType, MessageType DEF TypeOK
      <4> QED  BY <3>2, <4>1, BuyOutcomes DEF OutcomesKept
    <3> QED  BY <1>4, <3>1, <3>2, KeysOfNext
  <2>3. \A m \in Messages :
           m[1] = 1 => collected'[Op(m).request_id] \in {"nil", Outcome(db', Op(m))}
    BY <2>1, <2>2, MessageType DEF CollectedIsTrue, OutcomesKept
  <2> QED  BY <2>1, <2>3 DEF CollectedIsTrue, Got
<1> QED
  BY <1>2, <1>3, <1>4

\* The keys of the first run hold what its file's lines have done.
LEMMA KeysOfTheFile ==
    ASSUME RedisStaysUp, TypeOK, PlacesInv, OfTheFile, Tallied(db), [Next]_vars, run' <= 1
    PROVE  OfTheFile' /\ Tallied(db')
<1>1. CASE db' = db
  BY <1>1 DEF OfTheFile
<1>2. CASE db' = EmptyDb
  <2>1. \A k \in Kinds, c \in Requests : db'.processed[k][c] = "nil"
    BY <1>2 DEF EmptyDb
  <2> QED  BY <1>2, <2>1, EmptyTallied DEF OfTheFile
<1>3. ASSUME NEW w \in Workers, NEW m \in Messages, db' = Buy(db, w, Op(m), 0, 0),
             (work[w] # NoWork /\ m = work[w].of) \/ \E c \in calls : c.of = m
      PROVE  OfTheFile' /\ Tallied(db')
  <2>1. Known(m)
    BY <1>3 DEF PlacesInv, AllKnown
  <2>2. db' = Buy(db, w, Op(m), 0, 0)
    BY <1>3
  <2>3. m[1] = 1 /\ Op(m) \in Purchases /\ w \in Stores /\ db \in Db
    BY <2>1, FirstRunIsFirst, MessageType, WorkerType DEF TypeOK
  <2>4. /\ db'.processed = Sell(db, Op(m)).processed
        /\ db'.sold = Sell(db, Op(m)).sold /\ db'.seats = Sell(db, Op(m)).seats
    <3>1. ASSUME NEW p \in Purchases, db' = Buy(db, w, p, 0, 0)
          PROVE  /\ db'.processed = Sell(db, p).processed
                 /\ db'.sold = Sell(db, p).sold /\ db'.seats = Sell(db, p).seats
      BY <2>3, <3>1, BuyType
    <3> QED  BY <2>2, <2>3, <3>1
  <2>5. Tallied(db')
    <3>1. \A k, o : Entries(db', k, o) = Entries(Sell(db, Op(m)), k, o)
      BY <2>4 DEF Entries
    <3>2. Tallied(Sell(db, Op(m)))
      BY <2>3, SellTallied
    <3> QED  BY <2>4, <3>1, <3>2 DEF Tallied
  <2>6. ASSUME NEW k \in Kinds, NEW c \in Requests, db'.processed[k][c] # "nil"
        PROVE  \E n \in Messages : n[1] = 1 /\ Op(n).type = k /\ Op(n).request_id = c
    <3>1. CASE db'.processed[k][c] = db.processed[k][c]
      BY <2>6, <3>1 DEF OfTheFile
    <3>2. CASE db'.processed[k][c] # db.processed[k][c]
      BY <2>3, <2>4, <3>2, SellRecords
    <3> QED  BY <3>1, <3>2
  <2> QED  BY <2>5, <2>6 DEF OfTheFile
<1> QED
  BY <1>1, <1>2, <1>3, KeysOfNext

\* The report is what has been collected, and what is collected after it says
\* the same once more.
LEMMA ReportStands ==
    ASSUME DistinctIds, RedisStaysUp, TypeOK, PlacesInv, LedgerInv, CountInv, FirstRun,
           [Next]_vars, run' <= 1
    PROVE  ReportIsCollected'
<1>1. /\ run <= 1
      /\ \A m \in Messages : Known(m) => m[1] = 1 /\ run = 1
  BY FirstRunIsFirst
<1>2. CASE NewClient
  BY <1>2 DEF NewClient, ReportIsCollected
<1>3. CASE WaitReturns
  BY <1>3 DEF WaitReturns, Aggregate, ReportIsCollected
<1>4. CASE Timeout
  BY <1>4 DEF Timeout, Aggregate, ReportIsCollected
<1>5. CASE Collect
  <2>1. PICK r \in results :
           collected' = [collected EXCEPT ![Op(r.of).request_id] = r.status]
    BY <1>5 DEF Collect
  <2>2. pc' = pc /\ report' = report /\ (done => done') /\ run' = run
    BY <1>5 DEF Collect
  <2> SUFFICES ASSUME pc = "finished", ~report.late PROVE collected' = collected
    BY <2>2 DEF FirstRun, ReportIsCollected
  <2>3. done
    BY DEF FirstRun, ReportIsCollected
  <2>4. /\ r.of \in Messages /\ r.of[1] = 1
        /\ r.status # "nil" /\ collected[Op(r.of).request_id] \in {"nil", r.status}
        /\ \A c \in Requests :
              collected'[c] = IF c = Op(r.of).request_id THEN r.status ELSE collected[c]
    BY <1>1, <2>1, CollectedInFirst DEF FirstRun
  <2>5. run = 1
    BY <1>1, <2>4 DEF PlacesInv, AllKnown
  <2>6. Op(r.of).request_id \in Ids(1)
    BY <2>4 DEF Messages, Op, Ids
  <2>7. Got(collected) = Ids(run)
    BY <2>3, <2>5, CountedIsAll DEF FirstRun, CollectedIsTrue
  <2>8. \A c \in Requests : collected'[c] = collected[c]
    BY <2>4, <2>5, <2>6, <2>7 DEF Got
  <2> QED  BY <2>1, <2>8 DEF TypeOK
<1>6. CASE ~NewClient /\ ~WaitReturns /\ ~Timeout /\ ~Collect
  <2>1. /\ UNCHANGED <<report, collected, done>>
        /\ pc' = "finished" => pc = "finished"
    BY <1>6 DEF Next, Client, Failure, Deliver, Callback, Take, Execute, NoScript, Answer, Publish,
                Ack, ConnectionError, Exit, Start, Requeue, BeginRun, Purge, PublishRequest,
                AllPublished, AckResult, ConsumerReturns, ConsumerDies, RedisError, RedisRestart,
                LateCall, Crash, Kill, Partition, Stop, Cancel, vars, clientVars
  <2> QED  BY <2>1 DEF FirstRun, ReportIsCollected
<1> QED
  BY <1>2, <1>3, <1>4, <1>5, <1>6

\* All this holds as long as the first run is the last to have begun.
LEMMA FirstRunHolds ==
    ASSUME DistinctIds, RedisStaysUp PROVE Spec => []FirstRunInv
<1>1. Init => FirstRunInv
  <2> SUFFICES ASSUME Init PROVE FirstRun
    BY DEF FirstRunInv
  <2>1. NoErrors
    BY DEF Init, Initially, NoErrors, HasAnswer, Stage, NoWork
  <2>2. CollectedIsTrue
    BY MessageType DEF Init, Initially, NothingCollected, CollectedIsTrue, Got
  <2>3. OfTheFile /\ Tallied(db)
    BY EmptyTallied DEF Init, Initially, OfTheFile, EmptyDb
  <2>4. ReportIsCollected
    BY DEF Init, Initially, ReportIsCollected
  <2> QED  BY <2>1, <2>2, <2>3, <2>4 DEF FirstRun
<1>2. TypeOK /\ PlacesInv /\ LedgerInv /\ CountInv /\ FirstRunInv /\ [Next]_vars => FirstRunInv'
  <2> SUFFICES ASSUME TypeOK, PlacesInv, LedgerInv, CountInv, FirstRunInv, [Next]_vars, run' <= 1
               PROVE  FirstRun'
    BY DEF FirstRunInv
  <2>1. FirstRun
    BY FirstRunIsFirst DEF FirstRunInv
  <2>2. NoErrors' /\ CollectedIsTrue' /\ ReportIsCollected'
    BY <2>1, NoErrorsStand, CollectedStaysTrue, ReportStands DEF FirstRun
  <2>3. OfTheFile' /\ Tallied(db)'
    BY <2>1, KeysOfTheFile DEF FirstRun
  <2> QED  BY <2>2, <2>3 DEF FirstRun
<1>3. Spec => []CountInv
  BY Counts
<1> QED
  BY <1>1, <1>2, <1>3, TypeCorrect, Places, LedgerHolds, PTL DEF Spec

\* When all lines have a result, the ones told OK are the requests on record as
\* OK, each under the one ticket model of its line.
LEMMA SuccessesAreSales ==
    ASSUME DistinctIds, OneFile, TypeOK, CollectedIsTrue, OfTheFile, Tallied(db),
           Got(collected) = Ids(1)
    PROVE  Cardinality({c \in Requests : collected[c] = "OK"}) = db.sold + Cardinality(db.seats)
<1> DEFINE T == {c \in Requests : collected[c] = "OK"}
           U == Entries(db, "unnumbered", "OK")
           N == Entries(db, "numbered", "OK")
<1>1. "OK" # "nil" /\ "unnumbered" \in Kinds /\ "numbered" \in Kinds
  BY DEF Kinds
<1>2. ASSUME NEW c \in T PROVE c \in U \cup N
  <2>1. PICK j \in DOMAIN Benchmarks[1] : Benchmarks[1][j].request_id = c
    BY <1>2 DEF CollectedIsTrue, Got, Ids
  <2>2. 1 \in DOMAIN Benchmarks
    BY BenchmarksAssumption DEF OneFile
  <2>3. PICK m \in Messages : m[1] = 1 /\ Op(m).request_id = c
    <3>1. <<1, j>> \in Messages
      BY <2>1, <2>2 DEF Messages
    <3>2. Op(<<1, j>>).request_id = c
      BY <2>1 DEF Op
    <3> QED  BY <3>1, <3>2
  <2>4. Outcome(db, Op(m)) = "OK" /\ Op(m).type \in Kinds
    BY <1>2, <2>3, MessageType, PurchasesAssumption DEF CollectedIsTrue
  <2> QED  BY <1>2, <2>3, <2>4 DEF Outcome, Entries, Kinds
<1>3. ASSUME NEW k \in Kinds, NEW c \in Entries(db, k, "OK") PROVE c \in T
  <2>1. c \in Requests /\ db.processed[k][c] = "OK"
    BY DEF Entries
  <2>2. PICK m \in Messages : m[1] = 1 /\ Op(m).type = k /\ Op(m).request_id = c
    BY <2>1 DEF OfTheFile
  <2>3. c \in Ids(1)
    BY <2>2 DEF Messages, Op, Ids
  <2> QED  BY <2>1, <2>2, <2>3 DEF CollectedIsTrue, Got, Outcome
<1>4. T = U \cup N
  BY <1>1, <1>2, <1>3
<1>5. U \cap N = {}
  <2> SUFFICES ASSUME NEW c \in U, c \in N PROVE FALSE
    OBVIOUS
  <2>1. c \in Requests /\ db.processed["unnumbered"][c] = "OK" /\ db.processed["numbered"][c] = "OK"
    BY DEF Entries
  <2>2. PICK m \in Messages : m[1] = 1 /\ Op(m).type = "unnumbered" /\ Op(m).request_id = c
    BY <1>1, <2>1 DEF OfTheFile
  <2>3. PICK n \in Messages : n[1] = 1 /\ Op(n).type = "numbered" /\ Op(n).request_id = c
    BY <1>1, <2>1 DEF OfTheFile
  <2> QED  BY <2>2, <2>3, OneLine
<1>6. /\ IsFiniteSet(U) /\ IsFiniteSet(N)
      /\ db.sold = Cardinality(U) /\ Cardinality(db.seats) = Cardinality(N)
  BY <1>1 DEF Tallied
<1> HIDE DEF U, N
<1>7. Cardinality(T) = Cardinality(U) + Cardinality(N) - Cardinality(U \cap N)
  BY <1>4, <1>6, FS_Union
<1>8. Cardinality(U \cap N) = 0
  BY <1>5, FS_EmptySet
<1>9. Cardinality(U) \in Nat /\ Cardinality(N) \in Nat
  BY <1>6, FS_CardinalityType
<1> QED
  BY <1>6, <1>7, <1>8, <1>9

\* What the client was told stands, whichever worker sends a second result for
\* the same request, as long as no result of an earlier file is in the queues.
THEOREM AnswersAreFinal ==
    ASSUME DistinctIds, RedisStaysUp, OneFile PROVE Spec => AnswersStand
<1>1. TypeOK /\ PlacesInv /\ LedgerInv /\ FirstRunInv /\ TypeOK' /\ [Next]_vars =>
        [run' = run => \A c \in Requests : collected[c] \in {"nil", collected'[c]}]_vars
  <2> SUFFICES ASSUME TypeOK, PlacesInv, LedgerInv, FirstRunInv, TypeOK', [Next]_vars, run' = run,
                      NEW c \in Requests
               PROVE  collected[c] \in {"nil", collected'[c]}
    OBVIOUS
  <2>1. run' <= 1
    BY DEF OneFile, TypeOK
  <2>2. /\ run <= 1
        /\ \A m \in Messages : Known(m) => m[1] = 1 /\ run = 1
    BY <2>1, FirstRunIsFirst
  <2>3. CASE Collect
    <3>1. PICK r \in results :
             collected' = [collected EXCEPT ![Op(r.of).request_id] = r.status]
      BY <2>3 DEF Collect
    <3> QED  BY <2>2, <3>1, CollectedInFirst DEF FirstRunInv, FirstRun
  <2>4. CASE ~Collect
    <3>1. ~NewClient
      BY <2>1, <2>2, FirstRunIsFirst
    <3>2. collected' = collected
      BY <2>4, <3>1
         DEF Next, Client, Failure, Deliver, Callback, Take, Execute, NoScript, Answer, Publish, Ack,
             ConnectionError, Exit, Start, Requeue, BeginRun, Purge, PublishRequest, AllPublished,
             WaitReturns, Timeout, Aggregate, AckResult, ConsumerReturns, ConsumerDies, RedisError,
             RedisRestart, LateCall, Crash, Kill, Partition, Stop, Cancel, vars, clientVars
    <3> QED  BY <3>2
  <2> QED  BY <2>3, <2>4
<1>2. Spec => []FirstRunInv
  BY FirstRunHolds
<1> QED
  BY <1>1, <1>2, TypeCorrect, Places, LedgerHolds, PTL DEF Spec, AnswersStand

\* Whatever becomes of the workers, a run that did not time out reports as many
\* successes as tickets are sold.
THEOREM SuccessesMatchSales ==
    ASSUME DistinctIds, RedisStaysUp, OneFile PROVE Spec => []SuccessMatchesSold
<1>1. TypeOK /\ RunBegun /\ CountInv /\ FirstRunInv => SuccessMatchesSold
  <2> SUFFICES ASSUME TypeOK, RunBegun, CountInv, FirstRunInv, pc = "finished", ~report.late
               PROVE  Successes = db.sold + Cardinality(db.seats)
    BY DEF SuccessMatchesSold
  <2>1. run = 1
    BY DEF RunBegun, OneFile, TypeOK
  <2>2. FirstRun /\ done /\ report.statuses = collected
    BY <2>1 DEF FirstRunInv, FirstRun, ReportIsCollected
  <2>3. Got(collected) = Ids(1)
    BY <2>1, <2>2, CountedIsAll DEF FirstRun, CollectedIsTrue
  <2> QED  BY <2>2, <2>3, SuccessesAreSales DEF Successes, FirstRun
<1>2. Spec => []FirstRunInv
  BY FirstRunHolds
<1>3. Spec => []CountInv
  BY Counts
<1> QED
  BY <1>1, <1>2, <1>3, Types, PTL
=============================================================================
