----------------------- MODULE BenchmarkScriptsProofs -----------------------
(***************************************************************************)
(* Proofs about BenchmarkScripts, for any sequence of steps, files and     *)
(* workers, any prefetch window and any number of faults of each kind.     *)
(***************************************************************************)
EXTENDS BenchmarkScripts, IndirectReplaysProofs

-----------------------------------------------------------------------------
(* What the scripts do to the pipeline.                                    *)

\* The workers of a step are workers.
LEMMA StepType ==
    ASSUME NEW i \in 1..Len(Steps)
    PROVE  /\ Steps[i].workers \subseteq Workers /\ Steps[i].replacements \subseteq Workers
           /\ Steps[i].victims \subseteq Steps[i].workers
           /\ Steps[i].replacements \cap Steps[i].workers = {}
<1>1. i \in DOMAIN Steps
  BY StepsAssumption
<1> DEFINE S == [workers : SUBSET Workers, victims : SUBSET Workers,
                 replacements : SUBSET Workers]
<1>2. Steps[i] \in S
  <2>1. Steps \in Seq(S)
    BY StepsAssumption
  <2> HIDE DEF S
  <2> QED  BY <1>1, <2>1
<1> QED
  BY <1>1, <1>2, StepsAssumption

\* A script goes on without the pipeline: the client's consumer thread is gone
\* with its process, Redis is reset, or results are drained.
Aside ==
    /\ UNCHANGED <<calls, scripts, requests, orphans, workerVars, pc, run, sent, collected, done,
                   report>>
    /\ results' \subseteq results /\ handled' \subseteq handled

\* A kill or a SIGTERM that comes from the script.
Killed(w) == IsKilled(w) /\ UNCHANGED clientVars
Asked(w) == Cancel(w) /\ UNCHANGED faults

\* What a step of the scripts is to the pipeline.
LEMMA ScriptStepCases ==
    ASSUME step \in 1..Len(Steps), [ScriptNext]_allVars
    PROVE  \/ [Next]_vars
           \/ \E w \in Workers : Killed(w) \/ Asked(w)
           \/ RunClient \/ ClientReturns \/ ResetAndSpawn \/ Drain
<1>1. Pipeline => Next
  BY DEF Pipeline, Next, Client, Failure, Waiting
<1>2. \A w \in Workers : (ComeUp(w) => Next) /\ (KillStraggler(w) => Killed(w))
  BY DEF ComeUp, KillStraggler, Killed, Next
<1>3. NextStep => UNCHANGED vars
  BY DEF NextStep
<1>4. KillVictim => UNCHANGED vars \/ \E w \in Workers : Killed(w)
  BY StepType DEF KillVictim, Dies, Killed, vars, Now
<1>5. \A w \in Workers : Terminate(w) => UNCHANGED vars \/ Asked(w)
  BY DEF Terminate, Asked
<1>6. UNCHANGED allVars => UNCHANGED vars
  BY DEF allVars
<1> QED
  BY <1>1, <1>2, <1>3, <1>4, <1>5, <1>6 DEF ScriptNext, Script

\* So the pipeline is left alone or makes a step of its own, or one that its
\* invariants do not mind.
LEMMA ScriptSteps ==
    ASSUME step \in 1..Len(Steps), [ScriptNext]_allVars
    PROVE  AnyStep \/ (Aside /\ (results' = results \/ Drain))
<1>1. RunClient => NewRun
  BY DEF RunClient, NewRun
<1>2. \A w \in Workers : Killed(w) \/ Asked(w) => WorkerEnds(w)
  BY DEF Killed, IsKilled, Asked, WorkerEnds
<1>3. ClientReturns \/ ResetAndSpawn \/ Drain => Aside /\ (results' = results \/ Drain)
  BY DEF Aside, ResetAndSpawn, ClientReturns, Drain, clientVars
<1> QED
  BY <1>1, <1>2, <1>3, ScriptStepCases DEF AnyStep

\* Nobody else takes results for a file.
LEMMA OnlyDrainTakes ==
    ASSUME [ScriptNext]_allVars
    PROVE  drained' = drained \/ Drain
BY DEF ScriptNext, Script, ResetAndSpawn, RunClient, KillVictim, ClientReturns, NextStep,
       Terminate, ComeUp, KillStraggler, allVars

-----------------------------------------------------------------------------
(* Types, and the pipeline's own invariants.                               *)

\* The script's own state stays well formed.
ScriptTypes ==
    /\ phase \in {"resetting", "spawned", "running", "stopping", "over"}
    /\ step \in 1..Len(Steps)
    /\ launched \subseteq Workers /\ killed \subseteq Workers
    /\ inherited \subseteq Calls

\* The script's steps are well formed.
LEMMA ScriptTypesStand ==
    ASSUME calls \subseteq Calls, ScriptTypes, [ScriptNext]_allVars
    PROVE  ScriptTypes'
<1> USE DEF ScriptTypes
<1>1. Now.workers \subseteq Workers /\ Now.replacements \subseteq Workers
      /\ Now.victims \subseteq Workers
  BY StepType DEF Now
<1>2. CASE UNCHANGED scriptVars
  BY <1>2 DEF scriptVars
<1>3. CASE NextStep
  <2>1. Len(Steps) \in Nat
    BY StepsAssumption
  <2> QED  BY <1>3, <2>1 DEF NextStep
<1>4. CASE ResetAndSpawn \/ RunClient \/ KillVictim \/ ClientReturns
  BY <1>1, <1>4 DEF ResetAndSpawn, RunClient, KillVictim, ClientReturns
<1>5. CASE \E w \in Workers : Terminate(w) \/ ComeUp(w) \/ KillStraggler(w)
  BY <1>5 DEF Terminate, ComeUp, KillStraggler, scriptVars
<1>6. CASE Drain
  BY <1>6 DEF Drain, scriptVars
<1> QED
  BY <1>2, <1>3, <1>4, <1>5, <1>6 DEF ScriptNext, Script, allVars

\* A step of the scripts leaves the pipeline's types.
LEMMA PipelineTypesStand ==
    ASSUME step \in 1..Len(Steps), TypeOK, RunBegun, [ScriptNext]_allVars
    PROVE  TypeOK' /\ RunBegun'
<1>1. CASE [Next]_vars
  BY <1>1, TypesStand
<1>2. ASSUME NEW w \in Workers, Killed(w) PROVE TypeOK' /\ RunBegun'
  <2>1. faults' \in [FaultKinds -> Nat]
    BY <1>2 DEF Killed, IsKilled, TypeOK, FaultKinds
  <2> QED  BY <1>2, <2>1, KillType DEF Killed, IsKilled, RunBegun, clientVars
<1>3. ASSUME NEW w \in Workers, Asked(w) PROVE TypeOK' /\ RunBegun'
  <2>1. faults' \in [FaultKinds -> Nat]
    BY <1>3 DEF Asked, TypeOK
  <2> QED  BY <1>3, <2>1, CancelType DEF Asked, Cancel, RunBegun, clientVars
<1>4. CASE RunClient
  <2>1. /\ pc' = "starting" /\ run' \in 1..Len(Benchmarks) /\ sent' = 0
        /\ collected' \in [Requests -> Statuses \cup {"nil"}]
        /\ handled' = {} /\ done' = FALSE /\ consumer' = FALSE
        /\ report' \in [statuses : [Requests -> Statuses \cup {"nil"}], late : BOOLEAN]
    BY <1>4, NewClientType DEF RunClient
  <2>2. run' \in 0..Len(Benchmarks) /\ run' >= 1
    BY <2>1, BenchmarksAssumption
  <2> QED  BY <1>4, <2>1, <2>2 DEF RunClient, TypeOK, RunBegun, workerVars
<1>5. CASE ClientReturns
  BY <1>5 DEF ClientReturns, TypeOK, RunBegun, workerVars
<1>6. CASE ResetAndSpawn
  BY <1>6, EmptyDbType DEF ResetAndSpawn, TypeOK, RunBegun, workerVars, clientVars
<1>7. CASE Drain
  <2>1. faults' \in [FaultKinds -> Nat]
    BY <1>7, FaultCounts DEF Drain, TypeOK, FaultKinds
  <2> QED  BY <1>7, <2>1 DEF Drain, TypeOK, RunBegun, workerVars, clientVars
<1> QED
  BY <1>1, <1>2, <1>3, <1>4, <1>5, <1>6, <1>7, ScriptStepCases

\* What is drained is results.
LEMMA DrainedTypes ==
    ASSUME results \subseteq Results, drained \subseteq Results, [ScriptNext]_allVars
    PROVE  drained' \subseteq Results
BY OnlyDrainTakes DEF Drain

\* The scripts begin with nothing up.
LEMMA ScriptInitType ==
    ASSUME ScriptInit
    PROVE  TypeOK /\ RunBegun /\ ScriptTypes /\ drained = {}
<1>1. 1 \in 1..Len(Steps)
  BY StepsAssumption
<1>2. TypeOK /\ RunBegun
  BY InitType DEF ScriptInit
<1> QED
  BY <1>1, <1>2 DEF ScriptInit, ScriptTypes

\* What the theorems below rest on.
TypeInv == TypeOK /\ RunBegun /\ ScriptTypes /\ drained \subseteq Results

\* Types hold throughout.
LEMMA TypeInvHolds == ScriptSpec => []TypeInv
<1>1. ScriptInit => TypeInv
  BY ScriptInitType DEF TypeInv
<1>2. TypeInv /\ [ScriptNext]_allVars => TypeInv'
  BY ScriptTypesStand, PipelineTypesStand, DrainedTypes DEF TypeInv, ScriptTypes, TypeOK
<1> QED
  BY <1>1, <1>2, PTL DEF ScriptSpec

\* Steps are the ones of the script, workers that have been launched or killed
\* are workers, and whatever the script does the pipeline stays well formed.
THEOREM ScriptTypeCorrect == ScriptSpec => []ScriptTypeOK
<1>1. TypeInv => ScriptTypeOK
  BY DEF TypeInv, ScriptTypes, ScriptTypeOK
<1> QED
  BY <1>1, TypeInvHolds, PTL

MovesInv == PlacesInv /\ CopyInv

\* No script brings in a message or copies one.
LEMMA MovesInvHolds == ScriptSpec => []MovesInv
<1>1. ScriptInit => MovesInv
  BY DEF ScriptInit, Initially, MovesInv, PlacesInv, AllKnown, Orderly, CopyInv, DownIsEmpty,
         OneCopy, UnackedAt
<1>2. TypeInv /\ MovesInv /\ [ScriptNext]_allVars => MovesInv'
  <2> SUFFICES ASSUME TypeInv, MovesInv, [ScriptNext]_allVars PROVE MovesInv'
    OBVIOUS
  <2>1. CASE AnyStep
    BY <2>1, PlacesStand, CopiesStand DEF TypeInv, MovesInv
  <2>2. CASE Aside
    BY <2>2 DEF Aside, workerVars, MovesInv, PlacesInv, AllKnown, Orderly, Known, CopyInv,
                DownIsEmpty, OneCopy, UnackedAt
  <2> QED  BY <2>1, <2>2, ScriptSteps DEF TypeInv, ScriptTypes
<1> QED
  BY <1>1, <1>2, TypeInvHolds, PTL DEF ScriptSpec
-----------------------------------------------------------------------------
(* Results.                                                                *)

\* The ids of the results that have been drained.
Gone == {Op(r.of).request_id : r \in drained}

\* A request whose result the client has not got is held, or its result is on
\* its way or drained, in this step and between the steps.
LEMMA LossInvHolds == ScriptSpec => []LossInv(Gone)
<1>1. ScriptInit => LossInv(Gone)
  BY DEF ScriptInit, Initially, LossInv, PublishedIsSettled, NoneLost, Stage, NoWork
<1>2. TypeInv /\ MovesInv /\ LossInv(Gone) /\ [ScriptNext]_allVars => LossInv(Gone)'
  <2> SUFFICES ASSUME TypeInv, MovesInv, LossInv(Gone), [ScriptNext]_allVars
               PROVE  LossInv(Gone)'
    OBVIOUS
  <2>1. CASE AnyStep /\ drained' = drained
    <3>1. PICK g : g = Gone
      OBVIOUS
    <3>2. LossInv(g)
      BY <3>1
    <3>3. LossInv(g)'
      BY <2>1, <3>2, LossStands DEF TypeInv, MovesInv
    <3>4. Gone' = g
      BY <2>1, <3>1 DEF Gone
    <3> QED  BY <3>3, <3>4 DEF LossInv, PublishedIsSettled, NoneLost, Settled
  <2>2. CASE Drain \/ (Aside /\ drained' = drained /\ results' = results)
    <3>1. UNCHANGED <<requests, orphans, linked, buffer, work, run, sent, collected>>
      BY <2>2 DEF Drain, Aside, workerVars, clientVars
    <3>2. \A c : Settled(Gone, c) => Settled(Gone, c)'
      <4>1. CASE UNCHANGED <<results, drained>>
        BY <3>1, <4>1 DEF Settled, Answered, Gone
      <4>2. CASE Drain
        <5>1. PICK r \in results : results' = results \ {r} /\ drained' = drained \cup {r}
          BY <4>2 DEF Drain
        <5>2. \A q \in results : q \in results' \/ q \in drained'
          BY <5>1
        <5>3. drained \subseteq drained'
          BY <5>1
        <5> QED  BY <3>1, <5>2, <5>3 DEF Settled, Answered, Gone
      <4> QED  BY <2>2, <4>1, <4>2
    <3>3. \A m : m \in Held' <=> m \in Held
      BY <3>1 DEF Held, Unacked, InHand
    <3>4. \A w \in Workers : Stage(w)' = Stage(w)
      BY <3>1 DEF Stage
    <3> QED
      BY <3>1, <3>2, <3>3, <3>4 DEF LossInv, PublishedIsSettled, NoneLost, Ops
  <2> QED  BY <2>1, <2>2, ScriptSteps, OnlyDrainTakes DEF TypeInv, ScriptTypes
<1> QED
  BY <1>1, <1>2, TypeInvHolds, MovesInvHolds, PTL DEF ScriptSpec

\* Whatever is killed, restarted, stopped or drained, a request that the client
\* of this step has sent is held for a worker, or its result is there, on its
\* way or in the file of whoever drained the queue.
THEOREM ResultsDoNotVanish == ScriptSpec => []NothingVanishes
<1>1. LossInv(Gone) => NothingVanishes
  BY DEF LossInv, NoneLost, Settled, Gone, Taken, NothingVanishes
<1> QED
  BY <1>1, LossInvHolds, PTL

\* The client of a step counts right.
LEMMA ScriptCounts == ASSUME DistinctIds PROVE ScriptSpec => []CountInv
<1>1. ScriptInit => CountInv
  <2> SUFFICES ASSUME ScriptInit PROVE CountInv
    OBVIOUS
  <2>1. Got(collected) = {}
    BY DEF ScriptInit, Initially, Got, NothingCollected
  <2>2. IsFiniteSet(Got(collected)) /\ run = 0 /\ pc = "idle"
    BY <2>1, FS_EmptySet DEF ScriptInit, Initially
  <2> QED  BY <2>2 DEF CountInv
<1>2. TypeInv /\ CountInv /\ [ScriptNext]_allVars => CountInv'
  <2> SUFFICES ASSUME TypeInv, CountInv, [ScriptNext]_allVars PROVE CountInv'
    OBVIOUS
  <2>1. CASE AnyStep
    BY <2>1, ClientCounts DEF TypeInv
  <2>2. CASE Aside
    BY <2>2 DEF Aside, CountInv, Got, Enough, Ops
  <2> QED  BY <2>1, <2>2, ScriptSteps DEF TypeInv, ScriptTypes
<1> QED
  BY <1>1, <1>2, TypeInvHolds, PTL DEF ScriptSpec

\* If the steps run files of the same distinct ids, a client that is done has
\* every result of its step, whatever the steps before it have left.
THEOREM StepsAreComplete ==
    ASSUME DistinctIds, SameIds PROVE ScriptSpec => []DoneOnlyWhenComplete
<1>1. TypeInv /\ CountInv => DoneOnlyWhenComplete
  BY CountedIsComplete DEF TypeInv
<1> QED
  BY <1>1, TypeInvHolds, ScriptCounts, PTL

\* To the store of tickets, all the steps with their resets, workers that are
\* killed in the middle of a script and reruns are attempts and resets.
THEOREM ScriptsImplementTheStore ==
    ASSUME Store!UniqueRequestIds
    PROVE  ScriptSpec => ImplementsStore
<1>1. ScriptInit => db = EmptyDb
  BY DEF ScriptInit, Initially
<1>2. TypeInv /\ [ScriptNext]_allVars => [Touched]_db
  <2> SUFFICES ASSUME TypeInv, [ScriptNext]_allVars PROVE Touched
    OBVIOUS
  <2>1. CASE [Next]_vars
    BY <2>1, StepsTouch DEF TypeInv
  <2>2. CASE ~[Next]_vars
    BY <2>2, ScriptStepCases DEF TypeInv, ScriptTypes, Touched, Killed, IsKilled, Kill, Asked,
                                 Cancel, RunClient, ClientReturns, ResetAndSpawn, Drain
  <2> QED  BY <2>1, <2>2
<1>3. ScriptSpec => Keys
  BY <1>1, <1>2, TypeInvHolds, PTL DEF ScriptSpec, Keys
<1> QED
  BY <1>3, KeysImplementStore, PTL

-----------------------------------------------------------------------------
(* Workers.  Between the steps no worker is up and none is on its way; in  *)
(* a step only its own are, and not those that it has killed.              *)

Up(w) == proc[w] \in {"consuming", "stopping"}

BetweenSteps ==
    phase \in {"resetting", "over"} => launched = {} /\ \A w \in Workers : ~Up(w)

InStep ==
    phase # "resetting" =>
        launched \subseteq StepWorkers /\ \A w \in Workers : Up(w) => w \in StepWorkers

VictimsAreDown ==
    /\ phase = "spawned" => killed = {}
    /\ phase = "running" =>
          killed \subseteq Now.victims /\ \A w \in killed : w \notin launched /\ ~Up(w)

Staff == BetweenSteps /\ InStep /\ VictimsAreDown

\* A worker that is up was up, or has just come up.
LEMMA WhoIsUp ==
    ASSUME TypeOK, [ScriptNext]_allVars, NEW w \in Workers, Up(w)'
    PROVE  Up(w) \/ ComeUp(w)
<1> USE DEF TypeOK, workerVars, clientVars
<1>1. CASE UNCHANGED proc
  BY <1>1 DEF Up
<1>2. ASSUME NEW v \in Workers, \/ Exit(v) \/ Kill(v) \/ Cancel(v)
      PROVE  Up(w)
  BY <1>2 DEF Exit, Kill, Ends, Cancel, Up
<1>3. ASSUME NEW v \in Workers, ComeUp(v) PROVE Up(w) \/ ComeUp(w)
  BY <1>3 DEF ComeUp, Start, Up
<1>4. CASE Pipeline
  BY <1>1, <1>2, <1>4 DEF Pipeline, Deliver, Callback, Take, Execute, NoScript, Answer, Publish,
        Ack, Requeue, LateCall, Waiting, Purge, PublishRequest, AllPublished, WaitReturns, Timeout,
        Aggregate, Collect, AckResult, ConsumerReturns
<1>5. CASE KillVictim
  <2>1. PICK v : Dies(v) /\ v \in Now.victims
    BY <1>5 DEF KillVictim
  <2>2. \/ proc[v] \in {"exited", "off"} /\ proc' = proc
        \/ \E how \in {"exited", "off"} : proc' = [proc EXCEPT ![v] = how]
    BY <2>1 DEF Dies, IsKilled, Kill, Ends
  <2> QED  BY <2>2 DEF Up
<1>6. CASE \E v \in Workers : Terminate(v) \/ KillStraggler(v)
  BY <1>1, <1>2, <1>6 DEF Terminate, KillStraggler, IsKilled, vars
<1>7. CASE ResetAndSpawn \/ RunClient \/ ClientReturns \/ NextStep \/ Drain
  BY <1>1, <1>7 DEF ResetAndSpawn, RunClient, ClientReturns, NextStep, Drain, vars
<1> QED
  BY <1>1, <1>3, <1>4, <1>5, <1>6, <1>7 DEF ScriptNext, Script, allVars, vars

\* The staff of a step changes only as the script makes it change.
LEMMA StaffStands ==
    ASSUME TypeOK, ScriptTypes, Staff, [ScriptNext]_allVars
    PROVE  Staff'
<1> USE DEF ScriptTypes
<1>1. /\ Now.workers \subseteq Workers /\ Now.replacements \subseteq Workers
      /\ Now.victims \subseteq Now.workers /\ Now.replacements \cap Now.workers = {}
  BY StepType DEF Now
<1>2. CASE UNCHANGED <<phase, step, killed>> /\ launched' \subseteq launched
           /\ \A w \in Workers : Up(w)' => Up(w)
  BY <1>2 DEF Staff, BetweenSteps, InStep, VictimsAreDown, StepWorkers, Now
<1>3. ASSUME NEW w \in Workers, ComeUp(w) PROVE Staff'
  <2>1. /\ w \in launched /\ launched' = launched \ {w} /\ UNCHANGED <<phase, step, killed>>
        /\ \A v \in Workers : Up(v)' => Up(v) \/ v = w
    BY <1>3 DEF ComeUp, Start, Up, TypeOK
  <2> QED  BY <2>1 DEF Staff, BetweenSteps, InStep, VictimsAreDown, StepWorkers, Now
<1>4. \A w \in Workers : (\A v \in Workers : ~ComeUp(v)) /\ Up(w)' => Up(w)
  BY WhoIsUp
<1>5. ASSUME ResetAndSpawn, \A w \in Workers : Up(w)' => Up(w) PROVE Staff'
  BY <1>5 DEF ResetAndSpawn, Staff, BetweenSteps, InStep, VictimsAreDown, StepWorkers, Now
<1>6. ASSUME RunClient \/ ClientReturns, \A w \in Workers : Up(w)' => Up(w) PROVE Staff'
  BY <1>6 DEF RunClient, ClientReturns, Staff, BetweenSteps, InStep, VictimsAreDown, StepWorkers,
              Now
<1>7. ASSUME KillVictim, \A w \in Workers : Up(w)' => Up(w) PROVE Staff'
  <2>1. phase = "running" /\ UNCHANGED <<phase, step>>
    BY <1>7 DEF KillVictim
  <2>2. PICK w \in Now.victims \ killed :
           /\ Dies(w) /\ killed' = killed \cup {w}
           /\ launched' = (launched \ {w}) \cup Now.replacements
    BY <1>7 DEF KillVictim
  <2>3. w \in Workers /\ w \in Now.workers
    BY <1>1
  <2>4. ~Up(w)'
    BY <2>2, <2>3 DEF Dies, IsKilled, Kill, Ends, Up, TypeOK, workerVars
  <2>5. killed' \subseteq Now.victims /\ \A v \in killed' : v \notin launched' /\ ~Up(v)'
    BY <1>1, <1>7, <2>1, <2>2, <2>3, <2>4 DEF Staff, VictimsAreDown
  <2> QED
    BY <1>7, <2>1, <2>2, <2>5 DEF Staff, BetweenSteps, InStep, VictimsAreDown, StepWorkers, Now
<1>8. ASSUME NextStep, \A w \in Workers : Up(w)' => Up(w) PROVE Staff'
  <2>1. launched' = {} /\ \A w \in Workers : ~Up(w)
    BY <1>8 DEF NextStep, AllTerminated, Up
  <2>2. phase' \in {"over", "resetting"} /\ (phase' = "over" => step' = step)
    BY <1>8 DEF NextStep
  <2> QED  BY <1>8, <2>1, <2>2 DEF Staff, BetweenSteps, InStep, VictimsAreDown
<1>9. CASE \E w \in Workers : ComeUp(w)
  BY <1>3, <1>9
<1>10. CASE ~\E w \in Workers : ComeUp(w)
  <2>1. \A w \in Workers : Up(w)' => Up(w)
    BY <1>4, <1>10
  <2>2. CASE ResetAndSpawn \/ RunClient \/ ClientReturns \/ KillVictim \/ NextStep
    BY <1>5, <1>6, <1>7, <1>8, <2>1, <2>2
  <2>3. CASE ~(ResetAndSpawn \/ RunClient \/ ClientReturns \/ KillVictim \/ NextStep)
    <3>1. UNCHANGED <<phase, step, killed>> /\ launched' \subseteq launched
      BY <1>10, <2>3 DEF ScriptNext, Script, Terminate, KillStraggler, Drain, scriptVars, allVars
    <3> QED  BY <1>2, <2>1, <3>1
  <2> QED  BY <2>2, <2>3
<1> QED
  BY <1>9, <1>10

\* Only a step's own workers are up in it.
LEMMA StaffHolds == ScriptSpec => []Staff
<1>1. ScriptInit => Staff
  BY DEF ScriptInit, Initially, Staff, BetweenSteps, InStep, VictimsAreDown, Up
<1>2. TypeInv /\ Staff /\ [ScriptNext]_allVars => Staff'
  BY StaffStands DEF TypeInv
<1> QED
  BY <1>1, <1>2, TypeInvHolds, PTL DEF ScriptSpec

-----------------------------------------------------------------------------
(* The load of a worker, which its node's count tells if it has one to     *)
(* itself.  A worker that is down runs nothing but the calls it had under  *)
(* way: they are credit to it that is used up.                             *)

\* No two workers share a name: each is given one of its own
\* (scaling_sweep.py:34-42, fault_tolerance_test.py:86-91).
DistinctNames == \A v, w \in Workers : v.node_id = w.node_id => v = w

Credit(w) == Load(w) + CallsOf(w, calls)

\* Between resets the keys and the calls under way stay as they are, but for a
\* script, a kill and a late call.
LEMMA KeysChange ==
    ASSUME TypeOK, ScriptTypes, DownIsEmpty, [ScriptNext]_allVars, ~ResetAndSpawn
    PROVE  \/ UNCHANGED <<db, calls>>
           \/ \E w \in Workers, m \in Messages :
                 Up(w) /\ db' = Buy(db, w, Op(m), 0, 0) /\ calls' = calls
           \/ \E w \in Workers : Killed(w)
           \/ LateCall
<1>1. ASSUME NEW w \in Workers, Execute(w)
      PROVE  /\ Up(w) /\ work[w].of \in Messages /\ calls' = calls
             /\ db' = Buy(db, w, Op(work[w].of), 0, 0)
  <2>1. Stage(w) = "taken" /\ db' = BuyOf(w) /\ work[w] # NoWork /\ calls' = calls
    BY <1>1, WorkIs DEF Execute
  <2> QED  BY <2>1, TakenType DEF DownIsEmpty, Up, TypeOK, BuyOf
<1>2. Pipeline => UNCHANGED <<db, calls>> \/ LateCall \/ \E w \in Workers : Execute(w)
  BY DEF Pipeline, Waiting, Deliver, Callback, Take, NoScript, Publish, Ack, Exit, Requeue,
         Purge, PublishRequest, AllPublished, WaitReturns, Timeout, Aggregate, Collect, AckResult,
         ConsumerReturns
<1>3. KillVictim => UNCHANGED <<db, calls>> \/ \E w \in Now.victims : Killed(w)
  BY DEF KillVictim, Dies, Killed
<1>4. \A w \in Workers : KillStraggler(w) => Killed(w)
  BY DEF KillStraggler, Killed
<1>5. RunClient \/ ClientReturns \/ NextStep \/ Drain => UNCHANGED <<db, calls>>
  BY DEF RunClient, ClientReturns, NextStep, Drain, vars
<1>6. \A w \in Workers : Terminate(w) \/ ComeUp(w) => UNCHANGED <<db, calls>>
  BY DEF Terminate, Cancel, ComeUp, Start, vars
<1>7. Now.victims \subseteq Workers
  BY StepType DEF ScriptTypes, Now
<1> QED
  BY <1>1, <1>2, <1>3, <1>4, <1>5, <1>6, <1>7 DEF ScriptNext, Script, allVars, vars

\* A script adds one to the count of the worker it was called by.
LEMMA ScriptLoad ==
    ASSUME DistinctNames, TypeOK, NEW w \in Workers, NEW m \in Messages,
           db' = Buy(db, w, Op(m), 0, 0), NEW v \in Workers
    PROVE  Load(v)' = Load(v) + (IF v = w THEN 1 ELSE 0)
<1>1. /\ db \in Db /\ w \in Stores /\ w.arch = "indirect" /\ Op(m) \in Purchases
      /\ v.node_id \in Nodes /\ w.node_id \in Nodes /\ (v # w => v.node_id # w.node_id)
  BY WorkerType, MessageType DEF TypeOK, DistinctNames
<1>2. ASSUME NEW p \in Purchases, db' = Buy(db, w, p, 0, 0)
      PROVE  db'.nodes["indirect"][v.node_id] =
                db.nodes["indirect"][v.node_id] + (IF v = w THEN 1 ELSE 0)
  <2>1. Buy(db, w, p, 0, 0).nodes[w.arch][w.node_id] = db.nodes[w.arch][w.node_id] + 1
    BY <1>1, BuyLoad
  <2>2. \A n \in Nodes : n # w.node_id =>
           Buy(db, w, p, 0, 0).nodes[w.arch][n] = db.nodes[w.arch][n]
    BY <1>1, BuyLoad
  <2>3. db.nodes["indirect"][v.node_id] \in Nat
    BY <1>1 DEF Db, ARCHITECTURES
  <2> QED  BY <1>1, <1>2, <2>1, <2>2, <2>3
<1> QED
  BY <1>1, <1>2 DEF Load

\* Calls are counted with numbers.
LEMMA CallsCount ==
    ASSUME NEW some, IsFiniteSet(some), NEW v
    PROVE  CallsOf(v, some) \in Nat
<1>1. {c \in some : c.by = v} \subseteq some
  OBVIOUS
<1> QED
  BY <1>1, FS_Subset, FS_CardinalityType DEF CallsOf

\* A worker that is down gains no credit, and one that is killed at most one.
LEMMA CreditStands ==
    ASSUME DistinctNames, TypeOK, TypeOK', ScriptTypes, DownIsEmpty, IsFiniteSet(calls),
           IsFiniteSet(calls'), [ScriptNext]_allVars, ~ResetAndSpawn, NEW v \in Workers
    PROVE  /\ Credit(v) \in Nat /\ Credit(v)' \in Nat
           /\ ~Up(v) => Credit(v)' <= Credit(v)
           /\ Killed(v) => Credit(v)' <= Credit(v) + 1
<1> DEFINE mine == {c \in calls : c.by = v}
           yours == {c \in calls' : c.by = v}
<1>1. CallsOf(v, calls) = Cardinality(mine) /\ CallsOf(v, calls)' = Cardinality(yours)
  BY DEF CallsOf
<1>2. IsFiniteSet(mine) /\ Cardinality(mine) \in Nat
  <2>1. mine \subseteq calls
    OBVIOUS
  <2> QED  BY <2>1, FS_Subset, FS_CardinalityType
<1>3. Load(v) \in Nat /\ Load(v)' \in Nat
  <2>1. /\ db \in Db /\ db' \in Db /\ "indirect" \in ARCHITECTURES /\ v.node_id \in Nodes
    BY WorkerType DEF TypeOK, ARCHITECTURES
  <2> QED  BY <2>1 DEF Load, Db
<1>4. /\ Credit(v) = Load(v) + Cardinality(mine) /\ Credit(v)' = Load(v)' + Cardinality(yours)
      /\ Credit(v) \in Nat /\ Credit(v)' \in Nat
  <2>1. Cardinality(yours) \in Nat
    <3>1. yours \subseteq calls'
      OBVIOUS
    <3> QED  BY <3>1, FS_Subset, FS_CardinalityType
  <2>2. Credit(v) = Load(v) + Cardinality(mine) /\ Credit(v)' = Load(v)' + Cardinality(yours)
    BY <1>1 DEF Credit
  <2> HIDE DEF mine, yours
  <2> QED  BY <1>2, <1>3, <2>1, <2>2
<1>5. ASSUME NEW d \in Int, Grows(mine, yours, d), NEW e \in Int, Load(v)' = Load(v) + e
      PROVE  Credit(v)' <= Credit(v) + (d + e)
  <2>1. IsFiniteSet(yours) /\ Cardinality(yours) <= Cardinality(mine) + d
    BY <1>2, <1>5 DEF Grows
  <2>2. Cardinality(yours) \in Nat
    BY <2>1, FS_CardinalityType
  <2> HIDE DEF mine, yours
  <2> QED  BY <1>2, <1>3, <1>4, <1>5, <2>1, <2>2
<1>6. ASSUME UNCHANGED <<db, calls>>
      PROVE  Credit(v)' = Credit(v)
  BY <1>6 DEF Credit, CallsOf, Load
<1>7. ASSUME NEW w \in Workers, NEW m \in Messages,
             Up(w), db' = Buy(db, w, Op(m), 0, 0), calls' = calls
      PROVE  (~Up(v) => Credit(v)' = Credit(v)) /\ ~Killed(v)
  <2>1. ~Killed(v)
    <3>1. Load(w)' = Load(w) + 1 /\ Load(w) \in Nat
      <4>1. Load(w) \in Nat
        BY WorkerType DEF Load, TypeOK, Db, ARCHITECTURES
      <4> QED  BY <1>7, <4>1, ScriptLoad
    <3>2. Killed(v) => Load(w)' = Load(w)
      BY DEF Killed, IsKilled, Kill, Load
    <3> QED  BY <3>1, <3>2
  <2>2. ASSUME ~Up(v) PROVE Credit(v)' = Credit(v)
    <3>1. Load(v)' = Load(v) + 0
      BY <1>7, <2>2, ScriptLoad
    <3> QED  BY <1>3, <1>7, <3>1 DEF Credit, CallsOf
  <2> QED  BY <2>1, <2>2
<1>8. ASSUME NEW w \in Workers, Killed(w)
      PROVE  (~Up(v) => Credit(v)' <= Credit(v)) /\ Credit(v)' <= Credit(v) + 1
  <2>1. /\ db' = db /\ Up(w) /\ calls' \subseteq calls \cup {Call(w)} /\ Call(w).by = w
    BY <1>8 DEF Killed, IsKilled, Kill, Up, Call
  <2>2. Load(v)' = Load(v) + 0
    BY <1>3, <2>1 DEF Load
  <2>3. ASSUME ~Up(v) PROVE Credit(v)' <= Credit(v)
    <3>1. yours \subseteq mine
      BY <2>1, <2>3
    <3>2. Grows(mine, yours, 0)
      BY <3>1, Counting
    <3>3. Credit(v)' <= Credit(v) + (0 + 0)
      BY <1>5, <2>2, <3>2
    <3> QED  BY <1>4, <3>3
  <2>4. Credit(v)' <= Credit(v) + 1
    <3>1. yours \subseteq mine \cup {Call(w)}
      BY <2>1
    <3>2. Grows(mine, yours, 1)
      BY <3>1, Counting
    <3>3. Credit(v)' <= Credit(v) + (1 + 0)
      BY <1>5, <2>2, <3>2
    <3> QED  BY <3>3
  <2> QED  BY <2>3, <2>4
<1>9. ASSUME LateCall
      PROVE  Credit(v)' <= Credit(v)
  <2>1. PICK c \in calls : /\ calls' = calls \ {c} /\ c.by \in Workers /\ c.of \in Messages
                           /\ db' = db \/ db' = Buy(db, c.by, Op(c.of), 0, 0)
    BY <1>9, LateCallTouches
  <2>2. PICK e \in {0, 1} : Load(v)' = Load(v) + e /\ (e = 1 => c.by = v)
    <3>1. CASE db' = db
      BY <1>3, <3>1 DEF Load
    <3>2. CASE db' = Buy(db, c.by, Op(c.of), 0, 0)
      BY <2>1, <3>2, ScriptLoad
    <3> QED  BY <2>1, <3>1, <3>2
  <2>3. Grows(mine, yours, 0 - e)
    <3>1. CASE c.by = v
      <4>1. c \in mine /\ yours \subseteq mine \ {c}
        BY <2>1, <3>1
      <4>2. Grows(mine, yours, -1) /\ Grows(mine, yours, 0)
        BY <4>1, Counting
      <4> HIDE DEF mine, yours
      <4> QED  BY <2>2, <4>2
    <3>2. CASE c.by # v
      <4>1. yours \subseteq mine
        BY <2>1, <3>2
      <4>2. Grows(mine, yours, 0)
        BY <4>1, Counting
      <4> HIDE DEF mine, yours
      <4> QED  BY <2>2, <3>2, <4>2
    <3> QED  BY <3>1, <3>2
  <2>4. Credit(v)' <= Credit(v) + ((0 - e) + e)
    BY <1>5, <2>2, <2>3
  <2> QED  BY <1>4, <2>2, <2>4
<1>10. LateCall => ~Killed(v)
  <2>1. LateCall => proc' = proc
    BY DEF LateCall, workerVars
  <2>2. Killed(v) => proc'[v] # proc[v]
    BY DEF Killed, IsKilled, Kill, Ends, TypeOK
  <2> QED  BY <2>1, <2>2
<1> HIDE DEF mine, yours
<1>11. CASE UNCHANGED <<db, calls>>
  BY <1>4, <1>6, <1>11
<1>12. CASE \E w \in Workers, m \in Messages :
               Up(w) /\ db' = Buy(db, w, Op(m), 0, 0) /\ calls' = calls
  BY <1>4, <1>7, <1>12
<1>13. CASE \E w \in Workers : Killed(w)
  BY <1>4, <1>8, <1>13
<1>14. CASE LateCall
  BY <1>4, <1>9, <1>10, <1>14
<1> QED
  BY <1>11, <1>12, <1>13, <1>14, KeysChange

\* Only finitely many calls are under way.
FiniteCalls == IsFiniteSet(calls) /\ IsFiniteSet(inherited)

\* And the reset finds no more.
LEMMA CallsAreFinite == ScriptSpec => []FiniteCalls
<1>1. ScriptInit => FiniteCalls
  BY FS_EmptySet DEF ScriptInit, Initially, FiniteCalls
<1>2. TypeInv /\ MovesInv /\ FiniteCalls /\ [ScriptNext]_allVars => FiniteCalls'
  <2> SUFFICES ASSUME TypeInv, MovesInv, FiniteCalls, [ScriptNext]_allVars
               PROVE  FiniteCalls'
    OBVIOUS
  <2>1. \E x : calls' \subseteq calls \cup {x}
    <3>1. \A w \in Workers : Killed(w) => calls' \subseteq calls \cup {Call(w)}
      BY DEF Killed, IsKilled, Kill
    <3>2. LateCall => calls' \subseteq calls
      BY DEF LateCall
    <3>3. ResetAndSpawn => calls' = calls
      BY DEF ResetAndSpawn
    <3> QED  BY <3>1, <3>2, <3>3, KeysChange DEF TypeInv, MovesInv, CopyInv
  <2>2. PICK x : calls' \subseteq calls \cup {x}
    BY <2>1
  <2>3. Grows(calls, calls', 1)
    BY <2>2, Counting
  <2>4. inherited' = inherited \/ inherited' = calls
    BY DEF ScriptNext, Script, ResetAndSpawn, RunClient, KillVictim, ClientReturns, NextStep,
           Terminate, ComeUp, KillStraggler, Drain, scriptVars, allVars
  <2> QED  BY <2>3, <2>4 DEF Grows, FiniteCalls
<1> QED
  BY <1>1, <1>2, TypeInvHolds, MovesInvHolds, PTL DEF ScriptSpec

\* In a step a worker of another has no more credit than when it began.
CreditInv ==
    phase # "resetting" =>
        \A w \in Workers \ StepWorkers : Credit(w) <= CallsOf(w, inherited)

\* What a step measures is its own workers' doing, and that of the calls which
\* the killed workers of earlier steps had under way.
THEOREM StepsMeasureThemselves ==
    ASSUME DistinctNames PROVE ScriptSpec => []StepsDoNotMix
<1>1. ScriptInit => CreditInv
  BY DEF ScriptInit, CreditInv
<1>2. /\ TypeInv /\ TypeInv' /\ MovesInv /\ Staff /\ FiniteCalls /\ FiniteCalls' /\ CreditInv
      /\ [ScriptNext]_allVars
      => CreditInv'
  <2> SUFFICES ASSUME TypeInv, TypeInv', MovesInv, Staff, FiniteCalls, FiniteCalls', CreditInv,
                      [ScriptNext]_allVars, phase' # "resetting", NEW v \in Workers \ StepWorkers'
               PROVE  Credit(v)' <= CallsOf(v, inherited)'
    BY DEF CreditInv
  <2>1. TypeOK /\ TypeOK' /\ ScriptTypes /\ DownIsEmpty
    BY DEF TypeInv, MovesInv, CopyInv
  <2>2. CASE ResetAndSpawn
    <3>1. db' = EmptyDb /\ calls' = calls /\ inherited' = calls
      BY <2>2 DEF ResetAndSpawn
    <3>2. Load(v)' = 0
      BY <3>1, WorkerType DEF Load, EmptyDb, NoLoad, ARCHITECTURES
    <3>3. CallsOf(v, calls) \in Nat
      BY CallsCount DEF FiniteCalls
    <3>4. CallsOf(v, calls)' = CallsOf(v, calls) /\ CallsOf(v, inherited)' = CallsOf(v, calls)
      BY <3>1 DEF CallsOf
    <3> QED  BY <3>2, <3>3, <3>4 DEF Credit
  <2>3. CASE ~ResetAndSpawn
    <3>1. phase # "resetting" /\ step' = step /\ inherited' = inherited
      BY <2>3 DEF ScriptNext, Script, RunClient, KillVictim, ClientReturns, NextStep, Terminate,
                  ComeUp, KillStraggler, Drain, scriptVars, allVars
    <3>2. v \in Workers \ StepWorkers /\ CallsOf(v, inherited)' = CallsOf(v, inherited)
      BY <3>1 DEF StepWorkers, Now, CallsOf
    <3>3. Credit(v) <= CallsOf(v, inherited) /\ ~Up(v)
      BY <3>1, <3>2 DEF CreditInv, Staff, InStep
    <3>4. Credit(v)' <= Credit(v) /\ Credit(v) \in Nat /\ Credit(v)' \in Nat
      BY <2>1, <2>3, <3>2, <3>3, CreditStands DEF FiniteCalls
    <3>5. CallsOf(v, inherited) \in Nat
      BY CallsCount DEF FiniteCalls
    <3> QED  BY <3>2, <3>3, <3>4, <3>5
  <2> QED  BY <2>2, <2>3
<1>3. TypeInv /\ FiniteCalls /\ CreditInv => StepsDoNotMix
  <2> SUFFICES ASSUME TypeInv, FiniteCalls, CreditInv, phase # "resetting",
                      NEW v \in Workers \ StepWorkers
               PROVE  Load(v) <= CallsOf(v, inherited)
    BY DEF StepsDoNotMix
  <2>1. Load(v) \in Nat
    <3>1. db \in Db /\ "indirect" \in ARCHITECTURES /\ v.node_id \in Nodes
      BY WorkerType DEF TypeInv, TypeOK, ARCHITECTURES
    <3> QED  BY <3>1 DEF Load, Db
  <2>2. CallsOf(v, calls) \in Nat /\ CallsOf(v, inherited) \in Nat
    BY CallsCount DEF FiniteCalls
  <2>3. Load(v) + CallsOf(v, calls) <= CallsOf(v, inherited)
    BY DEF CreditInv, Credit
  <2> QED  BY <2>1, <2>2, <2>3
<1> QED
  BY <1>1, <1>2, <1>3, CallsAreFinite, TypeInvHolds, MovesInvHolds, StaffHolds, PTL DEF ScriptSpec

\* A worker that the step has killed runs no script any more, but for the call
\* that it had under way: its load and its calls together do not grow.
THEOREM KilledWorkersRest ==
    ASSUME DistinctNames PROVE ScriptSpec => LoadMovesOn
<1>1. /\ TypeInv /\ TypeInv' /\ MovesInv /\ Staff /\ FiniteCalls /\ FiniteCalls'
      /\ [ScriptNext]_allVars
      => [phase = "running" =>
            \A w \in killed' :
                Load(w)' + CallsOf(w, calls')
                    <= Load(w) + CallsOf(w, calls) + (IF w \in killed THEN 0 ELSE 1)]_allVars
  <2> SUFFICES ASSUME TypeInv, TypeInv', MovesInv, Staff, FiniteCalls, FiniteCalls',
                      [ScriptNext]_allVars, phase = "running", NEW v \in killed'
               PROVE  Load(v)' + CallsOf(v, calls')
                        <= Load(v) + CallsOf(v, calls) + (IF v \in killed THEN 0 ELSE 1)
    OBVIOUS
  <2>1. TypeOK /\ TypeOK' /\ ScriptTypes /\ DownIsEmpty /\ v \in Workers /\ ~ResetAndSpawn
    BY DEF TypeInv, MovesInv, CopyInv, ScriptTypes, ResetAndSpawn
  <2>2. /\ Credit(v) \in Nat /\ Credit(v)' \in Nat
        /\ ~Up(v) => Credit(v)' <= Credit(v)
        /\ Killed(v) => Credit(v)' <= Credit(v) + 1
    BY <2>1, CreditStands DEF FiniteCalls
  <2>3. Credit(v) = Load(v) + CallsOf(v, calls) /\ Credit(v)' = Load(v)' + CallsOf(v, calls')
    BY DEF Credit, CallsOf
  <2>4. CASE v \in killed
    <3>1. ~Up(v)
      BY <2>4 DEF Staff, VictimsAreDown
    <3>2. Credit(v)' <= Credit(v) + (IF v \in killed THEN 0 ELSE 1)
      BY <2>2, <2>4, <3>1
    <3> QED  BY <2>3, <3>2
  <2>5. CASE v \notin killed
    <3>1. KillVictim
      BY <2>1, <2>5 DEF ScriptNext, Script, RunClient, ClientReturns, NextStep, Terminate,
                        ComeUp, KillStraggler, Drain, scriptVars, allVars
    <3>2. Dies(v) /\ UNCHANGED clientVars
      BY <2>5, <3>1 DEF KillVictim
    <3>3. Killed(v) \/ ~Up(v)
      BY <3>2 DEF Dies, Killed, Up
    <3>4. Credit(v)' <= Credit(v) + (IF v \in killed THEN 0 ELSE 1)
      BY <2>2, <2>5, <3>3
    <3> QED  BY <2>3, <3>4
  <2> QED  BY <2>4, <2>5
<1> QED
  BY <1>1, CallsAreFinite, TypeInvHolds, MovesInvHolds, StaffHolds, PTL DEF ScriptSpec, LoadMovesOn

-----------------------------------------------------------------------------
(* Control.  The client runs while the script waits for it, on the file of *)
(* the step, and its consumer thread only then.                            *)

Control ==
    /\ phase \in {"resetting", "spawned"} => run = step - 1 /\ pc \in {"idle", "finished"}
    /\ phase = "running" => run = step /\ pc # "idle"
    /\ phase \in {"stopping", "over"} => run = step /\ pc = "finished"
    /\ phase # "running" => ~consumer /\ handled = {}
    /\ pc = "starting" => ~consumer /\ collected = NothingCollected

ClientStep ==
    \/ Purge \/ PublishRequest \/ AllPublished \/ WaitReturns \/ Timeout
    \/ Collect \/ AckResult \/ ConsumerReturns

\* Only the client's own steps and its script's change its state.
LEMMA ClientAlone ==
    ASSUME [ScriptNext]_allVars
    PROVE  \/ ClientStep /\ UNCHANGED scriptVars
           \/ RunClient
           \/ ClientReturns
           \/ UNCHANGED clientVars
BY DEF ScriptNext, Script, Pipeline, Waiting, ClientStep, Deliver, Callback, Take, Execute,
       NoScript, Answer, Publish, Ack, Exit, Requeue, LateCall, ResetAndSpawn, KillVictim, NextStep,
       Terminate, Cancel, ComeUp, Start, KillStraggler, Drain, vars, allVars

\* The client and its script keep step.
LEMMA ControlStands ==
    ASSUME TypeOK, ScriptTypes, Control, [ScriptNext]_allVars
    PROVE  Control'
<1> USE DEF TypeOK, ScriptTypes
<1>1. run \in Nat /\ step \in Nat
  BY BenchmarksAssumption, StepsAssumption
<1>2. CASE ClientStep /\ UNCHANGED scriptVars
  BY <1>2 DEF ClientStep, Purge, PublishRequest, AllPublished, WaitReturns, Timeout, Aggregate,
              Collect, AckResult, ConsumerReturns, Control, scriptVars
<1>3. CASE RunClient
  BY <1>1, <1>3 DEF RunClient, NewClient, Control
<1>4. CASE ClientReturns
  BY <1>4 DEF ClientReturns, Control
<1>5. CASE UNCHANGED clientVars /\ ~RunClient /\ ~ClientReturns
  <2>1. UNCHANGED <<pc, run, consumer, collected, handled>>
    BY <1>5 DEF clientVars
  <2>2. CASE NextStep
    BY <1>1, <2>1, <2>2 DEF NextStep, Control
  <2>3. CASE ResetAndSpawn
    BY <2>1, <2>3 DEF ResetAndSpawn, Control
  <2>4. CASE ~NextStep /\ ~ResetAndSpawn
    <3>1. UNCHANGED <<phase, step>>
      BY <1>5, <2>4 DEF ScriptNext, Script, KillVictim, Terminate, ComeUp, KillStraggler, Drain,
                        scriptVars, allVars
    <3> QED  BY <2>1, <3>1 DEF Control
  <2> QED  BY <2>2, <2>3, <2>4
<1> QED
  BY <1>2, <1>3, <1>4, <1>5, ClientAlone

\* In every step of the scripts the client runs on that step's file.
LEMMA ControlHolds == ScriptSpec => []Control
<1>1. ScriptInit => Control
  BY DEF ScriptInit, Initially, Control
<1>2. TypeInv /\ Control /\ [ScriptNext]_allVars => Control'
  BY ControlStands DEF TypeInv
<1> QED
  BY <1>1, <1>2, TypeInvHolds, PTL DEF ScriptSpec

-----------------------------------------------------------------------------
(* Answers.  The outcomes on record stand from a step's reset to the next, *)
(* and at the reset no worker is up to have an answer of before.           *)

StepWork ==
    phase # "resetting" =>
        \A w \in Workers :
            HasAnswer(w) /\ work[w].status # "ERROR" =>
                work[w].status = Outcome(db, Op(work[w].of))

AnswersInv == StepWork /\ StepAnswersMatchLedger

\* One id is one request of one ticket model.
OneModel == \A p, q \in Purchases : p.request_id = q.request_id => p.type = q.type

\* The client of this step has begun to listen.
Listening == phase \in {"running", "stopping"} /\ pc # "starting"

\* Outcomes on record are kept, new answers are the ledger's and new results
\* are some worker's answer: then answers go on matching the ledger.
LEMMA KeepsAnswers ==
    ASSUME TypeOK, AnswersInv, OutcomesKept, collected' = collected,
           phase' # "resetting" => phase # "resetting", Listening' => Listening,
           \A w \in Workers :
              Stage(w)' \in {"answered", "published"} =>
                 \/ /\ HasAnswer(w)
                    /\ work'[w].of = work[w].of /\ work'[w].status = work[w].status
                 \/ /\ work'[w].of \in Messages
                    /\ work'[w].status \in {"ERROR", Outcome(db', Op(work'[w].of))},
           \A r \in results' :
              \/ r \in results
              \/ \E w \in Workers :
                    Stage(w) = "answered" /\ r.of = work[w].of /\ r.status = work[w].status
    PROVE  AnswersInv'
<1>1. \A x \in Statuses : x # "nil"
  BY DEF Statuses, Outcomes
<1>2. ASSUME phase # "resetting", NEW w \in Workers, HasAnswer(w), work[w].status # "ERROR"
      PROVE  work[w].status = Outcome(db', Op(work[w].of))
  <2>1. work[w].of \in Messages /\ work[w].status \in Statuses
    BY <1>2, WorkIs DEF HasAnswer
  <2>2. work[w].status = Outcome(db, Op(work[w].of)) /\ Op(work[w].of) \in Purchases
    BY <1>2, <2>1, MessageType DEF AnswersInv, StepWork
  <2> QED  BY <1>1, <2>1, <2>2 DEF OutcomesKept
<1>3. ASSUME Listening, NEW r \in results, r.status # "ERROR"
      PROVE  r.status = Outcome(db', Op(r.of))
  <2>1. r.of \in Messages /\ r.status \in Statuses
    BY DEF TypeOK, Results
  <2>2. r.status = Outcome(db, Op(r.of)) /\ Op(r.of) \in Purchases
    BY <1>3, <2>1, MessageType DEF AnswersInv, StepAnswersMatchLedger, Listening
  <2> QED  BY <1>1, <2>1, <2>2 DEF OutcomesKept
<1>4. StepWork'
  <2> SUFFICES ASSUME phase' # "resetting", NEW w \in Workers, HasAnswer(w)',
                      work'[w].status # "ERROR"
               PROVE  work'[w].status = Outcome(db', Op(work'[w].of))
    BY DEF StepWork
  <2> QED  BY <1>2 DEF HasAnswer
<1>5. ASSUME Listening', NEW r \in results', r.status # "ERROR"
      PROVE  r.status = Outcome(db', Op(r.of))
  <2>1. CASE r \in results
    BY <1>3, <1>5, <2>1
  <2>2. CASE \E w \in Workers :
                Stage(w) = "answered" /\ r.of = work[w].of /\ r.status = work[w].status
    BY <1>2, <1>5, <2>2 DEF HasAnswer, Listening
  <2> QED  BY <2>1, <2>2
<1>6. ASSUME Listening', NEW p \in Purchases
      PROVE  collected'[p.request_id] \in {"nil", "ERROR", Outcome(db', p)}
  <2>1. collected[p.request_id] \in {"nil", "ERROR", Outcome(db, p)}
    BY <1>6 DEF AnswersInv, StepAnswersMatchLedger, Listening
  <2> QED  BY <2>1 DEF OutcomesKept
<1> QED
  BY <1>4, <1>5, <1>6 DEF AnswersInv, StepAnswersMatchLedger, Listening

\* Answers stay true: a new answer is what the script returned, a new result is
\* an answer, and a reset finds nobody with one.
LEMMA AnswersInvStands ==
    ASSUME OneModel, TypeOK, ScriptTypes, DownIsEmpty, Staff, Control, AnswersInv,
           [ScriptNext]_allVars
    PROVE  AnswersInv'
<1> USE DEF TypeOK, workerVars, clientVars
<1>1. NoWork.stage = "none"
  BY DEF NoWork
<1>2. ASSUME db' = db, collected' = collected, results' \subseteq results,
             phase' # "resetting" => phase # "resetting", Listening' => Listening,
             \A v \in Workers : \/ work'[v] = work[v] \/ work'[v].stage \in {"none", "taken"}
                                \/ work'[v].of \in Messages /\ work'[v].status = "ERROR"
      PROVE  AnswersInv'
  <2>1. OutcomesKept
    BY <1>2 DEF OutcomesKept, Outcome
  <2> QED  BY <1>2, <2>1, KeepsAnswers DEF HasAnswer, Stage
<1>3. CASE \E w \in Workers : Execute(w) /\ UNCHANGED scriptVars
  <2>1. PICK w \in Workers : Execute(w) /\ UNCHANGED scriptVars
    BY <1>3
  <2>2. OutcomesKept /\ work[w].of \in Messages
    BY <2>1, ScriptKeepsOutcomes, TakenType DEF Execute
  <2>3. /\ work' = [work EXCEPT ![w] = [stage |-> "answered", of |-> work[w].of,
                                       status |-> Outcome(db', Op(work[w].of))]]
        /\ UNCHANGED <<results, collected, pc>>
    BY <2>1 DEF Execute, Answer
  <2>4. \A v \in Workers :
           \/ work'[v] = work[v]
           \/ work'[v].of \in Messages /\ work'[v].status = Outcome(db', Op(work'[v].of))
    BY <2>2, <2>3
  <2> QED  BY <2>1, <2>2, <2>3, <2>4, KeepsAnswers DEF HasAnswer, Stage, Listening, scriptVars
<1>4. CASE \E w \in Workers : Publish(w) /\ UNCHANGED scriptVars
  <2>1. PICK w \in Workers : Publish(w) /\ UNCHANGED scriptVars
    BY <1>4
  <2>2. OutcomesKept /\ UNCHANGED <<collected, pc>>
    BY <2>1 DEF Publish, OutcomesKept, Outcome
  <2>3. /\ work' = [work EXCEPT ![w].stage = "published"] /\ Stage(w) = "answered"
        /\ results' = results \cup
              {[of |-> work[w].of, status |-> work[w].status, worker_id |-> w.node_id]}
    BY <2>1 DEF Publish
  <2>4. \A v \in Workers :
           Stage(v)' \in {"answered", "published"} =>
              /\ HasAnswer(v)
              /\ work'[v].of = work[v].of /\ work'[v].status = work[v].status
    BY <2>3 DEF Stage, HasAnswer
  <2>5. \A r \in results' :
           r \in results \/ (r.of = work[w].of /\ r.status = work[w].status)
    BY <2>3
  <2> QED  BY <2>1, <2>2, <2>3, <2>4, <2>5, KeepsAnswers DEF Listening, scriptVars
<1>5. CASE \E w \in Workers : (Deliver(w) \/ Take(w) \/ NoScript(w) \/ Ack(w) \/ Exit(w))
                              /\ UNCHANGED scriptVars
  <2>1. PICK w \in Workers : (Deliver(w) \/ Take(w) \/ NoScript(w) \/ Ack(w) \/ Exit(w))
                             /\ UNCHANGED scriptVars
    BY <1>5
  <2>2. UNCHANGED <<db, collected, results, pc>>
    BY <2>1 DEF Deliver, Take, NoScript, Answer, Ack, Exit
  <2>3. \A v \in Workers : \/ work'[v] = work[v] \/ work'[v].stage \in {"none", "taken"}
                           \/ work'[v].of \in Messages /\ work'[v].status = "ERROR"
    BY <1>1, <2>1, TakenType DEF Deliver, Take, NoScript, Answer, Ack, Exit, Ends
  <2> QED  BY <1>2, <2>1, <2>2, <2>3 DEF Listening, scriptVars
<1>6. CASE Collect /\ UNCHANGED scriptVars
  <2>1. PICK r \in results :
           /\ collected' = [collected EXCEPT ![Op(r.of).request_id] = r.status]
           /\ results' = results
    BY <1>6 DEF Collect
  <2>2. UNCHANGED <<db, work, pc>> /\ consumer
    BY <1>6 DEF Collect
  <2>3. Listening
    BY <2>2 DEF Control, Listening, ScriptTypes
  <2>4. r.of \in Messages /\ Op(r.of) \in Purchases /\ r.status \in Statuses
    BY <2>1, MessageType DEF Results
  <2>5. r.status \in {"ERROR", Outcome(db, Op(r.of))}
    BY <2>1, <2>3 DEF AnswersInv, StepAnswersMatchLedger, Listening
  <2>6. ASSUME NEW p \in Purchases
        PROVE  collected'[p.request_id] \in {"nil", "ERROR", Outcome(db, p)}
    <3>1. CASE p.request_id = Op(r.of).request_id
      <4>1. Outcome(db, p) = Outcome(db, Op(r.of))
        BY <2>4, <3>1 DEF OneModel, Outcome
      <4> QED  BY <2>1, <2>4, <2>5, <3>1, <4>1 DEF Requests
    <3>2. CASE p.request_id # Op(r.of).request_id
      BY <2>1, <2>3, <3>2 DEF AnswersInv, StepAnswersMatchLedger, Listening, Requests
    <3> QED  BY <3>1, <3>2
  <2>7. \A q \in results' : q.status # "ERROR" => q.status = Outcome(db, Op(q.of))
    BY <2>1, <2>3 DEF AnswersInv, StepAnswersMatchLedger, Listening
  <2>8. StepWork'
    BY <1>6, <2>2 DEF AnswersInv, StepWork, HasAnswer, Stage, scriptVars
  <2> QED  BY <2>2, <2>6, <2>7, <2>8 DEF AnswersInv, StepAnswersMatchLedger
<1>7. CASE Purge /\ UNCHANGED scriptVars
  <2>1. results' = {} /\ UNCHANGED <<db, work, collected>> /\ collected = NothingCollected
    BY <1>7 DEF Purge, Control
  <2>2. \A p \in Purchases : collected'[p.request_id] = "nil"
    BY <2>1 DEF NothingCollected, Requests
  <2>3. StepWork'
    BY <1>7, <2>1 DEF AnswersInv, StepWork, HasAnswer, Stage, scriptVars
  <2> QED  BY <2>1, <2>2, <2>3 DEF AnswersInv, StepAnswersMatchLedger
<1>8. CASE /\ \/ PublishRequest \/ AllPublished \/ WaitReturns \/ Timeout
              \/ AckResult \/ ConsumerReturns \/ Requeue
           /\ UNCHANGED scriptVars
  <2>1. /\ UNCHANGED <<db, collected, work>> /\ (pc' # "starting" => pc # "starting")
        /\ results' \subseteq results
    BY <1>8 DEF PublishRequest, AllPublished, WaitReturns, Timeout, Aggregate, AckResult,
                ConsumerReturns, Requeue
  <2> QED  BY <1>2, <1>8, <2>1 DEF Listening, scriptVars
<1>9. CASE RunClient
  <2>1. pc' = "starting" /\ phase = "spawned" /\ UNCHANGED <<db, work>>
    BY <1>9 DEF RunClient, NewClient
  <2> QED  BY <2>1 DEF AnswersInv, StepWork, StepAnswersMatchLedger, HasAnswer, Stage
<1>10. CASE ResetAndSpawn
  <2>1. \A w \in Workers : ~HasAnswer(w)
    BY <1>1, <1>10 DEF ResetAndSpawn, Staff, BetweenSteps, Up, DownIsEmpty, HasAnswer, Stage
  <2>2. work' = work /\ phase' = "spawned"
    BY <1>10 DEF ResetAndSpawn
  <2> QED  BY <2>1, <2>2 DEF AnswersInv, StepWork, StepAnswersMatchLedger, HasAnswer, Stage
<1>11. CASE \/ KillVictim \/ ClientReturns \/ NextStep \/ Drain \/ UNCHANGED allVars
            \/ \E w \in Workers : Terminate(w) \/ ComeUp(w) \/ KillStraggler(w)
  <2>1. UNCHANGED <<db, collected, pc>> /\ results' \subseteq results
    BY <1>11 DEF KillVictim, Dies, IsKilled, Kill, ClientReturns, NextStep, Drain, Terminate,
                 Cancel, ComeUp, Start, KillStraggler, vars, allVars
  <2>2. \A v \in Workers : work'[v] = work[v] \/ work'[v] = NoWork
    BY <1>11 DEF KillVictim, Dies, IsKilled, Kill, Ends, ClientReturns, NextStep, Drain, Terminate,
                 Cancel, ComeUp, Start, KillStraggler, vars, allVars
  <2>3. /\ phase' # "resetting" => phase # "resetting"
        /\ phase' \in {"running", "stopping"} => phase \in {"running", "stopping"}
    BY <1>11 DEF KillVictim, ClientReturns, NextStep, Drain, Terminate, ComeUp, KillStraggler,
                 scriptVars, allVars
  <2> QED  BY <1>1, <1>2, <2>1, <2>2, <2>3 DEF Listening
<1>12. CASE LateCall /\ UNCHANGED scriptVars
  <2>1. PICK c \in calls : /\ db' = db \/ db' = Buy(db, c.by, Op(c.of), 0, 0)
                           /\ c.by \in Workers /\ c.of \in Messages
    BY <1>12, LateCallTouches
  <2>2. OutcomesKept
    <3>1. CASE db' = db
      BY <3>1 DEF OutcomesKept, Outcome
    <3>2. ASSUME NEW p \in Purchases, NEW s \in Stores, db' = Buy(db, s, p, 0, 0)
          PROVE  OutcomesKept
      BY <3>2, BuyOutcomes DEF OutcomesKept
    <3> QED  BY <2>1, <3>1, <3>2, WorkerType, MessageType
  <2>3. UNCHANGED <<work, results, collected, pc>>
    BY <1>12 DEF LateCall
  <2> QED  BY <1>12, <2>2, <2>3, KeepsAnswers DEF HasAnswer, Stage, Listening, scriptVars
<1> QED
  BY <1>3, <1>4, <1>5, <1>6, <1>7, <1>8, <1>9, <1>10, <1>11, <1>12
     DEF ScriptNext, Script, Pipeline, Waiting, Callback

\* However late a request of an earlier step is served, it tells the client of
\* this step no more than the ledger of this step does.
THEOREM StepAnswersAreTrue ==
    ASSUME OneModel PROVE ScriptSpec => []StepAnswersMatchLedger
<1>1. ScriptInit => AnswersInv
  BY DEF ScriptInit, AnswersInv, StepWork, StepAnswersMatchLedger
<1>2. TypeInv /\ MovesInv /\ Staff /\ Control /\ AnswersInv /\ [ScriptNext]_allVars => AnswersInv'
  BY AnswersInvStands DEF TypeInv, MovesInv, CopyInv
<1>3. AnswersInv => StepAnswersMatchLedger
  BY DEF AnswersInv
<1> QED
  BY <1>1, <1>2, <1>3, TypeInvHolds, MovesInvHolds, StaffHolds, ControlHolds, PTL DEF ScriptSpec

-----------------------------------------------------------------------------
(* Undisturbed steps: every request is answered once and leaves nothing.   *)

\* The messages whose result is not out.
Pending(m) ==
    \/ m \in requests
    \/ \E w \in Workers :
          linked[w] /\ (m \in buffer[w] \/ (Stage(w) \in {"taken", "answered"} /\ work[w].of = m))

\* No connection is ever lost, and no call.
Connected == orphans = {} /\ calls = {} /\ \A w \in Workers : Up(w) => linked[w]

\* A result that the client has taken in.
Read(r) == collected[Op(r.of).request_id] # "nil"

\* Between the steps there is no request, and no result that is news.
NothingBetween ==
    phase \in {"resetting", "spawned", "over"} =>
        (\A r \in results : Read(r)) /\ \A m \in Messages : ~HeldAt(m)

\* In a step there are requests of its run only, and results too when its
\* client has purged what the last one left.
OfThisRun ==
    /\ \A m \in Messages : HeldAt(m) => m[1] = run
    /\ pc # "starting" => \A r \in results : r.of[1] = run

\* A request has one answer, and none while it is pending.
AnsweredOnce ==
    /\ \A m \in Messages : Pending(m) => ~Answered(Op(m).request_id)
    /\ \A r, q \in results : Op(r.of).request_id = Op(q.of).request_id => r = q

\* The client reads a result when it has acknowledged the one before.
OneUnacknowledged ==
    \A r \in results : Read(r) =>
        /\ r.status = collected[Op(r.of).request_id]
        /\ consumer => r \in handled
        /\ \A q \in results : Read(q) => r = q

\* Answers are to lines that the client has sent, and it waits for all of them.
SentFirst ==
    phase \in {"running", "stopping"} =>
        /\ pc # "starting" =>
              \A c \in Requests : Answered(c) => \E j \in 1..sent : Ops[j].request_id = c
        /\ pc = "finished" => done

\* What has been run in this step will not be run again.
RunOnce ==
    /\ Replays = 0
    /\ phase \in {"spawned", "running", "stopping"} =>
          \A m \in Messages : m[1] = step /\ HasRun(m) => Known(m) /\ ~ToBeRun(m)

Clean ==
    /\ Connected /\ NothingBetween /\ OfThisRun
    /\ AnsweredOnce /\ OneUnacknowledged /\ SentFirst /\ RunOnce

CleanInv == Undisturbed => Clean

\* The steps in which nothing fails.
LEMMA UndisturbedSteps ==
    ASSUME TypeOK, ScriptTypes, [ScriptNext]_allVars, Undisturbed'
    PROVE  /\ Undisturbed
           /\ \/ /\ \/ \E w \in Workers :
                         \/ Deliver(w) \/ Take(w) \/ Execute(w) \/ NoScript(w) \/ Publish(w)
                         \/ Ack(w) \/ Exit(w)
                    \/ Requeue \/ LateCall \/ Purge \/ PublishRequest \/ AllPublished
                    \/ WaitReturns \/ Collect \/ AckResult \/ ConsumerReturns
                 /\ UNCHANGED scriptVars
              \/ \E w \in Workers : ComeUp(w) \/ (Asked(w) /\ UNCHANGED <<clientVars, phase, step>>)
              \/ ResetAndSpawn \/ RunClient \/ ClientReturns \/ NextStep
              \/ UNCHANGED <<vars, phase, step>>
<1>1. \A kind \in FaultKinds : faults[kind] \in Nat
  BY DEF TypeOK
<1>2. \A kind \in FaultKinds : ~Fault(kind) /\ faults' # [faults EXCEPT ![kind] = @ + 1]
  BY <1>1 DEF Fault, Undisturbed, TypeOK
<1>3. "crash" \in FaultKinds /\ "timeout" \in FaultKinds /\ "drain" \in FaultKinds
  BY DEF FaultKinds
<1>4. ~Drain /\ ~Timeout /\ \A w \in Workers : ~KillStraggler(w)
  BY <1>2, <1>3 DEF Drain, Timeout, KillStraggler, IsKilled
<1>5. KillVictim => UNCHANGED <<vars, phase, step>>
  BY <1>2, <1>3, StepType DEF KillVictim, Dies, IsKilled, Now, vars
<1>6. \A w \in Workers : Terminate(w) =>
         UNCHANGED <<vars, phase, step>> \/ (Asked(w) /\ UNCHANGED <<clientVars, phase, step>>)
  BY DEF Terminate, Asked
<1>7. ResetAndSpawn \/ RunClient \/ ClientReturns \/ NextStep => faults' = faults
  BY DEF ResetAndSpawn, RunClient, ClientReturns, NextStep, vars
<1>8. \A w \in Workers : ComeUp(w) => faults' = faults
  BY DEF ComeUp, Start
<1>9. Pipeline => faults' = faults
  BY <1>4 DEF Pipeline, Deliver, Callback, Take, Execute, NoScript, Publish, Ack, Exit, Requeue,
              LateCall, Waiting, Purge, PublishRequest, AllPublished, WaitReturns, Collect,
              AckResult, ConsumerReturns
<1>10. UNCHANGED allVars => UNCHANGED <<vars, phase, step>>
  BY DEF allVars, scriptVars
<1>11. faults' = faults => Undisturbed
  BY DEF Undisturbed
<1> QED
  BY <1>4, <1>5, <1>6, <1>7, <1>8, <1>9, <1>10, <1>11
     DEF ScriptNext, Script, Pipeline, Waiting, Callback, Asked, vars

\* What is pending is held.
LEMMA PendingIsHeld ==
    ASSUME TypeOK, NEW m
    PROVE  /\ Pending(m) => HeldAt(m)
           /\ ToBeRun(m) => HeldAt(m)
BY WorkIs DEF Pending, ToBeRun, HeldAt

\* Messages move on and no result comes or goes.
LEMMA MovesAreClean ==
    ASSUME Clean, UNCHANGED <<db, results, run, sent, collected, step>>, Connected',
           phase' = phase \/ (phase = "running" /\ phase' = "stopping"),
           pc' = "finished" => pc = "finished" \/ done, done => done',
           pc' = pc \/ pc # "starting", consumer' => consumer /\ handled' = handled,
           \A m \in Messages : /\ HeldAt(m)' => HeldAt(m)
                               /\ Pending(m)' => Pending(m)
                               /\ ToBeRun(m)' => ToBeRun(m)
    PROVE  Clean'
<1>1. \A c : Answered(c)' <=> Answered(c)
  BY DEF Answered
<1>2. \A m : (HasRun(m)' <=> HasRun(m)) /\ (Known(m)' <=> Known(m))
  BY DEF HasRun, Outcome, Known
<1>3. NothingBetween'
  BY DEF Clean, NothingBetween, Read
<1>4. OfThisRun'
  BY DEF Clean, OfThisRun
<1>5. AnsweredOnce' /\ OneUnacknowledged'
  BY <1>1 DEF Clean, AnsweredOnce, OneUnacknowledged, Read
<1>6. SentFirst'
  BY <1>1 DEF Clean, SentFirst, Ops
<1>7. RunOnce'
  BY <1>2 DEF Clean, RunOnce, Replays
<1> QED
  BY <1>3, <1>4, <1>5, <1>6, <1>7 DEF Clean

\* The workers' steps that move messages.
LEMMA WorkerStaysClean ==
    ASSUME TypeOK, CopyInv, Clean, UNCHANGED scriptVars, NEW w \in Workers,
           Deliver(w) \/ Take(w) \/ NoScript(w) \/ Ack(w) \/ Exit(w)
    PROVE  Clean'
<1> USE DEF TypeOK, clientVars, scriptVars
<1>1. NoWork.stage = "none"
  BY DEF NoWork
<1>2. UNCHANGED <<db, calls, results, orphans, run, sent, collected, handled, consumer, step, phase,
                  pc, done>>
  BY DEF Deliver, Take, NoScript, Answer, Ack, Exit
<1>3. Connected'
  BY <1>2 DEF Clean, Connected, Up, Deliver, Take, NoScript, Answer, Ack, Exit, Ends
<1> SUFFICES ASSUME NEW m \in Messages
             PROVE  /\ HeldAt(m)' => HeldAt(m)
                    /\ Pending(m)' => Pending(m)
                    /\ ToBeRun(m)' => ToBeRun(m)
  BY <1>2, <1>3, MovesAreClean
<1>4. CASE Deliver(w)
  BY <1>4 DEF Deliver, HeldAt, Pending, ToBeRun, Stage
<1>5. CASE Take(w)
  <2>1. linked[w]
    BY <1>5 DEF Take, Clean, Connected, Up
  <2> QED  BY <1>1, <1>5, <2>1 DEF Take, HeldAt, Pending, ToBeRun, Stage
<1>6. CASE NoScript(w)
  BY <1>1, <1>6 DEF NoScript, Answer, HeldAt, Pending, ToBeRun, Stage
<1>7. CASE Ack(w) \/ Exit(w)
  <2>1. /\ UNCHANGED <<requests, orphans>> /\ work'[w] = NoWork
        /\ \A v \in Workers : /\ buffer'[v] \subseteq buffer[v] /\ (linked'[v] => linked[v])
                              /\ work'[v] = work[v] \/ work'[v] = NoWork
    BY <1>7 DEF Ack, Exit, Ends
  <2> QED  BY <1>1, <2>1 DEF HeldAt, Pending, ToBeRun, Stage
<1> QED
  BY <1>4, <1>5, <1>6, <1>7

\* Workers that come up have nothing, and those that stop give back what they
\* have not begun.
LEMMA StaffStaysClean ==
    ASSUME TypeOK, CopyInv, Clean, NEW w \in Workers,
           ComeUp(w) \/ (Asked(w) /\ UNCHANGED <<clientVars, phase, step>>)
    PROVE  Clean'
<1> USE DEF TypeOK, clientVars
<1>1. UNCHANGED <<db, calls, results, orphans, run, sent, collected, handled, consumer, step, phase,
                  pc, done>>
  BY DEF ComeUp, Start, Asked, Cancel
<1>2. Connected'
  BY <1>1 DEF Clean, Connected, Up, ComeUp, Start, Asked, Cancel
<1> SUFFICES ASSUME NEW m \in Messages
             PROVE  /\ HeldAt(m)' => HeldAt(m)
                    /\ Pending(m)' => Pending(m)
                    /\ ToBeRun(m)' => ToBeRun(m)
  BY <1>1, <1>2, MovesAreClean
<1>3. CASE ComeUp(w)
  <2>1. w \in Workers /\ proc[w] \in {"exited", "off"} /\ UNCHANGED <<requests, buffer, work>>
        /\ \A v \in Workers : linked'[v] => linked[v] \/ v = w
    BY <1>3 DEF ComeUp, Start
  <2>2. buffer[w] = {} /\ work[w] = NoWork /\ Stage(w) = "none"
    BY <2>1 DEF CopyInv, DownIsEmpty, Stage, NoWork
  <2> QED  BY <1>1, <2>1, <2>2 DEF HeldAt, Pending, ToBeRun, Stage
<1>4. CASE Asked(w)
  BY <1>1, <1>4 DEF Asked, Cancel, HeldAt, Pending, ToBeRun, Stage
<1> QED
  BY <1>3, <1>4

\* A script runs for a message that has not been run, and never twice.
LEMMA ExecuteStaysClean ==
    ASSUME DistinctIds, TypeOK, ScriptTypes, PlacesInv, CopyInv, Control, Clean,
           UNCHANGED scriptVars, NEW w \in Workers, Execute(w)
    PROVE  Clean'
<1> USE DEF TypeOK, clientVars, scriptVars
<1>1. PICK n \in Messages : n = work[w].of
  BY TakenType DEF Execute
<1>2. BuyOf(w) \in Db /\ Stage(w) = "taken" /\ work[w] # NoWork
  BY TakenType, WorkIs DEF Execute
<1>3. /\ db' = BuyOf(w) /\ db' = Buy(db, w, Op(n), 0, 0)
      /\ UNCHANGED <<calls, results, requests, orphans, proc, linked, buffer, run, sent, collected,
                     handled, consumer, step, phase, pc, done>>
      /\ work' = [work EXCEPT ![w] = [stage |-> "answered", of |-> n,
                                      status |-> Outcome(BuyOf(w), Op(n))]]
  BY <1>1 DEF Execute, Answer, BuyOf
<1>4. Up(w) /\ linked[w]
  BY <1>2 DEF Clean, Connected, CopyInv, DownIsEmpty, Up
<1>5. HeldAt(n) /\ ToBeRun(n) /\ Pending(n) /\ n[1] = run
  BY <1>1, <1>2, <1>4 DEF HeldAt, ToBeRun, Pending, Clean, OfThisRun
<1>6. phase \in {"running", "stopping"} /\ run = step
  BY <1>5 DEF Clean, NothingBetween, ScriptTypes, Control
<1>7. Known(n)
  BY <1>1, <1>2 DEF PlacesInv, AllKnown
<1>8. ~HasRun(n)
  BY <1>5, <1>6 DEF Clean, RunOnce
<1>9. /\ \A m \in Messages : HeldAt(m)' => HeldAt(m)
      /\ \A m \in Messages : Pending(m)' => Pending(m)
      /\ \A m \in Messages : ToBeRun(m)' => ToBeRun(m)
      /\ ~ToBeRun(n)'
  <2>1. Stage(w)' = "answered" /\ work'[w].of = n
        /\ \A v \in Workers : v # w => work'[v] = work[v] /\ Stage(v)' = Stage(v)
    BY <1>3 DEF Stage
  <2>2. n \notin requests /\ n \notin orphans
        /\ \A v \in Workers : UnackedAt(v, n) => v = w
        /\ n \notin buffer[w]
    BY <1>1, <1>2, <1>4 DEF CopyInv, OneCopy, UnackedAt
  <2>3. ~ToBeRun(n)'
    BY <1>2, <1>3, <2>1, <2>2, WorkIs DEF ToBeRun, UnackedAt
  <2>4. \A m \in Messages : (HeldAt(m)' => HeldAt(m)) /\ (Pending(m)' => Pending(m))
    BY <1>1, <1>2, <1>3, <1>4, <2>1 DEF HeldAt, Pending
  <2>5. \A m \in Messages : ToBeRun(m)' => ToBeRun(m)
    BY <1>3, <2>1 DEF ToBeRun
  <2> QED  BY <2>3, <2>4, <2>5
<1>10. /\ Replays' = Replays
       /\ \A m \in Messages : HasRun(m)' /\ m[1] = run => HasRun(m) \/ m = n
  <2>1. Replays' = Replays
    BY <1>3, <1>8, ScriptRecords
  <2>2. ASSUME NEW m \in Messages, HasRun(m)', m[1] = run PROVE HasRun(m) \/ m = n
    BY <1>3, <1>5, <2>2, ScriptRecords, OneLine
  <2> QED  BY <2>1, <2>2
<1>11. \A c : Answered(c)' <=> Answered(c)
  BY <1>3 DEF Answered
<1>12. /\ Connected' /\ NothingBetween' /\ OfThisRun' /\ AnsweredOnce' /\ OneUnacknowledged'
       /\ SentFirst'
  BY <1>3, <1>9, <1>11 DEF Clean, Connected, Up, NothingBetween, OfThisRun, AnsweredOnce,
                           OneUnacknowledged, Read, SentFirst, Ops
<1>13. RunOnce'
  <2>1. \A m : Known(m)' <=> Known(m)
    BY <1>3 DEF Known
  <2>2. \A m \in Messages : m[1] = step /\ HasRun(m)' => Known(m) /\ ~ToBeRun(m)'
    <3> SUFFICES ASSUME NEW m \in Messages, m[1] = run, HasRun(m)'
                 PROVE  Known(m) /\ ~ToBeRun(m)'
      BY <1>6
    <3>1. CASE m = n
      BY <1>7, <1>9, <3>1
    <3>2. CASE HasRun(m)
      <4>1. Known(m) /\ ~ToBeRun(m)
        BY <1>6, <3>2 DEF Clean, RunOnce
      <4> QED  BY <1>9, <4>1
    <3> QED  BY <1>10, <3>1, <3>2
  <2>3. Replays' = 0 /\ step' = step
    BY <1>3, <1>10 DEF Clean, RunOnce
  <2> QED  BY <2>1, <2>2, <2>3 DEF RunOnce
<1> QED
  BY <1>12, <1>13 DEF Clean

\* A result comes out for a request that had none, and for no other.
LEMMA PublishStaysClean ==
    ASSUME DistinctIds, TypeOK, ScriptTypes, PlacesInv, CopyInv, Control, Clean,
           UNCHANGED scriptVars, NEW w \in Workers, Publish(w)
    PROVE  Clean'
<1>1. /\ Stage(w) = "answered" /\ work[w] # NoWork /\ linked[w]
      /\ work' = [work EXCEPT ![w].stage = "published"]
  BY WorkIs DEF Publish
<1> PICK n \in Messages : n = work[w].of
  BY <1>1, WorkIs
<1> PICK q : q = [of |-> n, status |-> work[w].status, worker_id |-> w.node_id]
  OBVIOUS
<1>2. /\ results' = results \cup {q} /\ q.of = n
      /\ UNCHANGED <<db, calls, requests, orphans, proc, linked, buffer, run, sent, collected,
                     handled, consumer, step, phase, pc, done>>
  BY DEF Publish, clientVars, scriptVars
<1>3. Stage(w)' = "published" /\ work'[w].of = n /\ work'[w] # NoWork
      /\ \A v \in Workers : v # w => work'[v] = work[v] /\ Stage(v)' = Stage(v)
  <2>1. work'[w].stage = "published" /\ work'[w].of = n
        /\ \A v \in Workers : v # w => work'[v] = work[v]
    BY <1>1, WorkCases DEF TypeOK
  <2> QED  BY <2>1 DEF Stage, NoWork
<1>4. HeldAt(n) /\ Pending(n) /\ n[1] = run
  BY <1>1 DEF HeldAt, Pending, Clean, OfThisRun
<1>5. phase \in {"running", "stopping"} /\ run = step
  BY <1>1, <1>4 DEF Clean, NothingBetween, ScriptTypes, Control
<1>6. Known(n)
  BY <1>1 DEF PlacesInv, AllKnown
<1>7. ~Answered(Op(n).request_id)
  BY <1>1, <1>4 DEF Clean, AnsweredOnce
<1>8. \A c : Answered(c)' <=> Answered(c) \/ c = Op(n).request_id
  BY <1>2 DEF Answered
<1>9. /\ \A m \in Messages : HeldAt(m)' => HeldAt(m)
      /\ \A m \in Messages : Pending(m)' => Pending(m) /\ m # n
      /\ \A m \in Messages : ToBeRun(m)' => ToBeRun(m)
  <2>1. n \notin requests /\ n \notin orphans
        /\ \A v \in Workers : UnackedAt(v, n) => v = w
        /\ n \notin buffer[w]
    BY <1>1 DEF CopyInv, OneCopy, UnackedAt
  <2>2. ~Pending(n)'
    BY <1>2, <1>3, <2>1, WorkIs DEF Pending, UnackedAt
  <2>3. \A m \in Messages : (HeldAt(m)' => HeldAt(m)) /\ (Pending(m)' => Pending(m))
    BY <1>1, <1>2, <1>3 DEF HeldAt, Pending
  <2>4. \A m \in Messages : ToBeRun(m)' => ToBeRun(m)
    BY <1>2, <1>3 DEF ToBeRun
  <2> QED  BY <2>2, <2>3, <2>4
<1>10. Connected' /\ NothingBetween' /\ OfThisRun'
  BY <1>2, <1>4, <1>5, <1>9 DEF Clean, Connected, Up, NothingBetween, OfThisRun
<1>11. AnsweredOnce' /\ OneUnacknowledged'
  <2>1. ASSUME NEW m \in Messages, Pending(m)' PROVE ~Answered(Op(m).request_id)'
    <3>1. Pending(m) /\ m # n /\ m[1] = run
      BY <1>9, <2>1, PendingIsHeld DEF Clean, OfThisRun
    <3>2. Op(m).request_id # Op(n).request_id
      BY <1>1, <1>4, <3>1, OneLine
    <3> QED  BY <1>8, <3>1, <3>2 DEF Clean, AnsweredOnce
  <2>2. collected[Op(n).request_id] = "nil"
        /\ \A r \in results : Op(r.of).request_id # Op(n).request_id
    BY <1>7 DEF Answered
  <2>3. \A r \in results' : r \in results \/ (r = q /\ r.of = n)
    BY <1>2
  <2>4. \A r, s \in results' : Op(r.of).request_id = Op(s.of).request_id => r = s
    BY <2>2, <2>3 DEF Clean, AnsweredOnce
  <2>5. OneUnacknowledged'
    BY <1>2, <2>2, <2>3 DEF Clean, OneUnacknowledged, Read
  <2> QED  BY <1>2, <2>1, <2>4, <2>5 DEF AnsweredOnce
<1>12. SentFirst'
  <2>1. n[2] \in 1..sent /\ Ops[n[2]].request_id = Op(n).request_id
    BY <1>1, <1>4, <1>6, MessageType DEF Known, Op, Ops, TypeOK
  <2>2. pc # "starting"
    BY <2>1 DEF PlacesInv, Orderly
  <2>3. \A c \in Requests : Answered(c)' => \E j \in 1..sent : Ops[j].request_id = c
    BY <1>5, <1>8, <2>1, <2>2 DEF Clean, SentFirst
  <2> QED  BY <1>2, <2>3 DEF Clean, SentFirst, Ops
<1>13. RunOnce'
  <2>1. \A m : (Known(m)' <=> Known(m)) /\ (HasRun(m)' <=> HasRun(m))
    BY <1>2 DEF Known, HasRun, Outcome
  <2>2. Replays' = Replays /\ phase' = phase /\ step' = step
    BY <1>2 DEF Replays
  <2> QED  BY <1>9, <2>1, <2>2 DEF Clean, RunOnce
<1> QED
  BY <1>10, <1>11, <1>12, <1>13 DEF Clean

\* The client collects a result for a request that has none, and acknowledges
\* it then.
LEMMA CollectStaysClean ==
    ASSUME TypeOK, ScriptTypes, PlacesInv, Control, Clean, UNCHANGED scriptVars,
           Collect \/ AckResult
    PROVE  Clean'
<1>1. /\ UNCHANGED <<db, calls, requests, orphans, proc, linked, buffer, work, run, sent, step,
                     phase, pc, consumer>>
      /\ done => done'
      /\ consumer /\ results' \subseteq results
  <2>1. CASE Collect
    BY <2>1 DEF Collect, workerVars, scriptVars
  <2>2. CASE AckResult
    BY <2>2 DEF AckResult, workerVars, scriptVars
  <2> QED  BY <2>1, <2>2
<1>2. phase = "running" /\ pc # "starting"
  BY <1>1 DEF Control, ScriptTypes
<1>3. \A r \in results : /\ r.of \in Messages /\ Op(r.of).request_id \in Requests
                         /\ r.status \in Statuses /\ r.status # "nil"
  BY MessageType DEF TypeOK, Results, Statuses, Outcomes
<1>4. /\ \A c \in Requests : Answered(c)' <=> Answered(c)
      /\ OneUnacknowledged'
  <2>1. CASE Collect
    <3>1. PICK r \in results :
             /\ collected' = [collected EXCEPT ![Op(r.of).request_id] = r.status]
             /\ handled' = {r} /\ results' = results /\ handled = {}
      BY <2>1 DEF Collect
    <3>2. \A q \in results : ~Read(q)
      BY <1>1, <3>1 DEF Clean, OneUnacknowledged
    <3>3. collected'[Op(r.of).request_id] = r.status
          /\ \A c \in Requests : c # Op(r.of).request_id => collected'[c] = collected[c]
      BY <1>3, <3>1 DEF TypeOK
    <3>4. \A c \in Requests : Answered(c)' <=> Answered(c)
      BY <1>3, <3>1, <3>3 DEF Answered
    <3>5. \A q \in results' : Read(q)' => q = r
      <4> SUFFICES ASSUME NEW q \in results', Read(q)' PROVE q = r
        OBVIOUS
      <4>1. q \in results /\ Op(q.of).request_id = Op(r.of).request_id
        BY <1>3, <3>1, <3>2, <3>3 DEF Read
      <4> QED  BY <4>1 DEF Clean, AnsweredOnce
    <3>6. OneUnacknowledged'
      BY <3>1, <3>3, <3>5 DEF OneUnacknowledged
    <3> QED  BY <3>4, <3>6
  <2>2. CASE AckResult
    <3>1. results' = results \ handled /\ collected' = collected
      BY <2>2 DEF AckResult
    <3>2. \A r \in handled : collected[Op(r.of).request_id] # "nil"
      BY DEF PlacesInv, Orderly
    <3>3. \A c \in Requests : Answered(c)' <=> Answered(c)
      BY <3>1, <3>2 DEF Answered
    <3>4. \A r \in results' : ~Read(r)'
      BY <1>1, <3>1 DEF Clean, OneUnacknowledged, Read
    <3>5. OneUnacknowledged'
      BY <3>4 DEF OneUnacknowledged
    <3> QED  BY <3>3, <3>5
  <2> QED  BY <2>1, <2>2
<1>5. \A m : /\ HeldAt(m)' <=> HeldAt(m)
             /\ Pending(m)' <=> Pending(m)
             /\ ToBeRun(m)' <=> ToBeRun(m)
             /\ Known(m)' <=> Known(m)
             /\ HasRun(m)' <=> HasRun(m)
  BY <1>1 DEF HeldAt, Pending, ToBeRun, Known, HasRun, Outcome, Stage
<1>6. Connected' /\ NothingBetween' /\ OfThisRun'
  BY <1>1, <1>2, <1>5 DEF Clean, Connected, Up, NothingBetween, OfThisRun
<1>7. AnsweredOnce'
  <2>1. \A m \in Messages : Pending(m)' => ~Answered(Op(m).request_id)'
    BY <1>4, <1>5, MessageType DEF Clean, AnsweredOnce
  <2> QED  BY <1>1, <2>1 DEF Clean, AnsweredOnce
<1>8. SentFirst'
  BY <1>1, <1>2, <1>4 DEF Clean, SentFirst, Ops
<1>9. RunOnce'
  <2>1. Replays' = Replays /\ phase' = phase /\ step' = step
    BY <1>1 DEF Replays
  <2> QED  BY <1>5, <2>1 DEF Clean, RunOnce
<1> QED
  BY <1>4, <1>6, <1>7, <1>8, <1>9 DEF Clean

\* Other steps of the client and the script leave messages where they are, and
\* the client does not stop waiting without being done.
LEMMA OthersStayClean ==
    ASSUME TypeOK, Clean,
           \/ /\ Requeue \/ LateCall \/ AllPublished \/ WaitReturns \/ ConsumerReturns
              /\ UNCHANGED scriptVars
           \/ ClientReturns
           \/ UNCHANGED <<vars, phase, step>>
    PROVE  Clean'
<1>1. ~Requeue /\ ~LateCall
  BY DEF Requeue, LateCall, Clean, Connected
<1>2. UNCHANGED <<db, calls, requests, orphans, results, proc, linked, buffer, work, run, sent,
                  collected, step>>
  BY <1>1 DEF AllPublished, WaitReturns, Aggregate, ConsumerReturns, ClientReturns, workerVars,
              clientVars, scriptVars, vars
<1>3. /\ phase' = phase \/ (phase = "running" /\ phase' = "stopping")
      /\ pc' = "finished" => pc = "finished" \/ done
      /\ done => done'
      /\ pc' = pc \/ pc # "starting"
      /\ consumer' => consumer /\ handled' = handled
  BY <1>1 DEF AllPublished, WaitReturns, Aggregate, ConsumerReturns, ClientReturns, scriptVars,
              vars, clientVars
<1>4. Connected'
  BY <1>2 DEF Clean, Connected, Up
<1>5. \A m \in Messages :
         (HeldAt(m)' => HeldAt(m)) /\ (Pending(m)' => Pending(m)) /\ (ToBeRun(m)' => ToBeRun(m))
  BY <1>2 DEF HeldAt, Pending, ToBeRun, Stage
<1> QED
  BY <1>2, <1>3, <1>4, <1>5, MovesAreClean

\* The client purges the results, and it sends its lines one by one.
LEMMA SendingStaysClean ==
    ASSUME DistinctIds, TypeOK, ScriptTypes, PlacesInv, Control, Clean, UNCHANGED scriptVars,
           Purge \/ PublishRequest
    PROVE  Clean'
<1>1. /\ UNCHANGED <<db, calls, orphans, proc, linked, buffer, work, run, collected, handled, step,
                     phase, done>>
      /\ pc' \notin {"starting", "finished"} /\ results' \subseteq results
  BY DEF Purge, PublishRequest, workerVars, scriptVars
<1>2. run \in Nat /\ sent \in Nat /\ (pc = "starting" => sent = 0)
  BY BenchmarksAssumption DEF TypeOK, PlacesInv, Orderly
<1>3. \A c : Answered(c)' => Answered(c)
  BY <1>1 DEF Answered
<1>4. Connected'
  BY <1>1 DEF Clean, Connected, Up
<1>5. Replays' = Replays /\ \A m : HasRun(m)' <=> HasRun(m)
  BY <1>1 DEF Replays, HasRun, Outcome
<1>6. phase = "running"
  BY DEF Control, ScriptTypes, Purge, PublishRequest
<1>7. CASE Purge
  <2>1. UNCHANGED <<requests, sent>> /\ results' = {} /\ collected = NothingCollected
    BY <1>7 DEF Purge, Control
  <2>2. \A m : /\ HeldAt(m)' => HeldAt(m)
               /\ Pending(m)' => Pending(m)
               /\ ToBeRun(m)' => ToBeRun(m)
               /\ Known(m)' <=> Known(m)
    BY <1>1, <2>1 DEF HeldAt, Pending, ToBeRun, Known, Stage
  <2>3. NothingBetween' /\ OfThisRun' /\ AnsweredOnce' /\ OneUnacknowledged'
    BY <1>1, <1>3, <1>6, <2>1, <2>2
       DEF Clean, NothingBetween, OfThisRun, AnsweredOnce, OneUnacknowledged
  <2>4. SentFirst'
    <3>1. \A c \in Requests : ~Answered(c)'
      BY <1>1, <2>1 DEF Answered, NothingCollected
    <3> QED  BY <1>1, <3>1 DEF SentFirst
  <2>5. RunOnce'
    BY <1>1, <1>5, <2>2 DEF Clean, RunOnce
  <2> QED  BY <1>4, <2>3, <2>4, <2>5 DEF Clean
<1>8. CASE PublishRequest
  <2>1. /\ requests' = requests \cup {<<run, sent + 1>>} /\ sent' = sent + 1
        /\ results' = results /\ sent < Len(Ops) /\ pc # "starting" /\ consumer' = consumer
    BY <1>8 DEF PublishRequest
  <2>2. PICK n : n = <<run, sent + 1>>
    OBVIOUS
  <2>3. /\ \A m : HeldAt(m)' => HeldAt(m) \/ m = n
        /\ \A m : Pending(m)' => Pending(m) \/ m = n
        /\ \A m : ToBeRun(m)' => ToBeRun(m) \/ m = n
    BY <1>1, <2>1, <2>2 DEF HeldAt, Pending, ToBeRun, Stage
  <2>4. /\ \A m \in Messages : Known(m) => Known(m)'
        /\ ~Known(n) /\ n[1] = run
    BY <1>1, <1>2, <2>1, <2>2, MessageType DEF Known
  <2>5. \A c : Answered(c)' <=> Answered(c)
    BY <1>1, <2>1 DEF Answered
  <2>6. NothingBetween' /\ OfThisRun'
    BY <1>1, <1>6, <2>1, <2>3, <2>4 DEF Clean, NothingBetween, OfThisRun
  <2>7. AnsweredOnce'
    <3>1. ASSUME n \in Messages PROVE ~Answered(Op(n).request_id)
      <4>1. ASSUME NEW j \in 1..sent PROVE Ops[j].request_id # Op(n).request_id
        <5>1. run \in DOMAIN Benchmarks /\ Len(Benchmarks[run]) \in Nat
              /\ DOMAIN Benchmarks[run] = 1..Len(Benchmarks[run])
          <6>1. run \in 1..Len(Benchmarks)
            BY <2>4, <3>1, MessageType
          <6> QED  BY <6>1, BenchmarksAssumption
        <5>2. j \in DOMAIN Benchmarks[run] /\ sent + 1 \in DOMAIN Benchmarks[run] /\ j # sent + 1
          BY <1>2, <2>1, <5>1 DEF Ops
        <5> QED  BY <2>2, <5>1, <5>2 DEF DistinctIds, Ops, Op
      <4> QED  BY <1>6, <2>1, <3>1, <4>1, MessageType DEF Clean, SentFirst
    <3> QED  BY <1>1, <2>1, <2>3, <2>5, <3>1 DEF Clean, AnsweredOnce
  <2>8. SentFirst'
    <3>1. 1..sent \subseteq 1..sent'
      BY <1>2, <2>1
    <3> QED  BY <1>1, <1>6, <2>1, <2>5, <3>1 DEF Clean, SentFirst, Ops
  <2>9. RunOnce'
    <3>1. run = step
      BY <1>6 DEF Control
    <3> QED  BY <1>1, <1>5, <2>3, <2>4, <3>1 DEF Clean, RunOnce
  <2>10. OneUnacknowledged'
    BY <1>1, <2>1 DEF Clean, OneUnacknowledged, Read
  <2> QED  BY <1>4, <2>6, <2>7, <2>8, <2>9, <2>10 DEF Clean
<1> QED
  BY <1>7, <1>8

\* A step begins with nothing held, no news and no outcome on record.
LEMMA BeginningIsClean ==
    ASSUME TypeOK, ScriptTypes, Control, Clean, ResetAndSpawn \/ RunClient
    PROVE  Clean'
<1>1. UNCHANGED <<calls, requests, orphans, results, proc, linked, buffer, work, step>>
      /\ phase \in {"resetting", "spawned"}
  BY DEF ResetAndSpawn, RunClient, NewClient, workerVars
<1>2. \A m \in Messages : ~HeldAt(m)
  BY <1>1 DEF Clean, NothingBetween
<1>3. \A m \in Messages : ~HeldAt(m)' /\ ~Pending(m)' /\ ~ToBeRun(m)'
  <2>1. \A m : /\ HeldAt(m)' <=> HeldAt(m)
               /\ Pending(m)' <=> Pending(m)
               /\ ToBeRun(m)' <=> ToBeRun(m)
    BY <1>1 DEF HeldAt, Pending, ToBeRun, Stage
  <2> QED  BY <1>2, <2>1, PendingIsHeld
<1>4. Connected' /\ AnsweredOnce'
  BY <1>1, <1>3 DEF Clean, Connected, Up, AnsweredOnce
<1>5. CASE ResetAndSpawn
  <2>1. db' = EmptyDb /\ phase' = "spawned" /\ UNCHANGED clientVars
    BY <1>5 DEF ResetAndSpawn
  <2>2. Replays' = 0 /\ \A m \in Messages : ~HasRun(m)'
    <3>1. \A m \in Messages : ~HasRun(m)'
      BY <2>1, EmptyOutcomes, MessageType DEF HasRun
    <3>2. Replays' = 0
      BY <2>1 DEF Replays, EmptyDb, NoMetrics, EmptyMetrics, ARCHITECTURES
    <3> QED  BY <3>1, <3>2
  <2>3. SentFirst' /\ RunOnce'
    BY <2>1, <2>2 DEF SentFirst, RunOnce
  <2>4. NothingBetween' /\ OfThisRun' /\ OneUnacknowledged'
    BY <1>1, <1>3, <2>1
       DEF Clean, NothingBetween, OfThisRun, OneUnacknowledged, Read, clientVars
  <2> QED  BY <1>4, <2>3, <2>4 DEF Clean
<1>6. CASE RunClient
  <2>1. /\ phase = "spawned" /\ phase' = "running" /\ db' = db /\ run' = run + 1 /\ pc' = "starting"
        /\ collected' = NothingCollected
    BY <1>6 DEF RunClient, NewClient
  <2>2. \A r \in results' : ~Read(r)'
    BY <1>1, <2>1, MessageType DEF TypeOK, Results, Read, NothingCollected
  <2>3. \A m \in Messages : m[1] = step => ~HasRun(m)
    <3>1. run = step - 1 /\ run \in Nat
      BY <2>1, BenchmarksAssumption DEF Control, TypeOK
    <3>2. step \in Nat
      BY StepsAssumption DEF ScriptTypes
    <3>3. \A m \in Messages : m[1] = step => ~Known(m)
      BY <3>1, <3>2 DEF Known
    <3> QED  BY <2>1, <3>3 DEF Clean, RunOnce
  <2>4. \A m : HasRun(m)' <=> HasRun(m)
    BY <2>1 DEF HasRun, Outcome
  <2>5. SentFirst' /\ NothingBetween' /\ OfThisRun' /\ OneUnacknowledged'
    BY <1>3, <2>1, <2>2 DEF SentFirst, NothingBetween, OfThisRun, OneUnacknowledged
  <2>6. RunOnce'
    BY <1>1, <2>1, <2>3, <2>4 DEF Clean, RunOnce, Replays
  <2> QED  BY <1>4, <2>5, <2>6 DEF Clean
<1> QED
  BY <1>5, <1>6

\* A client that is done has a result for every line, so no request is held and
\* no result is news when all workers have ended.
LEMMA EndingIsClean ==
    ASSUME DistinctIds, TypeOK, ScriptTypes, CountInv, CopyInv, Control, Clean, NextStep
    PROVE  Clean'
<1>1. /\ phase = "stopping" /\ phase' \in {"over", "resetting"} /\ UNCHANGED vars
      /\ \A w \in Workers : ~Up(w)
  BY DEF NextStep, AllTerminated, Up
<1>2. UNCHANGED <<db, calls, requests, orphans, results, proc, linked, buffer, work, run, sent,
                  collected, handled, consumer, pc>>
  BY <1>1 DEF vars, workerVars, clientVars
<1>3. run = step /\ pc = "finished" /\ run \in 1..Len(Benchmarks)
  BY <1>1, StepsAssumption DEF Control, ScriptTypes
<1>4. run \in DOMAIN Benchmarks /\ run > 0 /\ Len(Ops) \in Nat /\ DOMAIN Ops = 1..Len(Ops)
  BY <1>3, BenchmarksAssumption DEF Ops
<1>5. done /\ Enough(collected) /\ sent = Len(Ops) /\ IsFiniteSet(Got(collected))
  BY <1>1, <1>3, <1>4 DEF Clean, SentFirst, CountInv
<1>6. Got(collected) = Ids(run)
  <2>1. Got(collected) \subseteq Ids(run)
    BY <1>1, <1>3, <1>4, <1>5 DEF Clean, SentFirst, Got, Answered, Ids, Ops
  <2> QED  BY <1>4, <1>5, <2>1, CountedIsAll
<1>7. ASSUME NEW m \in Messages, m[1] = run PROVE collected[Op(m).request_id] # "nil"
  <2>1. Op(m).request_id \in Ids(run)
    BY <1>7 DEF Messages, Ids, Op
  <2> QED  BY <1>6, <2>1 DEF Got
<1>8. \A r \in results : Read(r)
  BY <1>3, <1>7 DEF Clean, OfThisRun, Read, TypeOK, Results
<1>9. \A m \in Messages : ~HeldAt(m)
  <2>1. \A w \in Workers : ~linked[w]
    BY <1>1 DEF CopyInv, DownIsEmpty, Up, TypeOK
  <2>2. ASSUME NEW m \in Messages, m \in requests PROVE FALSE
    <3>1. HeldAt(m) /\ Pending(m)
      BY <2>2 DEF HeldAt, Pending
    <3> QED  BY <1>7, <3>1 DEF Clean, OfThisRun, AnsweredOnce, Answered
  <2> QED  BY <2>1, <2>2 DEF HeldAt, Clean, Connected
<1>10. \A m \in Messages : ~HeldAt(m)' /\ ~Pending(m)' /\ ~ToBeRun(m)'
  <2>1. \A m : /\ HeldAt(m)' <=> HeldAt(m)
               /\ Pending(m)' <=> Pending(m)
               /\ ToBeRun(m)' <=> ToBeRun(m)
    BY <1>2 DEF HeldAt, Pending, ToBeRun, Stage
  <2> QED  BY <1>9, <2>1, PendingIsHeld
<1>11. Connected' /\ NothingBetween' /\ AnsweredOnce' /\ SentFirst' /\ RunOnce'
  BY <1>1, <1>2, <1>8, <1>10
     DEF Clean, Connected, Up, NothingBetween, Read, AnsweredOnce, SentFirst, RunOnce, Replays
<1>12. OfThisRun' /\ OneUnacknowledged'
  BY <1>2, <1>10 DEF Clean, OfThisRun, OneUnacknowledged, Read
<1> QED
  BY <1>11, <1>12 DEF Clean

\* A step in which nothing failed, whatever its workers' order, leaves nothing
\* behind but perhaps the last result, which the client had taken in and not
\* acknowledged: every request was run once, answered once and collected.
THEOREM UndisturbedStepsLeaveNothing ==
    ASSUME DistinctIds PROVE ScriptSpec => []StepsLeaveNothing
<1>1. ScriptInit => CleanInv
  <2> SUFFICES ASSUME ScriptInit PROVE Clean
    BY DEF CleanInv
  <2>1. \A m \in Messages : ~HeldAt(m) /\ ~Pending(m)
    BY DEF ScriptInit, Initially, HeldAt, Pending
  <2>2. results = {} /\ orphans = {} /\ calls = {} /\ phase = "resetting"
        /\ \A w \in Workers : ~Up(w)
    BY DEF ScriptInit, Initially, Up
  <2>3. Replays = 0
    BY DEF ScriptInit, Initially, Replays, EmptyDb, NoMetrics, EmptyMetrics, ARCHITECTURES
  <2> QED
    BY <2>1, <2>2, <2>3
       DEF Clean, Connected, NothingBetween, OfThisRun, AnsweredOnce, OneUnacknowledged, SentFirst,
           RunOnce
<1>2. TypeInv /\ MovesInv /\ CountInv /\ Control /\ CleanInv /\ [ScriptNext]_allVars => CleanInv'
  <2> SUFFICES ASSUME TypeInv, MovesInv, CountInv, Control, CleanInv, [ScriptNext]_allVars,
                      Undisturbed'
               PROVE  Clean'
    BY DEF CleanInv
  <2> USE DEF TypeInv, MovesInv
  <2>1. Undisturbed /\ Clean
    BY UndisturbedSteps DEF CleanInv
  <2>2. ASSUME NEW w \in Workers, UNCHANGED scriptVars,
               \/ Deliver(w) \/ Take(w) \/ Execute(w) \/ NoScript(w) \/ Publish(w)
               \/ Ack(w) \/ Exit(w)
        PROVE  Clean'
    BY <2>1, <2>2, WorkerStaysClean, ExecuteStaysClean, PublishStaysClean
  <2>3. ASSUME NEW w \in Workers, ComeUp(w) \/ (Asked(w) /\ UNCHANGED <<clientVars, phase, step>>)
        PROVE  Clean'
    BY <2>1, <2>3, StaffStaysClean
  <2>4. ASSUME UNCHANGED scriptVars,
               \/ Requeue \/ LateCall \/ AllPublished \/ WaitReturns \/ ConsumerReturns
               \/ Purge \/ PublishRequest \/ Collect \/ AckResult
        PROVE  Clean'
    BY <2>1, <2>4, OthersStayClean, SendingStaysClean, CollectStaysClean
  <2>5. CASE ClientReturns \/ UNCHANGED <<vars, phase, step>>
    BY <2>1, <2>5, OthersStayClean
  <2>6. CASE ResetAndSpawn \/ RunClient \/ NextStep
    BY <2>1, <2>6, BeginningIsClean, EndingIsClean
  <2> QED  BY <2>2, <2>3, <2>4, <2>5, <2>6, UndisturbedSteps
<1>3. TypeInv /\ CleanInv => StepsLeaveNothing
  <2> SUFFICES ASSUME TypeOK, Clean, phase \in {"resetting", "over"}
               PROVE  /\ Held = {} /\ db.metrics["indirect"].replays = 0
                      /\ Cardinality(results) <= 1
                      /\ \A r \in results : collected[Op(r.of).request_id] = r.status
    BY DEF TypeInv, CleanInv, StepsLeaveNothing
  <2>1. (\A r \in results : Read(r)) /\ \A m \in Messages : ~HeldAt(m)
    BY DEF Clean, NothingBetween
  <2>2. Held \subseteq Messages
    BY UnackedType DEF Held, TypeOK
  <2>3. /\ \A r \in results : collected[Op(r.of).request_id] = r.status
        /\ \A r, q \in results : r = q
    BY <2>1 DEF Clean, OneUnacknowledged
  <2>4. Cardinality(results) <= 1
    <3>1. CASE results = {}
      BY <3>1, FS_EmptySet
    <3>2. ASSUME NEW r \in results PROVE Cardinality(results) = 1
      <4>1. results = {r}
        BY <2>3
      <4> QED  BY <4>1, FS_Singleton
    <3> QED  BY <3>1, <3>2
  <2> QED  BY <2>1, <2>2, <2>3, <2>4, HeldIs DEF Clean, RunOnce, Replays
<1> QED
  BY <1>1, <1>2, <1>3, TypeInvHolds, MovesInvHolds, ScriptCounts, ControlHolds, PTL DEF ScriptSpec
=============================================================================
