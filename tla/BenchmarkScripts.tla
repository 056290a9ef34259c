-------------------------- MODULE BenchmarkScripts --------------------------
(***************************************************************************)
(* The scripts that drive the indirect architecture: a step of             *)
(* scripts/scaling_sweep.py resets Redis, spawns workers, runs the client  *)
(* with --no-reset and stops the workers; scripts/fault_tolerance_test.py  *)
(* is one such step in which a worker is killed and perhaps replaced.      *)
(* Meanwhile indirect/results.py may drain the response queue.             *)
(* Nobody restarts a worker, and the queues outlive every step.  What      *)
(* IndirectPipeline says of lost connections and of Redis is left out.     *)
(***************************************************************************)
EXTENDS IndirectPipeline

CONSTANTS
    Steps       \* for each step: its workers, the victim, its replacement

\* Each step runs the client once, on the file of that run; a replacement is a
\* worker of its own.
ASSUME StepsAssumption ==
    /\ Steps \in Seq([workers : SUBSET Workers, victims : SUBSET Workers,
                      replacements : SUBSET Workers])
    /\ Len(Steps) = Len(Benchmarks) /\ Steps # <<>>
    /\ \A i \in DOMAIN Steps : /\ Steps[i].victims \subseteq Steps[i].workers
                               /\ Steps[i].replacements \cap Steps[i].workers = {}

VARIABLES
    phase,      \* resetting, spawned, running, stopping or over
    step,       \* the number of the step
    launched,   \* worker processes that have yet to connect
    killed,     \* has the step killed its victims?
    drained,    \* the results drain_results has taken
    inherited   \* history: the calls under way when the step began

scriptVars == <<phase, step, launched, killed, inherited>>
allVars == <<vars, scriptVars, drained>>

Now == Steps[step]
StepWorkers == Now.workers \cup Now.replacements

ScriptInit ==
    /\ Initially(FALSE)
    /\ phase = "resetting" /\ step = 1
    /\ launched = {} /\ killed = {}
    /\ drained = {} /\ inherited = {}

-----------------------------------------------------------------------------
\* reset_all, then _spawn_workers.
ResetAndSpawn ==
    /\ phase = "resetting"
    /\ db' = EmptyDb
    /\ launched' = Now.workers
    /\ phase' = "spawned" /\ killed' = {}
    /\ inherited' = calls
    /\ UNCHANGED <<calls, scripts, requests, orphans, results, workerVars, clientVars, faults,
                   step, drained>>

\* A process comes up, whenever it does: the script only sleeps a second.
ComeUp(w) ==
    /\ w \in launched /\ Start(w)
    /\ launched' = launched \ {w}
    /\ UNCHANGED <<phase, step, killed, inherited, drained>>

RunClient ==
    /\ phase = "spawned" /\ NewClient
    /\ phase' = "running"
    /\ UNCHANGED <<db, calls, scripts, requests, orphans, results, workerVars, faults,
                   step, launched, killed, inherited, drained>>

\* Mutant: the victim is only asked to stop.
IsToldToStop(w) ==
    \/ Cancel(w) /\ UNCHANGED faults
    \/ /\ proc[w] # "consuming"
       /\ UNCHANGED <<db, calls, scripts, requests, orphans, results, workerVars, faults>>

\* SIGKILL, which meets a process in any state.
IsKilled(w) == Kill(w) /\ faults' = [faults EXCEPT !["crash"] = @ + 1]

Dies(w) ==
    \/ IsKilled(w)
    \/ /\ proc[w] \in {"exited", "off"}
       /\ UNCHANGED <<db, calls, scripts, requests, orphans, results, workerVars, faults>>

\* kill -9, and then the replacement.
KillVictim ==
    /\ phase = "running" /\ killed # Now.victims
    /\ \E w \in Now.victims \ killed :
          /\ Dies(w)
          /\ killed' = killed \cup {w}
          /\ launched' = (launched \ {w}) \cup Now.replacements
    /\ UNCHANGED <<clientVars, phase, step, inherited, drained>>

\* The client's process is gone, and its consumer thread with it: a result
\* that it has handled and not acknowledged is back in the queue.
ClientReturns ==
    /\ phase = "running" /\ killed = Now.victims
    /\ pc = "finished"
    /\ consumer' = FALSE /\ handled' = {} /\ phase' = "stopping"
    /\ UNCHANGED <<db, calls, scripts, requests, orphans, results, workerVars, pc, run, sent,
                   collected, done, report, faults, step, launched, killed, inherited, drained>>

\* Mutant: processes that have not come up are forgotten.
TerminateRunning(w) ==
    /\ phase = "stopping"
    /\ Cancel(w) /\ UNCHANGED <<clientVars, faults, scriptVars, drained>>

\* _stop: SIGTERM, which ends a process that has no handler yet.
Terminate(w) ==
    /\ phase = "stopping"
    /\ \/ Cancel(w) /\ UNCHANGED <<clientVars, faults, launched>>
       \/ w \in launched /\ launched' = launched \ {w} /\ UNCHANGED <<vars>>
    /\ UNCHANGED <<phase, step, killed, inherited, drained>>

AllTerminated == launched = {} /\ \A w \in Workers : proc[w] # "consuming"

\* A worker that has not ended after ten seconds is killed.
KillStraggler(w) ==
    /\ phase = "stopping" /\ AllTerminated
    /\ proc[w] = "stopping" /\ IsKilled(w)
    /\ UNCHANGED <<clientVars, scriptVars, drained>>

\* Mutant: the script does not wait for the workers to end.
NextStepAtOnce ==
    /\ phase = "stopping" /\ AllTerminated
    /\ phase' = IF step = Len(Steps) THEN "over" ELSE "resetting"
    /\ step' = IF step = Len(Steps) THEN step ELSE step + 1
    /\ UNCHANGED <<vars, launched, killed, inherited, drained>>

\* Mutant: the loop runs once too often.
NextStepPastTheEnd ==
    /\ phase = "stopping" /\ AllTerminated
    /\ \A w \in Workers : proc[w] # "stopping"
    /\ phase' = IF step > Len(Steps) THEN "over" ELSE "resetting"
    /\ step' = step + 1
    /\ UNCHANGED <<vars, launched, killed, inherited, drained>>

NextStep ==
    /\ phase = "stopping" /\ AllTerminated
    /\ \A w \in Workers : proc[w] # "stopping"
    /\ phase' = IF step = Len(Steps) THEN "over" ELSE "resetting"
    /\ step' = IF step = Len(Steps) THEN step ELSE step + 1
    /\ UNCHANGED <<vars, launched, killed, inherited, drained>>

\* Mutant: the queue is purged.
DrainUnread ==
    /\ Fault("drain")
    /\ results' = handled
    /\ UNCHANGED <<db, calls, scripts, requests, orphans, workerVars, clientVars, scriptVars,
                   drained>>

\* basic_get with auto_ack, while the client may be waiting for that result.
Drain ==
    /\ Fault("drain")
    /\ \E r \in results \ handled : results' = results \ {r} /\ drained' = drained \cup {r}
    /\ UNCHANGED <<db, calls, scripts, requests, orphans, workerVars, clientVars, scriptVars>>

-----------------------------------------------------------------------------
Script ==
    \/ ResetAndSpawn \/ RunClient \/ KillVictim \/ ClientReturns \/ NextStep
    \/ \E w \in Workers : Terminate(w)

Waiting == Purge \/ PublishRequest \/ AllPublished \/ WaitReturns \/ Timeout

Pipeline ==
    \/ \E w \in Workers : Deliver(w) \/ Callback(w) \/ Exit(w)
    \/ Requeue \/ LateCall \/ Waiting \/ Collect \/ AckResult \/ ConsumerReturns

ScriptNext ==
    \/ Pipeline /\ UNCHANGED <<scriptVars, drained>>
    \/ Script
    \/ \E w \in Workers : ComeUp(w) \/ KillStraggler(w)
    \/ Drain

ScriptSpec == ScriptInit /\ [][ScriptNext]_allVars

\* The script goes on, the client's wait has a timeout, and so has the
\* script's for a worker to end.  No worker need ever come up, answer, or end
\* when it is told to, and nothing need be delivered.
ScriptFairness ==
    /\ WF_allVars(Script)
    /\ WF_allVars(Waiting /\ UNCHANGED <<scriptVars, drained>>)
    /\ WF_allVars(\E w \in Workers : KillStraggler(w))

FairScriptSpec == ScriptSpec /\ ScriptFairness

-----------------------------------------------------------------------------
ScriptTypeOK ==
    /\ TypeOK
    /\ phase \in {"resetting", "spawned", "running", "stopping", "over"}
    /\ step \in 1..Len(Steps)
    /\ launched \subseteq Workers /\ killed \subseteq Workers
    /\ drained \subseteq Results /\ inherited \subseteq Calls

\* What a step measures is its own workers' doing: since its reset no worker
\* of an earlier step has run a script, but for the calls which that worker
\* had under way when it was killed (scaling_sweep.py:5-9, 79-81).
Load(w) == db.nodes["indirect"][w.node_id]
CallsOf(w, some) == Cardinality({c \in some : c.by = w})

StepsDoNotMix ==
    phase # "resetting" =>
        \A w \in Workers \ StepWorkers : Load(w) <= CallsOf(w, inherited)

\* Workers can be removed between runs without touching the queue
\* (scaling_sweep.py:7-9): a step in which nothing failed ends with every
\* request answered once and acknowledged, and every result collected; only
\* the acknowledgement of the last one may be missing (client.py:121-123).
Undisturbed == \A k \in FaultKinds : faults[k] = 0

StepsLeaveNothing ==
    Undisturbed /\ phase \in {"resetting", "over"} =>
        /\ Held = {} /\ db.metrics["indirect"].replays = 0
        /\ Cardinality(results) <= 1
        /\ \A r \in results : collected[Op(r.of).request_id] = r.status

\* No result vanishes: what the client of this step did not get is still to
\* come, or is in the file of whoever drained the queue (results.py:5, 44-48).
Taken(c) == \E r \in drained : Op(r.of).request_id = c

NothingVanishes ==
    phase = "running" =>
        \A j \in 1..sent :
            LET c == Ops[j].request_id
            IN <<run, j>> \in Held \/ Answered(c) \/ Taken(c)

\* However late a request of an earlier step is served, on the same file it
\* tells the client of this step no more than the ledger of this step does
\* (scaling_sweep.py:68, 76, client.py:144).
StepAnswersMatchLedger ==
    phase \in {"running", "stopping"} /\ pc # "starting" =>
        /\ \A r \in results : r.status # "ERROR" => r.status = Outcome(db, Op(r.of))
        /\ \A p \in Purchases :
              collected[p.request_id] \in {"nil", "ERROR", Outcome(db, p)}

\* A killed worker carries no more load: what it had not acknowledged moves to
\* the survivors and the replacement (fault_tolerance_test.py:16, 148-150).
\* Only one script more can be credited to it, the one whose call it had under
\* way when it was killed.
LoadMovesOn ==
    [][phase = "running" =>
        \A w \in killed' :
            Load(w)' + CallsOf(w, calls')
                <= Load(w) + CallsOf(w, calls) + (IF w \in killed THEN 0 ELSE 1)]_allVars

\* The scripts end, whichever workers hang, die or never come up, because
\* neither the client nor the script waits for ever (scaling_sweep.py:48-52,
\* 73-78, client.py:173).
ScriptsEnd == <>(phase = "over")
=============================================================================
