---------------------------- MODULE WorkflowRun ----------------------------
(***************************************************************************)
(* One workflow run: the WorkflowRun row, its WorkflowRunStep rows, the    *)
(* service calls that queue it, and the deliveries of the                  *)
(* execute_workflow task that walk its steps.                              *)
(*                                                                         *)
(* Dispatch is at-least-once, so several deliveries may hold the run at    *)
(* once.  Every database statement is one atomic step; everything between  *)
(* two statements of a delivery is local to it.  What a step produced is   *)
(* named by the delivery that ran it.                                      *)
(***************************************************************************)
EXTENDS Naturals

CONSTANTS
  Delivery,    \* deliveries of the task, each handled once by one worker
  NoOutput,    \* what a row, or an attempt, holds for a step that produced nothing
  StepCount,   \* the pipeline is the steps 1..StepCount, in declared order
  Requires,    \* Requires[s]: the steps whose completion s needs
  FailSteps,   \* the steps with on_error = FAIL; the others CONTINUE
  Guarded,     \* the steps whose class overrides skip_when
  Adversity,   \* what the environment may do, a subset of Adversities
  MaxLost      \* bound: recorder writes that may be lost to a database error

Step == 1..StepCount

(***************************************************************************)
(* overlap    a second delivery may start while another is being handled   *)
(* crash      a worker may die, be cancelled, or fail a write of its own   *)
(* force      run_by_id(force=True) may release RUNNING rows               *)
(* drift      the stored definition may no longer compile at the worker    *)
(* lostwrite  a RunRecorder write may raise, and is then only logged       *)
(***************************************************************************)
Adversities == {"overlap", "crash", "force", "drift", "lostwrite"}

\* check_pipeline (runner.py:179) has accepted the pipeline: it has a step,
\* and a step requires earlier ones only.
ASSUME PipelineAssumption ==
  /\ StepCount \in Nat \ {0}
  /\ Requires \in [Step -> SUBSET Step]
  /\ \A s \in Step : \A r \in Requires[s] : r < s
  /\ FailSteps \subseteq Step
  /\ Guarded \subseteq Step

ASSUME EnvironmentAssumption ==
  /\ NoOutput \notin Delivery
  /\ Adversity \subseteq Adversities
  /\ MaxLost \in Nat

VARIABLES
  run,       \* the WorkflowRun row: status and outputs
  rows,      \* the WorkflowRunStep row of each step: status and output
  pc,        \* where each delivery is
  at,        \* the step each delivery's walk has reached
  recorded,  \* the outputs of COMPLETED rows each delivery read before walking
  outcome,   \* each delivery's own outcomes, by step
  lost       \* recorder writes lost so far

vars == <<run, rows, pc, at, recorded, outcome, lost>>

RunStatus == {"absent", "pending", "running", "completed", "failed"}
Settled   == {"completed", "failed", "skipped"}
RowStatus == {"absent", "running"} \cup Settled
Output    == Delivery \cup {NoOutput}

\* A delivery between reading the run and its last statement.
Active == {"opening", "opened", "walking", "claiming", "executing",
           "abandoning", "failing", "stamping"}
Ended  == {"done", "dead"}
Place  == {"idle", "queued"} \cup Active \cup Ended

NoRow == [status |-> "absent", output |-> NoOutput]

TypeOK ==
  /\ run \in [status : RunStatus, outputs : [Step -> Output]]
  /\ rows \in [Step -> [status : RowStatus, output : Output]]
  /\ pc \in [Delivery -> Place]
  /\ at \in [Delivery -> 1..(StepCount + 1)]
  /\ recorded \in [Delivery -> [Step -> Output]]
  /\ outcome \in [Delivery -> [Step -> {"none"} \cup Settled]]
  /\ lost \in 0..MaxLost

Init ==
  /\ run = [status |-> "absent", outputs |-> [s \in Step |-> NoOutput]]
  /\ rows = [s \in Step |-> NoRow]
  /\ pc = [d \in Delivery |-> "idle"]
  /\ at = [d \in Delivery |-> 1]
  /\ recorded = [d \in Delivery |-> [s \in Step |-> NoOutput]]
  /\ outcome = [d \in Delivery |-> [s \in Step |-> "none"]]
  /\ lost = 0

----------------------------------------------------------------------------
(* The service: queueing, resuming and redelivering the run.               *)

\* aenqueue puts one delivery on the queue.
Enqueue(d) ==
  /\ pc[d] = "idle"
  /\ pc' = [pc EXCEPT ![d] = "queued"]

\* WorkflowService.run, and run_by_id without a run_id: open_run creates the row
\* PENDING; the row stays, unqueued, if aenqueue raises.
StartRun ==
  /\ run.status = "absent"
  /\ run' = [run EXCEPT !.status = "pending"]
  /\ UNCHANGED pc \/ \E d \in Delivery : Enqueue(d)
  /\ UNCHANGED <<rows, at, recorded, outcome, lost>>

\* run_by_id with a run_id.  force releases every row still RUNNING.  The run's
\* own status is neither read nor written.  The rows stay released if aenqueue
\* then raises, or is slow.
ResumeRun(force) ==
  /\ run.status # "absent"
  /\ force => "force" \in Adversity
  /\ rows' = [s \in Step |-> IF force /\ rows[s].status = "running"
                             THEN [rows[s] EXCEPT !.status = "failed"]
                             ELSE rows[s]]
  /\ UNCHANGED pc \/ \E d \in Delivery : Enqueue(d)
  /\ UNCHANGED <<run, at, recorded, outcome, lost>>

\* The queue hands out again a task it has handed out before.
Redeliver ==
  /\ \E e \in Delivery : pc[e] \in Active \cup Ended
  /\ \E d \in Delivery : Enqueue(d)
  /\ UNCHANGED <<run, rows, at, recorded, outcome, lost>>

----------------------------------------------------------------------------
(* WorkflowExecutor.run up to the walk.                                    *)

\* Mutant of Fetch: a COMPLETED run is opened again.
FetchAlways(d) ==
  /\ pc[d] = "queued"
  /\ "overlap" \notin Adversity => \A e \in Delivery : pc[e] \notin Active
  /\ pc' = [pc EXCEPT ![d] = "opening"]
  /\ UNCHANGED <<run, rows, at, recorded, outcome, lost>>

\* The task reads the run row; a COMPLETED run is returned as it is.
Fetch(d) ==
  /\ pc[d] = "queued"
  /\ "overlap" \notin Adversity => \A e \in Delivery : pc[e] \notin Active
  /\ pc' = [pc EXCEPT ![d] = IF run.status = "completed" THEN "done" ELSE "opening"]
  /\ UNCHANGED <<run, rows, at, recorded, outcome, lost>>

\* _aopen writes RUNNING whatever the row says by now.  RunRecorder.on_run_start
\* then finds its own copy RUNNING and writes nothing.
Open(d) ==
  /\ pc[d] = "opening"
  /\ run' = [run EXCEPT !.status = "running"]
  /\ pc' = [pc EXCEPT ![d] = "opened"]
  /\ UNCHANGED <<rows, at, recorded, outcome, lost>>

\* compile_steps, compile_actions or validate_inputs raises: the executor stamps
\* the run itself, the runner never started.
FailToCompile(d) ==
  /\ pc[d] = "opened"
  /\ "drift" \in Adversity
  /\ pc' = [pc EXCEPT ![d] = "stamping"]
  /\ UNCHANGED <<run, rows, at, recorded, outcome, lost>>

\* _already_completed, once, before the walk.
ReadRecorded(d) ==
  /\ pc[d] = "opened"
  /\ recorded' = [recorded EXCEPT ![d] =
                    [s \in Step |-> IF rows[s].status = "completed"
                                    THEN rows[s].output ELSE NoOutput]]
  /\ pc' = [pc EXCEPT ![d] = "walking"]
  /\ UNCHANGED <<run, rows, at, outcome, lost>>

----------------------------------------------------------------------------
(* _StepRunner._walk: one step of the pipeline at a time.                  *)

IsRecorded(d, s) == recorded[d][s] # NoOutput

Missing(d, s)    == {r \in Requires[s] : outcome[d][r] # "completed"}

AtStep(d, place) == pc[d] = place /\ at[d] \in Step
Advance(d)       == at' = [at EXCEPT ![d] = @ + 1]

\* A recorder call that raises is logged by _notify and its write is lost.
LoseWrite ==
  /\ "lostwrite" \in Adversity
  /\ lost < MaxLost
  /\ lost' = lost + 1
  /\ UNCHANGED rows

\* RunRecorder.on_step_end: the upsert looks at nothing the row held before.
RecordStepEnd(d, s, status) ==
  \/ /\ rows' = [rows EXCEPT ![s] =
                   [status |-> status,
                    output |-> IF status = "completed" THEN d ELSE NoOutput]]
     /\ UNCHANGED lost
  \/ LoseWrite

\* _settle: the outcome on the attempt's own state, then the row.
Settle(d, s, status) ==
  /\ outcome' = [outcome EXCEPT ![d][s] = status]
  /\ RecordStepEnd(d, s, status)
  /\ UNCHANGED <<run, recorded>>

\* Mutant of Replay: the replayed step is settled like one that ran.
ReplaySettled(d) ==
  /\ AtStep(d, "walking")
  /\ IsRecorded(d, at[d])
  /\ Settle(d, at[d], "completed")
  /\ Advance(d)
  /\ UNCHANGED pc

\* A recorded step is replayed without a write.
Replay(d) ==
  /\ AtStep(d, "walking")
  /\ IsRecorded(d, at[d])
  /\ outcome' = [outcome EXCEPT ![d][at[d]] = "completed"]
  /\ Advance(d)
  /\ UNCHANGED <<run, rows, pc, recorded, lost>>

\* A step with a required step that did not complete, or with a reason of its
\* own not to run, is settled as skipped.
Skip(d) ==
  /\ AtStep(d, "walking")
  /\ ~IsRecorded(d, at[d])
  /\ Missing(d, at[d]) # {} \/ at[d] \in Guarded
  /\ Settle(d, at[d], "skipped")
  /\ Advance(d)
  /\ UNCHANGED pc

Runnable(d) ==
  /\ AtStep(d, "walking")
  /\ ~IsRecorded(d, at[d])
  /\ Missing(d, at[d]) = {}

\* skip_when is awaited outside the walk's own handler: it raises straight to
\* run(), and no step is settled.
SkipWhenRaises(d) ==
  /\ Runnable(d)
  /\ at[d] \in Guarded
  /\ pc' = [pc EXCEPT ![d] = "failing"]
  /\ UNCHANGED <<run, rows, at, recorded, outcome, lost>>

\* RunRecorder.on_step_start tries to create the row; one that exists sends it to
\* the conditional update.
ClaimInsert(d) ==
  /\ Runnable(d)
  /\ IF rows[at[d]].status = "absent"
     THEN /\ rows' = [rows EXCEPT ![at[d]] = [status |-> "running", output |-> NoOutput]]
          /\ pc' = [pc EXCEPT ![d] = "executing"]
     ELSE /\ pc' = [pc EXCEPT ![d] = "claiming"]
          /\ UNCHANGED rows
  /\ UNCHANGED <<run, at, recorded, outcome, lost>>

\* Mutants of Held: a row that is running may be claimed; a row that failed may
\* not be retried.
HeldWhenCompleted == {"completed"}

HeldWhenFailed == {"running", "completed", "failed"}

\* The row statuses the conditional update excludes.
Held == {"running", "completed"}

ClaimUpdate(d) ==
  /\ AtStep(d, "claiming")
  /\ rows[at[d]].status \notin Held
  /\ rows' = [rows EXCEPT ![at[d]] = [status |-> "running", output |-> NoOutput]]
  /\ pc' = [pc EXCEPT ![d] = "executing"]
  /\ UNCHANGED <<run, at, recorded, outcome, lost>>

\* StepAlreadyRunning ends the delivery; neither on_run_end nor the executor
\* writes anything for it.
Refuse(d) ==
  /\ AtStep(d, "claiming")
  /\ rows[at[d]].status \in Held
  /\ pc' = [pc EXCEPT ![d] = "done"]
  /\ UNCHANGED <<run, rows, at, recorded, outcome, lost>>

\* A claim that raises anything else is logged, and the step runs unclaimed.
ClaimLost(d) ==
  /\ Runnable(d) \/ AtStep(d, "claiming")
  /\ LoseWrite
  /\ pc' = [pc EXCEPT ![d] = "executing"]
  /\ UNCHANGED <<run, at, recorded, outcome>>

\* Mutant of FinishStep: the walk stops at a failed step before settling it.
StopUnsettled(d, status) ==
  /\ AtStep(d, "executing")
  /\ IF status = "failed" /\ at[d] \in FailSteps
     THEN /\ pc' = [pc EXCEPT ![d] = "abandoning"]
          /\ UNCHANGED <<run, rows, recorded, outcome, lost>>
     ELSE /\ Settle(d, at[d], status)
          /\ pc' = [pc EXCEPT ![d] = "walking"]
  /\ Advance(d)

\* step.run returns an outcome, or raises, which settles it as failed.  A failed
\* step with on_error FAIL stops the walk.
FinishStep(d, status) ==
  /\ AtStep(d, "executing")
  /\ Settle(d, at[d], status)
  /\ Advance(d)
  /\ pc' = [pc EXCEPT ![d] = IF status = "failed" /\ at[d] \in FailSteps
                             THEN "abandoning" ELSE "walking"]

\* _abandon settles each later step as skipped, except the recorded ones.
Abandon(d) ==
  /\ AtStep(d, "abandoning")
  /\ IF IsRecorded(d, at[d])
     THEN UNCHANGED <<run, rows, recorded, outcome, lost>>
     ELSE Settle(d, at[d], "skipped")
  /\ Advance(d)
  /\ UNCHANGED pc

\* Mutant of EndAbandon: the later steps are not all settled.
AbandonEarly(d) ==
  /\ pc[d] = "abandoning"
  /\ pc' = [pc EXCEPT ![d] = "failing"]
  /\ UNCHANGED <<run, rows, at, recorded, outcome, lost>>

EndAbandon(d) ==
  /\ pc[d] = "abandoning"
  /\ at[d] > StepCount
  /\ pc' = [pc EXCEPT ![d] = "failing"]
  /\ UNCHANGED <<run, rows, at, recorded, outcome, lost>>

----------------------------------------------------------------------------
(* The end of the run.                                                     *)

Stamp(status) == run' = [run EXCEPT !.status = status]

\* RunRecorder.on_run_end stamps FAILED as the exception leaves the runner.
RecordRunEnd(d) ==
  /\ pc[d] = "failing"
  /\ \/ Stamp("failed") /\ UNCHANGED <<rows, lost>>
     \/ LoseWrite /\ UNCHANGED run
  /\ pc' = [pc EXCEPT ![d] = "stamping"]
  /\ UNCHANGED <<at, recorded, outcome>>

\* The executor's own handler stamps it again, and the delivery is over.
StampFailed(d) ==
  /\ pc[d] = "stamping"
  /\ Stamp("failed")
  /\ pc' = [pc EXCEPT ![d] = "done"]
  /\ UNCHANGED <<rows, at, recorded, outcome, lost>>

\* Mutant of Published: a replayed step is published as this attempt's own.
PublishedAsOwn(d) ==
  [s \in Step |-> IF outcome[d][s] # "completed" THEN NoOutput ELSE d]

\* _published: what this attempt completed or replayed.
Published(d) ==
  [s \in Step |-> IF outcome[d][s] # "completed" THEN NoOutput
                  ELSE IF IsRecorded(d, s) THEN recorded[d][s] ELSE d]

StampCompleted(d) ==
  /\ pc[d] = "walking"
  /\ at[d] > StepCount
  /\ run' = [status |-> "completed", outputs |-> Published(d)]
  /\ pc' = [pc EXCEPT ![d] = "done"]
  /\ UNCHANGED <<rows, at, recorded, outcome, lost>>

\* The worker dies, its task is cancelled, or one of the executor's own writes
\* raises: nothing more is written for this delivery.
Crash(d) ==
  /\ "crash" \in Adversity
  /\ pc[d] \in Active
  /\ pc' = [pc EXCEPT ![d] = "dead"]
  /\ UNCHANGED <<run, rows, at, recorded, outcome, lost>>

----------------------------------------------------------------------------
Work(d) ==
  \/ Fetch(d) \/ Open(d) \/ FailToCompile(d) \/ ReadRecorded(d)
  \/ Replay(d) \/ Skip(d) \/ SkipWhenRaises(d)
  \/ ClaimInsert(d) \/ ClaimUpdate(d) \/ Refuse(d) \/ ClaimLost(d)
  \/ \E status \in Settled : FinishStep(d, status)
  \/ Abandon(d) \/ EndAbandon(d)
  \/ RecordRunEnd(d) \/ StampFailed(d) \/ StampCompleted(d)

Next ==
  \/ StartRun
  \/ \E force \in BOOLEAN : ResumeRun(force)
  \/ Redeliver
  \/ \E d \in Delivery : Work(d) \/ Crash(d)

Spec == Init /\ [][Next]_vars

\* A worker that has taken a delivery keeps at it, and a step's own work is assumed
\* to end (the repository bounds it only through the model's client).  Nobody has
\* to start, resume or redeliver anything.
FairSpec == Spec /\ \A d \in Delivery : WF_vars(Work(d))

----------------------------------------------------------------------------
(* Properties.                                                             *)

Executing(d, s) == pc[d] = "executing" /\ at[d] = s

\* No two deliveries are inside one step's run at the same time: what the claim
\* in RunRecorder.on_step_start is for (a claim that was lost is no claim).
OneHolder ==
  lost = 0 => \A s \in Step : \A d, e \in Delivery :
    Executing(d, s) /\ Executing(e, s) => d = e

\* A row left RUNNING always has its delivery: one inside the step, or one that
\* died there.  No error, skip or abandonment path of a live worker leaves a step
\* row RUNNING behind it, so force=True is only ever needed after a death.
RunningRowHasHolder ==
  lost = 0 =>
    \A s \in Step : rows[s].status = "running" =>
      \E d \in Delivery : at[d] = s /\ pc[d] \in {"executing", "dead"}

\* A COMPLETED run has a row for every declared step: a step that did not run is
\* a skipped row, not an absence.
CompletedRunFullyRecorded ==
  run.status = "completed" /\ lost = 0 =>
    \A s \in Step : rows[s].status # "absent"

\* The same of a FAILED run, once whoever stamped it is through.
FailedRunFullyRecorded ==
  run.status = "failed" /\ lost = 0 =>
    \A s \in Step : rows[s].status # "absent"

\* However a run ends, its rows are its full record.
EndedRunFullyRecorded == CompletedRunFullyRecorded /\ FailedRunFullyRecorded

\* A run marked RUNNING has a delivery at work on it, or one that died at work: a
\* refused duplicate stamps nothing because the delivery that holds the run will.
\* (A row left RUNNING by a lost write refuses a late duplicate for ever, which
\* has by then reopened the run.)
RunningRunHasWorker ==
  run.status = "running" /\ lost = 0 =>
    \E d \in Delivery : pc[d] \in Active \cup {"dead"}

\* The published outputs are those of the COMPLETED rows, each from the delivery
\* that row names, and nothing else.
OutputsMatchRows ==
  run.status = "completed" =>
    \A s \in Step : run.outputs[s] = IF rows[s].status = "completed"
                                     THEN rows[s].output ELSE NoOutput

\* Nothing is published whose required steps are not published with it.
OutputsClosed ==
  run.status = "completed" =>
    \A s \in Step : run.outputs[s] # NoOutput =>
      \A r \in Requires[s] : run.outputs[r] # NoOutput

\* What a COMPLETED run publishes: its completed rows, and no step without those
\* it read.
PublishedIsSound == OutputsMatchRows /\ OutputsClosed

\* A COMPLETED row is final: it is neither run again, nor overwritten, nor
\* re-dated by a later delivery.
CompletedRowIsFinal ==
  [][\A s \in Step : rows[s].status = "completed" => rows'[s] = rows[s]]_vars

\* A run that was opened is eventually stamped with how it ended, unless a write
\* of the recorder was lost.
RunSettles ==
  run.status = "running" ~> run.status \in {"completed", "failed"} \/ lost > 0

\* While no two deliveries are at work at once, the run keeps the promise of
\* module WorkflowPromise through every crash, release and redelivery, and no
\* later delivery touches a completed row.
Kept == [s \in Step |-> IF rows[s].status = "completed" THEN rows[s].output ELSE NoOutput]

PublishedAs == [done |-> run.status = "completed", outputs |-> run.outputs]

Promise == INSTANCE WorkflowPromise WITH kept <- Kept, published <- PublishedAs

KeepsPromise == Promise!Spec /\ CompletedRowIsFinal
=============================================================================
