------------------------- MODULE WorkflowRun_proofs -------------------------
(***************************************************************************)
(* Theorems about WorkflowRun, for every pipeline, every set of deliveries *)
(* and every adversity of the environment.                                 *)
(***************************************************************************)
EXTENDS WorkflowRun, TLAPS

\* The step a walk stands at is a step of the pipeline.
LEMMA StepFacts ==
  /\ Step \subseteq 1..(StepCount + 1)
  /\ \A n \in 1..(StepCount + 1) : n \in Step => n + 1 \in 1..(StepCount + 1)
  /\ \A n \in 1..(StepCount + 1) : n > StepCount <=> n \notin Step
BY PipelineAssumption DEF Step

\* A lost write counts towards the bound and leaves the rows alone.
LEMMA LoseWriteType ==
  ASSUME TypeOK, LoseWrite
  PROVE  rows' = rows /\ lost' \in 0..MaxLost /\ lost' # 0
BY EnvironmentAssumption DEF TypeOK, LoseWrite

\* A settled row has the status the outcome had, and a step's delivery as its
\* output when it completed.
LEMMA RecordStepEndType ==
  ASSUME TypeOK, NEW d \in Delivery, NEW s \in Step, NEW status \in Settled,
         RecordStepEnd(d, s, status)
  PROVE  /\ rows' \in [Step -> [status : RowStatus, output : Output]]
         /\ lost' \in 0..MaxLost
<1>1. CASE LoseWrite
  BY <1>1, LoseWriteType DEF TypeOK
<1>2. CASE ~LoseWrite
  <2> DEFINE row == [status |-> status, output |-> IF status = "completed" THEN d ELSE NoOutput]
  <2>1. row \in [status : RowStatus, output : Output]
    BY DEF RowStatus, Output
  <2>2. rows' = [rows EXCEPT ![s] = row] /\ lost' = lost
    BY <1>2 DEF RecordStepEnd
  <2> HIDE DEF row
  <2> QED
    BY <2>1, <2>2 DEF TypeOK
<1> QED
  BY <1>1, <1>2

\* Settling a step keeps every variable it may write within its type.
LEMMA SettleType ==
  ASSUME TypeOK, NEW d \in Delivery, NEW s \in Step, NEW status \in Settled,
         Settle(d, s, status)
  PROVE  /\ run' = run /\ recorded' = recorded
         /\ rows' \in [Step -> [status : RowStatus, output : Output]]
         /\ outcome' \in [Delivery -> [Step -> {"none"} \cup Settled]]
         /\ lost' \in 0..MaxLost
BY RecordStepEndType DEF Settle, TypeOK

\* Claiming a row keeps the rows within their type.
LEMMA ClaimType ==
  ASSUME TypeOK, NEW s \in Step,
         rows' = [rows EXCEPT ![s] = [status |-> "running", output |-> NoOutput]]
  PROVE  rows' \in [Step -> [status : RowStatus, output : Output]]
<1> DEFINE row == [status |-> "running", output |-> NoOutput]
<1>1. row \in [status : RowStatus, output : Output]
  BY DEF RowStatus, Output
<1>2. rows' = [rows EXCEPT ![s] = row]
  OBVIOUS
<1> HIDE DEF row
<1> QED
  BY <1>1, <1>2 DEF TypeOK

\* Type correctness: what every other proof stands on.
THEOREM TypeCorrect == Spec => []TypeOK
<1>1. Init => TypeOK
  BY PipelineAssumption, EnvironmentAssumption
     DEF Init, TypeOK, NoRow, RunStatus, RowStatus, Place, Output, Step
<1>2. TypeOK /\ [Next]_vars => TypeOK'
  <2> SUFFICES ASSUME TypeOK, [Next]_vars PROVE TypeOK'
    OBVIOUS
  <2> USE DEF TypeOK, RunStatus, RowStatus, Settled, Output, Place, Active, Ended
  <2>1. CASE StartRun
    BY <2>1 DEF StartRun, Enqueue
  <2>2. ASSUME NEW force \in BOOLEAN, ResumeRun(force) PROVE TypeOK'
    <3>1. \A s \in Step : [rows[s] EXCEPT !.status = "failed"] \in [status : RowStatus, output : Output]
      OBVIOUS
    <3>2. rows' \in [Step -> [status : RowStatus, output : Output]]
      BY <2>2, <3>1 DEF ResumeRun
    <3> QED
      BY <2>2, <3>2 DEF ResumeRun, Enqueue
  <2>3. CASE Redeliver
    BY <2>3 DEF Redeliver, Enqueue
  <2>4. ASSUME NEW d \in Delivery, Work(d) PROVE TypeOK'
    <3>1. CASE Fetch(d)
      BY <3>1 DEF Fetch
    <3>2. CASE Open(d)
      BY <3>2 DEF Open
    <3>3. CASE FailToCompile(d)
      BY <3>3 DEF FailToCompile
    <3>4. CASE ReadRecorded(d)
      BY <3>4 DEF ReadRecorded
    <3>5. CASE Replay(d)
      BY <3>5, StepFacts DEF Replay, AtStep, Advance
    <3>6. CASE Skip(d)
      BY <3>6, StepFacts, SettleType DEF Skip, AtStep, Advance
    <3>7. CASE SkipWhenRaises(d)
      BY <3>7 DEF SkipWhenRaises
    <3>8. CASE ClaimInsert(d)
      BY <3>8, ClaimType DEF ClaimInsert, Runnable, AtStep
    <3>9. CASE ClaimUpdate(d)
      BY <3>9, ClaimType DEF ClaimUpdate, AtStep
    <3>10. CASE Refuse(d)
      BY <3>10 DEF Refuse
    <3>11. CASE ClaimLost(d)
      BY <3>11, LoseWriteType DEF ClaimLost
    <3>12. ASSUME NEW status \in Settled, FinishStep(d, status) PROVE TypeOK'
      BY <3>12, StepFacts, SettleType DEF FinishStep, AtStep, Advance
    <3>13. CASE Abandon(d)
      BY <3>13, StepFacts, SettleType DEF Abandon, AtStep, Advance
    <3>14. CASE EndAbandon(d)
      BY <3>14 DEF EndAbandon
    <3>15. CASE RecordRunEnd(d)
      BY <3>15, LoseWriteType DEF RecordRunEnd, Stamp
    <3>16. CASE StampFailed(d)
      BY <3>16 DEF StampFailed, Stamp
    <3>17. CASE StampCompleted(d)
      BY <3>17 DEF StampCompleted, Published
    <3> QED
      BY <2>4, <3>1, <3>2, <3>3, <3>4, <3>5, <3>6, <3>7, <3>8, <3>9, <3>10,
         <3>11, <3>12, <3>13, <3>14, <3>15, <3>16, <3>17 DEF Work
  <2>5. ASSUME NEW d \in Delivery, Crash(d) PROVE TypeOK'
    BY <2>5 DEF Crash
  <2>6. CASE UNCHANGED vars
    BY <2>6 DEF vars
  <2> QED
    BY <2>1, <2>2, <2>3, <2>4, <2>5, <2>6 DEF Next
<1> QED
  BY <1>1, <1>2, PTL DEF Spec
----------------------------------------------------------------------------
(* A RUNNING row has its delivery.  RunningRowHasHolder is inductive given  *)
(* the types: a claim makes the row and the place together, and the only   *)
(* ways out of the place are the end of the step, which settles the row,   *)
(* and death, which keeps the delivery where it was.                       *)

\* A step that settles a row leaves no row RUNNING that was not RUNNING before.
LEMMA SettleRows ==
  ASSUME TypeOK, NEW d \in Delivery, NEW s \in Step, NEW status \in Settled,
         RecordStepEnd(d, s, status), lost' = 0
  PROVE  /\ lost = 0
         /\ rows'[s].status = status
         /\ \A t \in Step \ {s} : rows'[t] = rows[t]
<1>1. ~LoseWrite
  BY LoseWriteType
<1> QED
  BY <1>1 DEF RecordStepEnd, TypeOK

\* A step row left RUNNING is held by a delivery inside that step, or one that died
\* there (RunRecorder.on_step_start and on_step_end, _StepRunner._walk).
THEOREM RunningRowsAreHeld == Spec => []RunningRowHasHolder
<1>1. Init => RunningRowHasHolder
  BY DEF Init, RunningRowHasHolder, NoRow
<1>2. TypeOK /\ RunningRowHasHolder /\ [Next]_vars => RunningRowHasHolder'
  <2> SUFFICES ASSUME TypeOK, RunningRowHasHolder, [Next]_vars, lost' = 0,
                      NEW s \in Step, rows'[s].status = "running"
               PROVE  \E d \in Delivery : at'[d] = s /\ pc'[d] \in {"executing", "dead"}
    BY DEF RunningRowHasHolder
  <2> DEFINE Holds(d) == at[d] = s /\ pc[d] \in {"executing", "dead"}
  <2> USE DEF TypeOK
  \* A step that neither makes the row RUNNING nor moves a holder.
  <2>1. ASSUME lost = 0, rows[s].status = "running",
               \A d \in Delivery : Holds(d) => Holds(d)'
        PROVE  \E d \in Delivery : at'[d] = s /\ pc'[d] \in {"executing", "dead"}
    BY <2>1 DEF RunningRowHasHolder
  <2>2. CASE StartRun
    BY <2>1, <2>2 DEF StartRun, Enqueue
  <2>3. ASSUME NEW force \in BOOLEAN, ResumeRun(force)
        PROVE  \E d \in Delivery : at'[d] = s /\ pc'[d] \in {"executing", "dead"}
    <3>1. rows[s].status = "running" /\ lost = 0
      BY <2>3 DEF ResumeRun
    <3> QED
      BY <3>1, <2>1, <2>3 DEF ResumeRun, Enqueue
  <2>4. CASE Redeliver
    BY <2>1, <2>4 DEF Redeliver, Enqueue
  <2>5. ASSUME NEW e \in Delivery, Work(e)
        PROVE  \E d \in Delivery : at'[d] = s /\ pc'[d] \in {"executing", "dead"}
    <3>1. CASE Fetch(e)
      BY <2>1, <3>1 DEF Fetch
    <3>2. CASE Open(e)
      BY <2>1, <3>2 DEF Open
    <3>3. CASE FailToCompile(e)
      BY <2>1, <3>3 DEF FailToCompile
    <3>4. CASE ReadRecorded(e)
      BY <2>1, <3>4 DEF ReadRecorded
    <3>5. CASE Replay(e)
      BY <2>1, <3>5 DEF Replay, AtStep, Advance
    <3>6. CASE Skip(e)
      BY <2>1, <3>6, SettleRows DEF Skip, AtStep, Advance, Settle, Settled
    <3>7. CASE SkipWhenRaises(e)
      BY <2>1, <3>7 DEF SkipWhenRaises, Runnable, AtStep
    <3>8. CASE ClaimInsert(e)
      <4>1. CASE at[e] = s /\ rows[s].status = "absent"
        BY <3>8, <4>1 DEF ClaimInsert, Runnable, AtStep
      <4>2. CASE ~(at[e] = s /\ rows[s].status = "absent")
        <5>1. rows[s].status = "running" /\ lost = 0
          BY <3>8, <4>2 DEF ClaimInsert, Runnable, AtStep
        <5> QED
          BY <5>1, <2>1, <3>8 DEF ClaimInsert, Runnable, AtStep
      <4> QED
        BY <4>1, <4>2
    <3>9. CASE ClaimUpdate(e)
      <4>1. CASE at[e] = s
        BY <3>9, <4>1 DEF ClaimUpdate, AtStep
      <4>2. CASE at[e] # s
        BY <3>9, <4>2, <2>1 DEF ClaimUpdate, AtStep
      <4> QED
        BY <4>1, <4>2
    <3>10. CASE Refuse(e)
      BY <2>1, <3>10 DEF Refuse, AtStep
    <3>11. CASE ClaimLost(e)
      BY <3>11, LoseWriteType DEF ClaimLost
    <3>12. ASSUME NEW status \in Settled, FinishStep(e, status)
           PROVE  \E d \in Delivery : at'[d] = s /\ pc'[d] \in {"executing", "dead"}
      <4>1. at[e] \in Step /\ at[e] # s /\ rows'[s] = rows[s] /\ lost = 0
        BY <3>12, SettleRows DEF FinishStep, AtStep, Settle, Settled
      <4> QED
        BY <4>1, <2>1, <3>12 DEF FinishStep, Advance
    <3>13. CASE Abandon(e)
      BY <2>1, <3>13, SettleRows DEF Abandon, AtStep, Advance, Settle, Settled
    <3>14. CASE EndAbandon(e)
      BY <2>1, <3>14 DEF EndAbandon
    <3>15. CASE RecordRunEnd(e)
      BY <2>1, <3>15, LoseWriteType DEF RecordRunEnd, Stamp
    <3>16. CASE StampFailed(e)
      BY <2>1, <3>16 DEF StampFailed
    <3>17. CASE StampCompleted(e)
      BY <2>1, <3>17 DEF StampCompleted
    <3> QED
      BY <2>5, <3>1, <3>2, <3>3, <3>4, <3>5, <3>6, <3>7, <3>8, <3>9, <3>10,
         <3>11, <3>12, <3>13, <3>14, <3>15, <3>16, <3>17 DEF Work
  <2>6. ASSUME NEW e \in Delivery, Crash(e)
        PROVE  \E d \in Delivery : at'[d] = s /\ pc'[d] \in {"executing", "dead"}
    BY <2>1, <2>6 DEF Crash
  <2>7. CASE UNCHANGED vars
    BY <2>1, <2>7 DEF vars
  <2> QED
    BY <2>2, <2>3, <2>4, <2>5, <2>6, <2>7 DEF Next
<1> QED
  BY <1>1, <1>2, TypeCorrect, PTL DEF Spec
----------------------------------------------------------------------------
(* A finished walk has recorded every step.  Neither COMPLETED nor FAILED  *)
(* says so by itself: the invariant is that a delivery leaves a row behind *)
(* it for each step its walk has passed, and that what it took as recorded *)
(* has one; rows are never deleted.                                        *)

Present(s) == rows[s].status # "absent"

\* Without a skip_when that can raise and without a definition that no longer
\* compiles, a run can only fail by failing at a step.
OnlyStepsFail == Guarded = {} /\ "drift" \notin Adversity

WalkRecorded ==
  lost = 0 =>
    /\ \A d \in Delivery : pc[d] \in {"idle", "queued", "opening", "opened"} => at[d] = 1
    /\ \A d \in Delivery : \A s \in Step : IsRecorded(d, s) => Present(s)
    /\ \A d \in Delivery : pc[d] \in {"walking", "claiming", "executing", "abandoning"} =>
         \A s \in Step : s < at[d] => Present(s)
    /\ \A d \in Delivery : OnlyStepsFail /\ pc[d] \in {"failing", "stamping"} =>
         \A s \in Step : Present(s)
    /\ run.status = "completed" => \A s \in Step : Present(s)
    /\ OnlyStepsFail /\ run.status = "failed" => \A s \in Step : Present(s)

\* No step of the system deletes a row, and lost writes are never forgotten.
LEMMA RowsStay ==
  ASSUME TypeOK, [Next]_vars, lost' = 0
  PROVE  lost = 0 /\ \A s \in Step : Present(s) => Present(s)'
<1> USE DEF TypeOK, Present
<1>1. CASE StartRun
  BY <1>1 DEF StartRun
<1>2. ASSUME NEW force \in BOOLEAN, ResumeRun(force)
      PROVE  lost = 0 /\ \A s \in Step : Present(s) => Present(s)'
  BY <1>2 DEF ResumeRun
<1>3. CASE Redeliver
  BY <1>3 DEF Redeliver
<1>4. ASSUME NEW d \in Delivery, Crash(d)
      PROVE  lost = 0 /\ \A s \in Step : Present(s) => Present(s)'
  BY <1>4 DEF Crash
<1>5. CASE UNCHANGED vars
  BY <1>5 DEF vars
<1>6. ASSUME NEW d \in Delivery, Work(d)
      PROVE  lost = 0 /\ \A s \in Step : Present(s) => Present(s)'
  <2>1. CASE Skip(d)
    BY <2>1, SettleRows DEF Skip, AtStep, Settle, Settled
  <2>2. ASSUME NEW status \in Settled, FinishStep(d, status)
        PROVE  lost = 0 /\ \A s \in Step : Present(s) => Present(s)'
    <3>1. at[d] \in Step /\ RecordStepEnd(d, at[d], status) /\ status # "absent"
      BY <2>2 DEF FinishStep, AtStep, Settle, Settled
    <3> QED
      BY <3>1, SettleRows
  <2>3. CASE Abandon(d)
    BY <2>3, SettleRows DEF Abandon, AtStep, Settle, Settled
  <2>4. CASE ClaimInsert(d) \/ ClaimUpdate(d)
    <3>1. \/ rows' = rows
          \/ /\ at[d] \in Step
             /\ rows' = [rows EXCEPT ![at[d]] = [status |-> "running", output |-> NoOutput]]
      BY <2>4 DEF ClaimInsert, ClaimUpdate, Runnable, AtStep
    <3>2. lost = 0
      BY <2>4 DEF ClaimInsert, ClaimUpdate
    <3> QED
      BY <3>1, <3>2
  <2>5. CASE ClaimLost(d)
    BY <2>5, LoseWriteType DEF ClaimLost
  <2>6. CASE RecordRunEnd(d)
    BY <2>6, LoseWriteType DEF RecordRunEnd
  <2>7. CASE \/ Fetch(d) \/ Open(d) \/ FailToCompile(d) \/ ReadRecorded(d) \/ Replay(d)
             \/ SkipWhenRaises(d) \/ Refuse(d) \/ EndAbandon(d)
             \/ StampFailed(d) \/ StampCompleted(d)
    BY <2>7 DEF Fetch, Open, FailToCompile, ReadRecorded, Replay, SkipWhenRaises,
                Refuse, EndAbandon, StampFailed, StampCompleted
  <2> QED
    BY <1>6, <2>1, <2>2, <2>3, <2>4, <2>5, <2>6, <2>7 DEF Work
<1> QED
  BY <1>1, <1>2, <1>3, <1>4, <1>5, <1>6 DEF Next

\* A walk that has passed a step has left a row for it: the strengthening from
\* which both facts about finished runs follow.
LEMMA WalksRecord == Spec => []WalkRecorded
<1>1. Init => WalkRecorded
  BY PipelineAssumption DEF Init, WalkRecorded, IsRecorded
<1>2. TypeOK /\ WalkRecorded /\ [Next]_vars => WalkRecorded'
  <2> SUFFICES ASSUME TypeOK, WalkRecorded, [Next]_vars, lost' = 0
               PROVE  WalkRecorded'
    BY DEF WalkRecorded
  <2>0. lost = 0 /\ \A s \in Step : Present(s) => Present(s)'
    BY RowsStay
  <2> USE <2>0 DEF TypeOK, WalkRecorded, IsRecorded
  <2>1. CASE StartRun
    BY <2>1 DEF StartRun, Enqueue
  <2>2. ASSUME NEW force \in BOOLEAN, ResumeRun(force) PROVE WalkRecorded'
    <3>1. CASE pc' = pc
      BY <2>2, <3>1 DEF ResumeRun
    <3>2. CASE \E d \in Delivery : Enqueue(d)
      BY <2>2, <3>2 DEF ResumeRun, Enqueue
    <3> QED
      BY <2>2, <3>1, <3>2 DEF ResumeRun
  <2>3. CASE Redeliver
    BY <2>3 DEF Redeliver, Enqueue
  <2>4. ASSUME NEW d \in Delivery, Work(d) PROVE WalkRecorded'
    <3>1. CASE Fetch(d)
      BY <3>1 DEF Fetch
    <3>2. CASE Open(d)
      BY <3>2 DEF Open
    <3>3. CASE FailToCompile(d)
      BY <3>3 DEF FailToCompile, OnlyStepsFail
    <3>4. CASE ReadRecorded(d)
      <4>1. \A s \in Step : recorded'[d][s] # NoOutput => Present(s)
        BY <3>4 DEF ReadRecorded, Present
      <4>2. \A s \in Step : ~(s < at[d])
        BY <3>4 DEF ReadRecorded, Step
      <4> QED
        BY <3>4, <4>1, <4>2 DEF ReadRecorded
    <3>5. CASE Replay(d)
      <4>1. \A s \in Step : s < at'[d] => Present(s)
        BY <3>5 DEF Replay, AtStep, Advance, Step
      <4> QED
        BY <3>5, <4>1 DEF Replay, AtStep, Advance
    <3>6. CASE Skip(d)
      <4>1. rows'[at[d]].status # "absent"
        BY <3>6, SettleRows DEF Skip, AtStep, Settle, Settled
      <4>2. \A s \in Step : s < at'[d] => Present(s)'
        BY <3>6, <4>1 DEF Skip, AtStep, Advance, Step, Present
      <4> QED
        BY <3>6, <4>2 DEF Skip, AtStep, Advance, Settle
    <3>7. CASE SkipWhenRaises(d)
      BY <3>7 DEF SkipWhenRaises, OnlyStepsFail
    <3>8. CASE ClaimInsert(d)
      BY <3>8 DEF ClaimInsert, Runnable, AtStep
    <3>9. CASE ClaimUpdate(d)
      BY <3>9 DEF ClaimUpdate, AtStep
    <3>10. CASE Refuse(d)
      BY <3>10 DEF Refuse
    <3>11. CASE ClaimLost(d)
      BY <3>11, LoseWriteType DEF ClaimLost
    <3>12. ASSUME NEW status \in Settled, FinishStep(d, status) PROVE WalkRecorded'
      <4>1. rows'[at[d]].status # "absent"
        BY <3>12, SettleRows DEF FinishStep, AtStep, Settle, Settled
      <4>2. \A s \in Step : s < at'[d] => Present(s)'
        BY <3>12, <4>1 DEF FinishStep, AtStep, Advance, Step, Present
      <4> QED
        BY <3>12, <4>2 DEF FinishStep, AtStep, Advance, Settle
    <3>13. CASE Abandon(d)
      <4>1. rows'[at[d]].status # "absent"
        BY <3>13, SettleRows DEF Abandon, AtStep, Settle, Settled, Present
      <4>2. \A s \in Step : s < at'[d] => Present(s)'
        BY <3>13, <4>1 DEF Abandon, AtStep, Advance, Step, Present
      <4> QED
        BY <3>13, <4>2 DEF Abandon, AtStep, Advance, Settle
    <3>14. CASE EndAbandon(d)
      <4>1. \A s \in Step : s < at[d]
        BY <3>14, PipelineAssumption DEF EndAbandon, Step
      <4> QED
        BY <3>14, <4>1 DEF EndAbandon
    <3>15. CASE RecordRunEnd(d)
      BY <3>15, LoseWriteType DEF RecordRunEnd, Stamp
    <3>16. CASE StampFailed(d)
      BY <3>16 DEF StampFailed, Stamp
    <3>17. CASE StampCompleted(d)
      <4>1. \A s \in Step : s < at[d]
        BY <3>17, PipelineAssumption DEF StampCompleted, Step
      <4> QED
        BY <3>17, <4>1 DEF StampCompleted
    <3> QED
      BY <2>4, <3>1, <3>2, <3>3, <3>4, <3>5, <3>6, <3>7, <3>8, <3>9, <3>10,
         <3>11, <3>12, <3>13, <3>14, <3>15, <3>16, <3>17 DEF Work
  <2>5. ASSUME NEW d \in Delivery, Crash(d) PROVE WalkRecorded'
    BY <2>5 DEF Crash, Active
  <2>6. CASE UNCHANGED vars
    BY <2>6 DEF vars, Present
  <2> QED
    BY <2>1, <2>2, <2>3, <2>4, <2>5, <2>6 DEF Next
<1> QED
  BY <1>1, <1>2, TypeCorrect, PTL DEF Spec

\* A COMPLETED run has a row for every declared step (executor.run, _walk).
THEOREM CompletedRunsAreFullyRecorded == Spec => []CompletedRunFullyRecorded
<1>1. WalkRecorded => CompletedRunFullyRecorded
  BY DEF WalkRecorded, CompletedRunFullyRecorded, Present
<1> QED
  BY <1>1, WalksRecord, PTL

\* So has a FAILED one, as long as only steps can fail it: no skip_when that may
\* raise and no definition that stopped compiling (_abandon).
THEOREM EndedRunsAreFullyRecorded ==
  ASSUME OnlyStepsFail
  PROVE  Spec => []EndedRunFullyRecorded
<1>1. WalkRecorded => FailedRunFullyRecorded
  BY OnlyStepsFail DEF WalkRecorded, FailedRunFullyRecorded, Present
<1>2. WalkRecorded => CompletedRunFullyRecorded
  BY DEF WalkRecorded, CompletedRunFullyRecorded, Present
<1>3. WalkRecorded => EndedRunFullyRecorded
  BY <1>1, <1>2 DEF EndedRunFullyRecorded
<1> QED
  BY <1>3, WalksRecord, PTL
----------------------------------------------------------------------------
(* Deliveries one at a time.  While no two deliveries are at work at once   *)
(* and no recorder write is lost, the run keeps the promise of module       *)
(* WorkflowPromise.  SequentialInv is the inductive invariant: one delivery *)
(* at work; one not yet walking knows nothing; the completed rows are       *)
(* closed under what they require; what the delivery at work holds agrees   *)
(* with the rows, step by step; nothing is published before the run is      *)
(* COMPLETED, and then it is what the rows hold.                            *)

Sequential == Adversity \cap {"overlap", "lostwrite"} = {}

Done(s) == rows[s].status = "completed"

Walk  == {"walking", "claiming", "executing", "abandoning"}
Early == {"idle", "queued", "opening", "opened"}

OneAtWork ==
  \A d, e \in Delivery : pc[d] \in Active /\ pc[e] \in Active => d = e

FreshAttempt ==
  \A d \in Delivery : pc[d] \in Early =>
    /\ at[d] = 1
    /\ \A s \in Step : recorded[d][s] = NoOutput /\ outcome[d][s] = "none"

RowsSound ==
  \A s \in Step : Done(s) =>
    /\ rows[s].output # NoOutput
    /\ \A r \in Requires[s] : Done(r)

\* The steps behind the walk, the steps ahead of it, and the one it is at.
BehindAgrees(d) ==
  \A s \in Step : s < at[d] =>
    /\ pc[d] # "abandoning" => (outcome[d][s] = "completed" <=> Done(s))
    /\ Done(s) /\ ~IsRecorded(d, s) => rows[s].output = d

AheadAgrees(d) ==
  \A s \in Step : s >= at[d] =>
    /\ Done(s) => IsRecorded(d, s)
    /\ outcome[d][s] = "none"

AttemptAgrees ==
  \A d \in Delivery : pc[d] \in Walk =>
    /\ \A s \in Step : IsRecorded(d, s) => Done(s) /\ rows[s].output = recorded[d][s]
    /\ BehindAgrees(d)
    /\ AheadAgrees(d)
    /\ pc[d] \in {"claiming", "executing"} =>
         at[d] \in Step /\ ~IsRecorded(d, at[d]) /\ Missing(d, at[d]) = {}

PublishedOnce ==
  /\ run.status = "completed" => \A d \in Delivery : pc[d] \notin Active
  /\ run.outputs = IF run.status = "completed" THEN Kept ELSE [s \in Step |-> NoOutput]

SequentialInv ==
  OneAtWork /\ FreshAttempt /\ RowsSound /\ AttemptAgrees /\ PublishedOnce

\* The steps after the next one are after this one.
LEMMA LaterSteps ==
  \A n, s \in Step : s >= n + 1 => s >= n /\ s # n
BY PipelineAssumption DEF Step

\* Without lost writes, settling a step writes its row.
LEMMA SettleWrites ==
  ASSUME Sequential, TypeOK, NEW d \in Delivery, NEW s \in Step, NEW status \in Settled,
         Settle(d, s, status)
  PROVE  /\ run' = run /\ recorded' = recorded /\ lost' = lost
         /\ outcome' = [outcome EXCEPT ![d][s] = status]
         /\ rows'[s] = [status |-> status, output |-> IF status = "completed" THEN d ELSE NoOutput]
         /\ \A t \in Step \ {s} : rows'[t] = rows[t]
         /\ \A t \in Step : outcome'[d][t] = IF t = s THEN status ELSE outcome[d][t]
         /\ \A e \in Delivery \ {d} : outcome'[e] = outcome[e]
<1>1. ~LoseWrite
  BY DEF Sequential, LoseWrite
<1> DEFINE row == [status |-> status, output |-> IF status = "completed" THEN d ELSE NoOutput]
<1>2. rows' = [rows EXCEPT ![s] = row] /\ lost' = lost
  BY <1>1 DEF Settle, RecordStepEnd
<1>3. outcome' = [outcome EXCEPT ![d][s] = status] /\ run' = run /\ recorded' = recorded
  BY DEF Settle
<1> QED
  BY <1>2, <1>3 DEF TypeOK

\* A step of delivery d that changes nothing but its place and how the run is
\* marked: it may not start a second attempt, nor enter the walk without having
\* read the rows, nor mark the run COMPLETED.
LEMMA QuietStep ==
  ASSUME Sequential, TypeOK, TypeOK', SequentialInv,
         NEW d \in Delivery, NEW p \in Place,
         pc' = [pc EXCEPT ![d] = p],
         UNCHANGED <<rows, at, recorded, outcome>>,
         run'.outputs = run.outputs,
         run'.status = run.status \/ (run'.status # "completed" /\ pc[d] \in Active),
         p \in Active => \/ pc[d] \in Active
                         \/ run.status # "completed" /\ \A e \in Delivery : pc[e] \notin Active,
         p \in Early => pc[d] \in Early,
         p \in Walk => \/ p = "claiming" /\ Runnable(d)
                       \/ p = "executing" /\ pc[d] = "claiming"
  PROVE  SequentialInv'
<1> USE DEF SequentialInv, TypeOK
<1>1. OneAtWork'
  BY DEF OneAtWork
<1>2. FreshAttempt'
  BY DEF FreshAttempt, Early, Place, Active, Ended
<1>3. RowsSound'
  BY DEF RowsSound, Done
<1>4. AttemptAgrees'
  <2> SUFFICES ASSUME NEW e \in Delivery, pc'[e] \in Walk
               PROVE  /\ \A s \in Step : IsRecorded(e, s)' => Done(s)' /\ rows'[s].output = recorded'[e][s]
                      /\ BehindAgrees(e)'
                      /\ AheadAgrees(e)'
                      /\ pc'[e] \in {"claiming", "executing"} =>
                            at'[e] \in Step /\ ~IsRecorded(e, at[e])' /\ Missing(e, at[e])' = {}
    BY DEF AttemptAgrees
  <2>1. pc[e] \in Walk /\ (pc[e] # "abandoning" \/ pc'[e] = pc[e])
    BY DEF Walk, Runnable, AtStep
  <2>2. BehindAgrees(e)' /\ AheadAgrees(e)'
    BY <2>1 DEF AttemptAgrees, BehindAgrees, AheadAgrees, IsRecorded, Done, Walk
  <2>3. \A s \in Step : IsRecorded(e, s)' => Done(s)' /\ rows'[s].output = recorded'[e][s]
    BY <2>1 DEF AttemptAgrees, IsRecorded, Done
  <2>4. pc'[e] \in {"claiming", "executing"} =>
          at'[e] \in Step /\ ~IsRecorded(e, at[e])' /\ Missing(e, at[e])' = {}
    BY <2>1 DEF AttemptAgrees, IsRecorded, Missing, Runnable, AtStep
  <2> QED
    BY <2>2, <2>3, <2>4
<1>5. PublishedOnce'
  <2>1. Kept' = Kept
    BY DEF Kept
  <2>2. run'.status = "completed" <=> run.status = "completed"
    BY DEF PublishedOnce
  <2> QED
    BY <2>1, <2>2 DEF PublishedOnce
<1> QED
  BY <1>1, <1>2, <1>3, <1>4, <1>5

\* The service's calls: they queue a delivery, and release rows that are RUNNING.
LEMMA ServiceStep ==
  ASSUME Sequential, TypeOK, TypeOK', SequentialInv,
         UNCHANGED pc \/ \E d \in Delivery : Enqueue(d),
         UNCHANGED <<at, recorded, outcome>>,
         run'.outputs = run.outputs,
         run'.status = "completed" <=> run.status = "completed",
         \A s \in Step : rows'[s] = rows[s] \/ (~Done(s) /\ ~Done(s)')
  PROVE  SequentialInv'
<1> USE DEF SequentialInv, TypeOK
<1>0. \A e \in Delivery : /\ pc'[e] # pc[e] => pc'[e] = "queued" /\ pc[e] = "idle"
  BY DEF Enqueue
<1>1. OneAtWork'
  BY <1>0 DEF OneAtWork, Active
<1>2. FreshAttempt'
  BY <1>0 DEF FreshAttempt, Early
<1>3. \A s \in Step : Done(s)' = Done(s) /\ (Done(s) => rows'[s] = rows[s])
  BY DEF Done
<1>4. RowsSound'
  BY <1>3, PipelineAssumption DEF RowsSound
<1>5. AttemptAgrees'
  <2> SUFFICES ASSUME NEW e \in Delivery, pc'[e] \in Walk
               PROVE  /\ \A s \in Step : IsRecorded(e, s)' => Done(s)' /\ rows'[s].output = recorded'[e][s]
                      /\ BehindAgrees(e)'
                      /\ AheadAgrees(e)'
                      /\ pc'[e] \in {"claiming", "executing"} =>
                            at'[e] \in Step /\ ~IsRecorded(e, at[e])' /\ Missing(e, at[e])' = {}
    BY DEF AttemptAgrees
  <2>1. pc'[e] = pc[e] /\ pc[e] \in Walk
    BY <1>0 DEF Walk
  <2>2. BehindAgrees(e)' /\ AheadAgrees(e)'
    BY <1>3, <2>1 DEF AttemptAgrees, BehindAgrees, AheadAgrees, IsRecorded
  <2> QED
    BY <1>3, <2>1, <2>2 DEF AttemptAgrees, IsRecorded, Missing
<1>6. PublishedOnce'
  <2>1. Kept' = Kept
    BY <1>3 DEF Kept, Done
  <2> QED
    BY <1>0, <2>1 DEF PublishedOnce, Active
<1> QED
  BY <1>1, <1>2, <1>4, <1>5, <1>6

\* A delivery walking the steps is the only one at work, and the run has not been
\* published.
LEMMA WalkerAlone ==
  ASSUME TypeOK, SequentialInv, NEW d \in Delivery, pc[d] \in Active
  PROVE  /\ run.status # "completed"
         /\ \A e \in Delivery : e # d => pc[e] \notin Active
BY DEF SequentialInv, OneAtWork, PublishedOnce

\* A step of the delivery at work on the rows: it may write the row of step s, which
\* was not completed, and leaves the run alone.
LEMMA WalkStep ==
  ASSUME Sequential, TypeOK, TypeOK', SequentialInv,
         NEW d \in Delivery, pc[d] \in Active,
         pc' = [pc EXCEPT ![d] = pc'[d]], pc'[d] \in Walk,
         run' = run,
         \A e \in Delivery \ {d} : at'[e] = at[e] /\ recorded'[e] = recorded[e] /\ outcome'[e] = outcome[e],
         \A s \in Step : Done(s) => rows'[s] = rows[s],
         \A s \in Step : Done(s)' /\ ~Done(s) =>
           rows'[s].output # NoOutput /\ \A r \in Requires[s] : Done(r),
         \A s \in Step : IsRecorded(d, s)' => Done(s)' /\ rows'[s].output = recorded'[d][s],
         BehindAgrees(d)', AheadAgrees(d)',
         pc'[d] \in {"claiming", "executing"} =>
           at'[d] \in Step /\ ~IsRecorded(d, at[d])' /\ Missing(d, at[d])' = {}
  PROVE  SequentialInv'
<1> USE DEF SequentialInv, TypeOK
<1>0. /\ run.status # "completed"
      /\ \A e \in Delivery : e # d => pc[e] \notin Active /\ pc'[e] = pc[e]
  BY WalkerAlone
<1>1. OneAtWork'
  BY <1>0 DEF OneAtWork
<1>2. FreshAttempt'
  <2> SUFFICES ASSUME NEW e \in Delivery, pc'[e] \in Early
               PROVE  /\ at'[e] = 1
                      /\ \A s \in Step : recorded'[e][s] = NoOutput /\ outcome'[e][s] = "none"
    BY DEF FreshAttempt
  <2>1. e # d
    BY DEF Early, Walk
  <2> QED
    BY <1>0, <2>1 DEF FreshAttempt
<1>3. RowsSound'
  BY PipelineAssumption DEF RowsSound, Done
<1>4. AttemptAgrees'
  <2>1. \A e \in Delivery : pc'[e] \in Walk => e = d
    BY <1>0 DEF Walk, Active
  <2> QED
    BY <2>1 DEF AttemptAgrees
<1>5. PublishedOnce'
  BY <1>0 DEF PublishedOnce
<1> QED
  BY <1>1, <1>2, <1>3, <1>4, <1>5

\* Settling the step the walk is at, and going on: by a skip, an end or an abandonment.
LEMMA SettleStep ==
  ASSUME Sequential, TypeOK, TypeOK', SequentialInv,
         NEW d \in Delivery, NEW status \in Settled, NEW p \in Walk \ {"claiming", "executing"},
         pc[d] \in Walk, at[d] \in Step, ~IsRecorded(d, at[d]),
         status = "completed" => pc[d] # "abandoning" /\ Missing(d, at[d]) = {},
         pc[d] = "abandoning" => p = "abandoning",
         Settle(d, at[d], status), Advance(d), pc' = [pc EXCEPT ![d] = p]
  PROVE  SequentialInv'
<1> USE DEF TypeOK
<1>1. /\ at'[d] = at[d] + 1
      /\ \A s \in Step : IsRecorded(d, s)' = IsRecorded(d, s)
      /\ \A s \in Step \ {at[d]} : Done(s)' = Done(s) /\ rows'[s] = rows[s]
      /\ \A s \in Step : outcome'[d][s] = IF s = at[d] THEN status ELSE outcome[d][s]
      /\ rows'[at[d]].status = status
      /\ status = "completed" => rows'[at[d]].output = d
      /\ run' = run /\ recorded' = recorded
      /\ \A e \in Delivery \ {d} : outcome'[e] = outcome[e] /\ at'[e] = at[e]
  BY SettleWrites DEF Advance, IsRecorded, Done
<1>2. /\ BehindAgrees(d) /\ AheadAgrees(d)
      /\ \A s \in Step : IsRecorded(d, s) => Done(s) /\ rows[s].output = recorded[d][s]
  BY DEF SequentialInv, AttemptAgrees
<1>3. ~Done(at[d])
  BY <1>2 DEF AheadAgrees, Step
<1>4. BehindAgrees(d)'
  BY <1>1, <1>2, <1>3 DEF BehindAgrees, Step, Done, Settled
<1>5. AheadAgrees(d)'
  BY <1>1, <1>2, LaterSteps DEF AheadAgrees
<1>6. \A s \in Step : IsRecorded(d, s)' => Done(s)' /\ rows'[s].output = recorded'[d][s]
  BY <1>1, <1>2
<1>7. status = "completed" => \A r \in Requires[at[d]] : Done(r)
  <2> SUFFICES ASSUME status = "completed", NEW r \in Requires[at[d]] PROVE Done(r)
    OBVIOUS
  <2>1. r \in Step /\ r < at[d]
    BY PipelineAssumption
  <2>2. outcome[d][r] = "completed" /\ pc[d] # "abandoning"
    BY DEF Missing
  <2> QED
    BY <2>1, <2>2, <1>2 DEF BehindAgrees
<1>8. pc[d] \in Active /\ p \in Walk /\ pc'[d] = p
  BY DEF Active, Walk
<1>9. \A s \in Step : Done(s)' /\ ~Done(s) => rows'[s].output # NoOutput /\ \A r \in Requires[s] : Done(r)
  BY <1>1, <1>7, EnvironmentAssumption DEF Done
<1> QED
  BY <1>1, <1>3, <1>4, <1>5, <1>6, <1>8, <1>9, WalkStep

\* Claiming the row of the step the walk is at, a row that is not COMPLETED.
LEMMA ClaimStep ==
  ASSUME Sequential, TypeOK, TypeOK', SequentialInv,
         NEW d \in Delivery, pc[d] \in {"walking", "claiming"}, at[d] \in Step,
         ~IsRecorded(d, at[d]), Missing(d, at[d]) = {}, ~Done(at[d]),
         rows' = [rows EXCEPT ![at[d]] = [status |-> "running", output |-> NoOutput]],
         pc' = [pc EXCEPT ![d] = "executing"],
         UNCHANGED <<run, at, recorded, outcome>>
  PROVE  SequentialInv'
<1> USE DEF TypeOK
<1>1. /\ \A s \in Step : IsRecorded(d, s)' = IsRecorded(d, s)
      /\ \A s \in Step \ {at[d]} : rows'[s] = rows[s]
      /\ rows'[at[d]].status = "running"
      /\ pc'[d] = "executing" /\ pc[d] \in Walk /\ pc[d] \in Active
      /\ Missing(d, at[d])' = {} /\ ~IsRecorded(d, at[d])'
  BY DEF IsRecorded, Walk, Active, Missing
<1>2. \A s \in Step : Done(s)' = Done(s) /\ (Done(s) => rows'[s] = rows[s])
  BY <1>1 DEF Done
<1>3. /\ BehindAgrees(d) /\ AheadAgrees(d)
      /\ \A s \in Step : IsRecorded(d, s) => Done(s) /\ rows[s].output = recorded[d][s]
  BY <1>1 DEF SequentialInv, AttemptAgrees
<1>4. BehindAgrees(d)' /\ AheadAgrees(d)'
  BY <1>1, <1>2, <1>3 DEF BehindAgrees, AheadAgrees
<1> QED
  BY <1>1, <1>2, <1>3, <1>4, WalkStep DEF Walk

\* At the end of the walk, what the attempt publishes is what the rows hold.
LEMMA PublishesKept ==
  ASSUME TypeOK, SequentialInv, NEW d \in Delivery, StampCompleted(d)
  PROVE  Published(d) = Kept
<1> SUFFICES ASSUME NEW s \in Step PROVE Published(d)[s] = Kept[s]
  BY DEF Published, Kept
<1>1. s < at[d]
  BY PipelineAssumption DEF StampCompleted, TypeOK, Step
<1>2. BehindAgrees(d) /\ pc[d] = "walking"
      /\ (IsRecorded(d, s) => rows[s].output = recorded[d][s])
  BY DEF StampCompleted, SequentialInv, AttemptAgrees, Walk
<1> QED
  BY <1>1, <1>2 DEF BehindAgrees, Published, Kept, Done

LEMMA PublishStep ==
  ASSUME TypeOK, TypeOK', SequentialInv, NEW d \in Delivery, StampCompleted(d)
  PROVE  SequentialInv'
<1> USE DEF TypeOK
<1>1. /\ pc[d] = "walking" /\ pc' = [pc EXCEPT ![d] = "done"]
      /\ UNCHANGED <<rows, at, recorded, outcome>>
      /\ run' = [status |-> "completed", outputs |-> Kept]
  BY PublishesKept DEF StampCompleted
<1>2. \A e \in Delivery : pc'[e] \notin Active
  BY <1>1, WalkerAlone DEF Active
<1>3. OneAtWork' /\ AttemptAgrees'
  BY <1>2 DEF OneAtWork, AttemptAgrees, Active, Walk
<1>4. FreshAttempt'
  BY <1>1 DEF SequentialInv, FreshAttempt, Early
<1>5. RowsSound'
  BY <1>1 DEF SequentialInv, RowsSound, Done
<1>6. PublishedOnce'
  BY <1>1, <1>2 DEF PublishedOnce, Kept
<1> QED
  BY <1>3, <1>4, <1>5, <1>6 DEF SequentialInv

\* Every step of the system keeps the invariant.
LEMMA SequentialStep ==
  ASSUME Sequential, TypeOK, TypeOK', SequentialInv, [Next]_vars
  PROVE  SequentialInv'
<1>0. ~LoseWrite
  BY DEF Sequential, LoseWrite
<1>1. CASE StartRun
  BY <1>1, ServiceStep DEF StartRun, TypeOK
<1>2. ASSUME NEW force \in BOOLEAN, ResumeRun(force) PROVE SequentialInv'
  <2>1. \A s \in Step : rows'[s] = rows[s] \/ (~Done(s) /\ ~Done(s)')
    BY <1>2 DEF ResumeRun, TypeOK, Done
  <2> QED
    BY <1>2, <2>1, ServiceStep DEF ResumeRun
<1>3. CASE Redeliver
  BY <1>3, ServiceStep DEF Redeliver
<1>4. ASSUME NEW d \in Delivery, Crash(d) PROVE SequentialInv'
  BY <1>4, QuietStep DEF Crash, Place, Ended, Active, Early, Walk
<1>5. CASE UNCHANGED vars
  BY <1>5, ServiceStep DEF vars, Done
<1>6. ASSUME NEW d \in Delivery, Work(d) PROVE SequentialInv'
  <2> USE DEF TypeOK
  <2>1. CASE Fetch(d)
    BY <2>1, QuietStep DEF Sequential, Fetch, Place, Ended, Active, Early, Walk
  <2>2. CASE Open(d)
    BY <2>2, QuietStep DEF Open, Place, Ended, Active, Early, Walk
  <2>3. CASE FailToCompile(d)
    BY <2>3, QuietStep DEF FailToCompile, Place, Ended, Active, Early, Walk
  <2>4. CASE ReadRecorded(d)
    <3>1. /\ pc[d] = "opened" /\ at[d] = 1
          /\ \A s \in Step : outcome[d][s] = "none"
      BY <2>4 DEF ReadRecorded, SequentialInv, FreshAttempt, Early
    <3>2. \A s \in Step : recorded'[d][s] = IF Done(s) THEN rows[s].output ELSE NoOutput
      BY <2>4 DEF ReadRecorded, Done
    <3>3. \A s \in Step : Done(s)' = Done(s) /\ (Done(s) => rows[s].output # NoOutput)
      BY <2>4 DEF ReadRecorded, Done, SequentialInv, RowsSound
    <3>4. BehindAgrees(d)' /\ AheadAgrees(d)'
      BY <2>4, <3>1, <3>2, <3>3 DEF ReadRecorded, BehindAgrees, AheadAgrees, IsRecorded, Step
    <3> QED
      BY <2>4, <3>1, <3>2, <3>3, <3>4, WalkStep DEF ReadRecorded, IsRecorded, Active, Walk
  <2>5. CASE Replay(d)
    <3>1. /\ pc[d] = "walking" /\ at[d] \in Step /\ at'[d] = at[d] + 1
          /\ \A s \in Step : IsRecorded(d, s)' = IsRecorded(d, s)
          /\ \A s \in Step : Done(s)' = Done(s)
          /\ \A s \in Step : outcome'[d][s] = IF s = at[d] THEN "completed" ELSE outcome[d][s]
      BY <2>5 DEF Replay, AtStep, Advance, IsRecorded, Done
    <3>2. IsRecorded(d, at[d]) /\ Done(at[d])
      BY <2>5, <3>1 DEF Replay, SequentialInv, AttemptAgrees, Walk
    <3>3. BehindAgrees(d)
      BY <3>1 DEF SequentialInv, AttemptAgrees, Walk
    <3>4. BehindAgrees(d)'
      BY <2>5, <3>1, <3>2, <3>3 DEF Replay, BehindAgrees, Step
    <3>5. AheadAgrees(d)'
      <4>1. AheadAgrees(d)
        BY <3>1 DEF SequentialInv, AttemptAgrees, Walk
      <4> QED
        BY <3>1, <4>1, LaterSteps DEF AheadAgrees
    <3>6. \A s \in Step : IsRecorded(d, s) => Done(s) /\ rows[s].output = recorded[d][s]
      BY <3>1 DEF SequentialInv, AttemptAgrees, Walk
    <3>7. /\ pc'[d] = "walking" /\ pc[d] \in Active /\ UNCHANGED <<run, rows, pc, recorded>>
          /\ \A e \in Delivery \ {d} : at'[e] = at[e] /\ outcome'[e] = outcome[e]
      BY <2>5 DEF Replay, AtStep, Advance, Active
    <3> QED
      BY <3>1, <3>4, <3>5, <3>6, <3>7, WalkStep DEF Walk
  <2>6. CASE Skip(d)
    BY <2>6, SettleStep DEF Skip, AtStep, Walk, Settled
  <2>7. CASE SkipWhenRaises(d)
    BY <2>7, QuietStep DEF SkipWhenRaises, Runnable, AtStep, Place, Ended, Active, Early, Walk
  <2>8. CASE ClaimInsert(d)
    <3>1. CASE rows[at[d]].status # "absent"
      BY <2>8, <3>1, QuietStep DEF ClaimInsert, Runnable, AtStep, Place, Ended, Active, Early, Walk
    <3>2. CASE rows[at[d]].status = "absent"
      BY <2>8, <3>2, ClaimStep DEF ClaimInsert, Runnable, AtStep, Walk, Done
    <3> QED
      BY <3>1, <3>2
  <2>9. CASE ClaimUpdate(d)
    <3>1. ~IsRecorded(d, at[d]) /\ Missing(d, at[d]) = {}
      BY <2>9 DEF ClaimUpdate, AtStep, SequentialInv, AttemptAgrees, Walk
    <3> QED
      BY <2>9, <3>1, ClaimStep DEF ClaimUpdate, AtStep, Walk, Done, Held
  <2>10. CASE Refuse(d)
    BY <2>10, QuietStep DEF Refuse, AtStep, Place, Ended, Active, Early, Walk
  <2>11. CASE ClaimLost(d)
    BY <2>11, <1>0 DEF ClaimLost
  <2>12. ASSUME NEW status \in Settled, FinishStep(d, status) PROVE SequentialInv'
    <3>1. ~IsRecorded(d, at[d]) /\ Missing(d, at[d]) = {}
      BY <2>12 DEF FinishStep, AtStep, SequentialInv, AttemptAgrees, Walk
    <3> QED
      BY <2>12, <3>1, SettleStep DEF FinishStep, AtStep, Walk
  <2>13. CASE Abandon(d)
    <3>1. CASE ~IsRecorded(d, at[d])
      <4>1. pc' = [pc EXCEPT ![d] = "abandoning"]
        BY <2>13 DEF Abandon, AtStep
      <4> QED
        BY <2>13, <3>1, <4>1, SettleStep DEF Abandon, AtStep, Walk, Settled
    <3>2. CASE IsRecorded(d, at[d])
      <4>1. /\ pc[d] = "abandoning" /\ pc' = pc /\ at[d] \in Step /\ at'[d] = at[d] + 1
            /\ UNCHANGED <<run, rows, recorded, outcome>>
            /\ \A s \in Step : IsRecorded(d, s)' = IsRecorded(d, s)
            /\ \A s \in Step : Done(s)' = Done(s)
            /\ \A e \in Delivery \ {d} : at'[e] = at[e]
        BY <2>13, <3>2 DEF Abandon, AtStep, Advance, IsRecorded, Done
      <4>2. /\ BehindAgrees(d) /\ AheadAgrees(d)
            /\ \A s \in Step : IsRecorded(d, s) => Done(s) /\ rows[s].output = recorded[d][s]
        BY <4>1 DEF SequentialInv, AttemptAgrees, Walk
      <4>3. BehindAgrees(d)'
        BY <3>2, <4>1, <4>2 DEF BehindAgrees, Step
      <4>4. AheadAgrees(d)'
        BY <4>1, <4>2 DEF AheadAgrees, Step
      <4> QED
        BY <4>1, <4>2, <4>3, <4>4, WalkStep DEF Walk, Active
    <3> QED
      BY <3>1, <3>2
  <2>14. CASE EndAbandon(d)
    BY <2>14, QuietStep DEF EndAbandon, Place, Ended, Active, Early, Walk
  <2>15. CASE RecordRunEnd(d)
    <3>1. pc[d] \in Active /\ UNCHANGED <<rows, at, recorded, outcome>>
          /\ run' = [run EXCEPT !.status = "failed"] /\ pc' = [pc EXCEPT ![d] = "stamping"]
      BY <2>15, <1>0 DEF RecordRunEnd, Active, Stamp
    <3> QED
      BY <3>1, QuietStep DEF Place, Ended, Active, Early, Walk
  <2>16. CASE StampFailed(d)
    BY <2>16, QuietStep DEF StampFailed, Stamp, Place, Ended, Active, Early, Walk
  <2>17. CASE StampCompleted(d)
    BY <2>17, PublishStep
  <2> QED
    BY <1>6, <2>1, <2>2, <2>3, <2>4, <2>5, <2>6, <2>7, <2>8, <2>9, <2>10, <2>11, <2>12,
       <2>13, <2>14, <2>15, <2>16, <2>17 DEF Work
<1> QED
  BY <1>1, <1>2, <1>3, <1>4, <1>5, <1>6 DEF Next

\* What the deliveries, taken one at a time, always agree on.
LEMMA SequentialRuns ==
  ASSUME Sequential
  PROVE  Spec => []SequentialInv
<1>1. Init => SequentialInv
  <2> SUFFICES ASSUME Init PROVE SequentialInv
    OBVIOUS
  <2>1. OneAtWork /\ AttemptAgrees
    BY DEF Init, OneAtWork, AttemptAgrees, Active, Walk
  <2>2. FreshAttempt
    BY DEF Init, FreshAttempt
  <2>3. RowsSound
    BY DEF Init, RowsSound, Done, NoRow
  <2>4. PublishedOnce
    BY DEF Init, PublishedOnce, Kept, NoRow
  <2> QED
    BY <2>1, <2>2, <2>3, <2>4 DEF SequentialInv
<1>2. TypeOK /\ TypeOK' /\ SequentialInv /\ [Next]_vars => SequentialInv'
  BY SequentialStep
<1> QED
  BY <1>1, <1>2, TypeCorrect, PTL DEF Spec

\* A COMPLETED run publishes its completed rows, each from the delivery that row
\* names, and no step without those it required (_StepRunner._published, stamped by
\* WorkflowExecutor.run): through any crashes, releases and redeliveries, while no
\* two deliveries are at work at once and no recorder write is lost.
THEOREM PublishedRunsAreSound ==
  ASSUME Sequential
  PROVE  Spec => []PublishedIsSound
<1>1. TypeOK /\ SequentialInv => PublishedIsSound
  <2> SUFFICES ASSUME TypeOK, SequentialInv PROVE PublishedIsSound
    OBVIOUS
  <2>1. OutputsMatchRows
    BY DEF OutputsMatchRows, SequentialInv, PublishedOnce, Kept
  <2>2. OutputsClosed
    <3> SUFFICES ASSUME run.status = "completed", NEW s \in Step, run.outputs[s] # NoOutput,
                        NEW r \in Requires[s]
                 PROVE  run.outputs[r] # NoOutput
      BY DEF OutputsClosed
    <3>1. r \in Step
      BY PipelineAssumption
    <3>2. Done(s)
      BY <2>1 DEF OutputsMatchRows, Done
    <3>3. Done(r) /\ rows[r].output # NoOutput
      BY <3>1, <3>2 DEF SequentialInv, RowsSound
    <3> QED
      BY <2>1, <3>1, <3>3 DEF OutputsMatchRows, Done
  <2> QED
    BY <2>1, <2>2 DEF PublishedIsSound
<1> QED
  BY <1>1, SequentialRuns, TypeCorrect, PTL

\* A step that completes no row, changes no completed one and publishes nothing.
LEMMA PromiseStutters ==
  ASSUME run'.outputs = run.outputs,
         run'.status = "completed" <=> run.status = "completed",
         \A s \in Step : rows'[s] = rows[s] \/ (~Done(s) /\ ~Done(s)')
  PROVE  /\ [Promise!Next]_(Promise!promise)
         /\ \A s \in Step : Done(s) => rows'[s] = rows[s]
<1>1. \A s \in Step : Done(s)' = Done(s) /\ (Done(s) => rows'[s] = rows[s])
  BY DEF Done
<1>2. Kept' = Kept
  BY <1>1 DEF Kept, Done
<1>3. PublishedAs' = PublishedAs
  BY DEF PublishedAs
<1> QED
  BY <1>1, <1>2, <1>3 DEF Promise!promise

\* Settling a step is completing it, or nothing.
LEMMA PromiseSettles ==
  ASSUME Sequential, TypeOK, TypeOK', SequentialInv,
         NEW d \in Delivery, NEW status \in Settled,
         pc[d] \in Walk, at[d] \in Step, ~IsRecorded(d, at[d]),
         status = "completed" => pc[d] # "abandoning" /\ Missing(d, at[d]) = {},
         Settle(d, at[d], status)
  PROVE  /\ [Promise!Next]_(Promise!promise)
         /\ \A s \in Step : Done(s) => rows'[s] = rows[s]
<1> USE DEF TypeOK
<1>1. /\ rows'[at[d]].status = status
      /\ status = "completed" => rows'[at[d]].output = d
      /\ run' = run
      /\ \A s \in Step \ {at[d]} : rows'[s] = rows[s]
  BY SettleWrites
<1>2. BehindAgrees(d) /\ AheadAgrees(d)
  BY DEF SequentialInv, AttemptAgrees
<1>3. ~Done(at[d])
  BY <1>2 DEF AheadAgrees, Step
<1>4. CASE status # "completed"
  BY <1>1, <1>3, <1>4, PromiseStutters DEF Done
<1>5. CASE status = "completed"
  <2>1. ~PublishedAs.done /\ PublishedAs' = PublishedAs
    BY <1>1, WalkerAlone DEF PublishedAs, Walk, Active
  <2>2. Kept[at[d]] = NoOutput
    BY <1>3 DEF Kept, Done
  <2>3. ASSUME NEW r \in Requires[at[d]] PROVE Kept[r] # NoOutput
    <3>1. r \in Step /\ r < at[d] /\ outcome[d][r] = "completed"
      BY <1>5, PipelineAssumption DEF Missing
    <3>2. Done(r)
      BY <1>2, <1>5, <3>1 DEF BehindAgrees
    <3> QED
      BY <3>1, <3>2 DEF Kept, Done, SequentialInv, RowsSound
  <2>4. Kept' = [Kept EXCEPT ![at[d]] = d]
    BY <1>1, <1>3, <1>5 DEF Kept, Done
  <2>5. d \in Output \ {NoOutput}
    BY EnvironmentAssumption DEF Output
  <2>6. Promise!Complete(at[d])
    BY <2>1, <2>2, <2>3, <2>4, <2>5 DEF Promise!Complete
  <2>7. Promise!Next
    BY <2>6 DEF Promise!Next
  <2> QED
    BY <1>1, <1>3, <2>7
<1> QED
  BY <1>4, <1>5

\* Each step of the system is a step of the promise, or none of its business.
LEMMA PromiseStep ==
  ASSUME Sequential, TypeOK, TypeOK', SequentialInv, [Next]_vars
  PROVE  /\ [Promise!Next]_(Promise!promise)
         /\ \A s \in Step : Done(s) => rows'[s] = rows[s]
<1> DEFINE Goal == /\ [Promise!Next]_(Promise!promise)
                   /\ \A s \in Step : Done(s) => rows'[s] = rows[s]
<1> USE DEF TypeOK
<1>0. ~LoseWrite
  BY DEF Sequential, LoseWrite
<1>1. CASE StartRun
  BY <1>1, PromiseStutters DEF StartRun
<1>2. ASSUME NEW force \in BOOLEAN, ResumeRun(force) PROVE Goal
  <2>1. \A s \in Step : rows'[s] = rows[s] \/ (~Done(s) /\ ~Done(s)')
    BY <1>2 DEF ResumeRun, Done
  <2> QED
    BY <1>2, <2>1, PromiseStutters DEF ResumeRun
<1>3. CASE Redeliver
  BY <1>3, PromiseStutters DEF Redeliver
<1>4. ASSUME NEW d \in Delivery, Crash(d) PROVE Goal
  BY <1>4, PromiseStutters DEF Crash
<1>5. CASE UNCHANGED vars
  BY <1>5, PromiseStutters DEF vars
<1>6. ASSUME NEW d \in Delivery, Work(d) PROVE Goal
  <2>1. pc[d] \in Active => run.status # "completed"
    BY WalkerAlone
  <2>2. CASE \/ Fetch(d) \/ FailToCompile(d) \/ ReadRecorded(d) \/ Replay(d)
             \/ SkipWhenRaises(d) \/ Refuse(d) \/ EndAbandon(d)
    BY <2>2, PromiseStutters
       DEF Fetch, FailToCompile, ReadRecorded, Replay, SkipWhenRaises, Refuse, EndAbandon
  <2>3. CASE Open(d) \/ StampFailed(d) \/ RecordRunEnd(d)
    <3>1. /\ run'.outputs = run.outputs
          /\ rows' = rows
          /\ run'.status = "completed" <=> run.status = "completed"
      BY <2>1, <2>3, <1>0 DEF Open, StampFailed, RecordRunEnd, Stamp, Active
    <3> QED
      BY <3>1, PromiseStutters
  <2>4. CASE Skip(d)
    BY <2>4, PromiseSettles DEF Skip, AtStep, Walk, Settled
  <2>5. CASE ClaimInsert(d) \/ ClaimUpdate(d)
    <3>1. \A s \in Step : rows'[s] = rows[s] \/ (~Done(s) /\ ~Done(s)')
      BY <2>5 DEF ClaimInsert, ClaimUpdate, Runnable, AtStep, Held, Done
    <3> QED
      BY <2>5, <3>1, PromiseStutters DEF ClaimInsert, ClaimUpdate
  <2>6. CASE ClaimLost(d)
    BY <2>6, <1>0 DEF ClaimLost
  <2>7. ASSUME NEW status \in Settled, FinishStep(d, status) PROVE Goal
    <3>1. ~IsRecorded(d, at[d]) /\ Missing(d, at[d]) = {}
      BY <2>7 DEF FinishStep, AtStep, SequentialInv, AttemptAgrees, Walk
    <3> QED
      BY <2>7, <3>1, PromiseSettles DEF FinishStep, AtStep, Walk
  <2>8. CASE Abandon(d)
    <3>1. CASE IsRecorded(d, at[d])
      BY <2>8, <3>1, PromiseStutters DEF Abandon
    <3>2. CASE ~IsRecorded(d, at[d])
      BY <2>8, <3>2, PromiseSettles DEF Abandon, AtStep, Walk, Settled
    <3> QED
      BY <3>1, <3>2
  <2>9. CASE StampCompleted(d)
    <3>1. /\ rows' = rows
          /\ run' = [status |-> "completed", outputs |-> Kept]
          /\ run.status # "completed"
      BY <2>1, <2>9, PublishesKept DEF StampCompleted, Active
    <3>2. Kept' = Kept
      BY <3>1 DEF Kept
    <3>3. ~PublishedAs.done /\ PublishedAs' = [done |-> TRUE, outputs |-> Kept]
      BY <3>1 DEF PublishedAs
    <3>4. Promise!Next
      BY <3>2, <3>3 DEF Promise!Next, Promise!Publish
    <3> QED
      BY <3>1, <3>4
  <2> QED
    BY <1>6, <2>2, <2>3, <2>4, <2>5, <2>6, <2>7, <2>8, <2>9 DEF Work
<1> QED
  BY <1>1, <1>2, <1>3, <1>4, <1>5, <1>6 DEF Next

\* While no two deliveries are at work at once and no recorder write is lost, the run
\* implements WorkflowPromise: a step completes at most once and after the steps it
\* requires, what it produced is kept, and the run publishes exactly that, once; and
\* no later delivery touches a completed row.
THEOREM RunsKeepThePromise ==
  ASSUME Sequential
  PROVE  Spec => KeepsPromise
<1>1. Init => Promise!Init
  <2> SUFFICES ASSUME Init PROVE Promise!Init
    OBVIOUS
  <2>1. Kept = [s \in Step |-> NoOutput]
    BY DEF Init, Kept, NoRow
  <2>2. PublishedAs = [done |-> FALSE, outputs |-> [s \in Step |-> NoOutput]]
    BY DEF Init, PublishedAs
  <2> QED
    BY <2>1, <2>2 DEF Promise!Init
<1>2. TypeOK /\ TypeOK' /\ SequentialInv /\ [Next]_vars => [Promise!Next]_(Promise!promise)
  BY PromiseStep
<1>3. TypeOK /\ TypeOK' /\ SequentialInv /\ [Next]_vars
        => [\A s \in Step : rows[s].status = "completed" => rows'[s] = rows[s]]_vars
  BY PromiseStep DEF Done
<1>4. Spec => Promise!Spec
  BY <1>1, <1>2, SequentialRuns, TypeCorrect, PTL DEF Spec, Promise!Spec
<1>5. Spec => CompletedRowIsFinal
  BY <1>3, SequentialRuns, TypeCorrect, PTL DEF Spec, CompletedRowIsFinal
<1> QED
  BY <1>4, <1>5 DEF KeepsPromise
----------------------------------------------------------------------------
(* A delivery and its duplicate.  With no more than two deliveries, and no  *)
(* row released by force, a claim is exclusive.  The row alone does not say *)
(* so: a duplicate that skips the step writes over the row of the delivery  *)
(* inside it.  But the duplicate is then past that step, and would need a   *)
(* third delivery to enter it.                                              *)

AtMostTwo == \A d, e, f \in Delivery : d = e \/ d = f \/ e = f

\* No walk ever skips a step: each runs whatever became of the others.
NothingSkipped ==
  /\ \A s \in Step : Requires[s] = {}
  /\ FailSteps = {}
  /\ Guarded = {}

\* When a claim can be relied on.
ClaimsStand == "force" \notin Adversity /\ (AtMostTwo \/ NothingSkipped)

\* A step being run has its row RUNNING, unless another delivery skipped it since.
ClaimShows ==
  lost = 0 => \A d \in Delivery, s \in Step :
    Executing(d, s) => \/ rows[s].status = "running"
                       \/ ~NothingSkipped /\ \E e \in Delivery \ {d} : at[e] > s

AbandonsAtFailStep ==
  \A d \in Delivery : pc[d] = "abandoning" => FailSteps # {}

ClaimInv == OneHolder /\ ClaimShows /\ AbandonsAtFailStep

\* A step that starts running nothing, and leaves the rows of the steps being run
\* alone unless it passes them by a skip.
LEMMA NothingClaimed ==
  ASSUME TypeOK, TypeOK', ClaimInv, lost' = 0 => lost = 0,
         NEW d \in Delivery,
         \A e \in Delivery \ {d} : pc'[e] = pc[e] /\ at'[e] = at[e],
         pc'[d] # "executing",
         at'[d] >= at[d],
         pc'[d] = "abandoning" => pc[d] = "abandoning" \/ FailSteps # {},
         \A s \in Step : \/ rows[s].status = "running" => rows'[s].status = "running"
                         \/ \A e \in Delivery \ {d} : ~Executing(e, s)
                         \/ at'[d] > s /\ ~NothingSkipped
  PROVE  ClaimInv'
<1> USE DEF ClaimInv, TypeOK
<1>1. OneHolder'
  <2> SUFFICES ASSUME lost' = 0, NEW s \in Step, NEW e \in Delivery, NEW f \in Delivery,
                      Executing(e, s)', Executing(f, s)'
               PROVE  e = f
    BY DEF OneHolder
  <2>1. e # d /\ f # d /\ Executing(e, s) /\ Executing(f, s)
    BY DEF Executing
  <2> QED
    BY <2>1 DEF OneHolder
<1>2. ClaimShows'
  <2> SUFFICES ASSUME lost' = 0, NEW e \in Delivery, NEW s \in Step, Executing(e, s)'
               PROVE  \/ rows'[s].status = "running"
                      \/ ~NothingSkipped /\ \E f \in Delivery \ {e} : at'[f] > s
    BY DEF ClaimShows
  <2>1. e # d /\ Executing(e, s)
    BY DEF Executing
  <2>2. CASE rows[s].status = "running"
    BY <2>1, <2>2
  <2>3. ASSUME ~NothingSkipped, NEW f \in Delivery \ {e}, at[f] > s
        PROVE  at'[f] > s
    <3>1. CASE f # d
      BY <2>3, <3>1
    <3>2. CASE f = d
      <4>1. at[d] \in Nat /\ at'[d] \in Nat /\ s \in Nat
        BY PipelineAssumption DEF Step
      <4> QED
        BY <2>3, <3>2, <4>1
    <3> QED
      BY <3>1, <3>2
  <2> QED
    BY <2>1, <2>2, <2>3 DEF ClaimShows
<1>3. AbandonsAtFailStep'
  BY DEF AbandonsAtFailStep
<1> QED
  BY <1>1, <1>2, <1>3

\* A claim: no other delivery is inside the step.
LEMMA ClaimIsExclusive ==
  ASSUME ClaimsStand, TypeOK, TypeOK', ClaimInv, lost' = lost,
         NEW d \in Delivery, at[d] \in Step, pc[d] # "executing",
         rows[at[d]].status # "running",
         at' = at,
         pc' = [pc EXCEPT ![d] = "executing"],
         rows' = [rows EXCEPT ![at[d]] = [status |-> "running", output |-> NoOutput]]
  PROVE  ClaimInv'
<1> USE DEF ClaimInv, TypeOK
<1>1. ASSUME lost = 0, NEW e \in Delivery, Executing(e, at[d]) PROVE FALSE
  <2>1. PICK f \in Delivery \ {e} : ~NothingSkipped /\ at[f] > at[d]
    BY <1>1 DEF ClaimShows
  <2>2. f # d /\ d # e
    BY <1>1, <2>1, PipelineAssumption DEF Executing, Step
  <2> QED
    BY <2>1, <2>2 DEF ClaimsStand, AtMostTwo
<1>2. OneHolder'
  BY <1>1 DEF OneHolder, Executing
<1>3. ClaimShows'
  BY DEF ClaimShows, Executing
<1>4. AbandonsAtFailStep'
  BY DEF AbandonsAtFailStep
<1> QED
  BY <1>2, <1>3, <1>4

\* While no write is lost, a step past its settling leaves other rows as they are.
LEMMA SettleOthers ==
  ASSUME TypeOK, NEW d \in Delivery, NEW s \in Step, NEW status \in Settled,
         Settle(d, s, status)
  PROVE  \/ rows' = rows /\ lost' # 0
         \/ lost' = lost /\ \A t \in Step \ {s} : rows'[t] = rows[t]
<1>1. CASE LoseWrite
  BY <1>1, LoseWriteType
<1>2. CASE ~LoseWrite
  BY <1>2 DEF Settle, RecordStepEnd, TypeOK
<1> QED
  BY <1>1, <1>2

LEMMA ClaimInvStep ==
  ASSUME ClaimsStand, TypeOK, TypeOK', ClaimInv, [Next]_vars
  PROVE  ClaimInv'
<1> USE DEF TypeOK
<1>0. \A e \in Delivery : at[e] >= at[e] /\ at[e] + 1 >= at[e] /\ at[e] + 1 > at[e]
  BY PipelineAssumption
<1>1. CASE StartRun \/ Redeliver \/ (\E force \in BOOLEAN : ResumeRun(force)) \/ UNCHANGED vars
  <2>1. UNCHANGED pc \/ \E d \in Delivery : Enqueue(d)
    BY <1>1 DEF StartRun, Redeliver, ResumeRun, vars
  <2>2. UNCHANGED <<rows, at, lost>>
    BY <1>1 DEF StartRun, Redeliver, ResumeRun, vars, ClaimsStand
  <2>3. CASE UNCHANGED pc
    BY <2>2, <2>3 DEF ClaimInv, OneHolder, ClaimShows, AbandonsAtFailStep, Executing
  <2>4. ASSUME NEW d \in Delivery, Enqueue(d) PROVE ClaimInv'
    BY <2>2, <2>4, <1>0, NothingClaimed DEF Enqueue
  <2> QED
    BY <2>1, <2>3, <2>4
<1>2. ASSUME NEW d \in Delivery, Crash(d) PROVE ClaimInv'
  BY <1>2, <1>0, NothingClaimed DEF Crash
<1>3. ASSUME NEW d \in Delivery, Work(d) PROVE ClaimInv'
  <2>1. CASE \/ Fetch(d) \/ Open(d) \/ FailToCompile(d) \/ ReadRecorded(d)
             \/ SkipWhenRaises(d) \/ Refuse(d) \/ EndAbandon(d)
             \/ StampFailed(d) \/ StampCompleted(d)
    <3>1. /\ UNCHANGED <<rows, at, lost>>
          /\ \E p \in Place \ {"executing", "abandoning"} : pc' = [pc EXCEPT ![d] = p]
      BY <2>1 DEF Fetch, Open, FailToCompile, ReadRecorded, SkipWhenRaises, Refuse,
                  EndAbandon, StampFailed, StampCompleted, Place, Active, Ended
    <3> QED
      BY <3>1, <1>0, NothingClaimed
  <2>2. CASE RecordRunEnd(d)
    <3>1. /\ UNCHANGED <<rows, at>> /\ pc' = [pc EXCEPT ![d] = "stamping"]
          /\ lost' = 0 => lost = 0
      BY <2>2, LoseWriteType DEF RecordRunEnd
    <3> QED
      BY <3>1, <1>0, NothingClaimed
  <2>3. CASE Replay(d)
    <3>1. /\ UNCHANGED <<rows, lost, pc>> /\ pc[d] = "walking" /\ at'[d] = at[d] + 1
          /\ \A e \in Delivery \ {d} : at'[e] = at[e]
      BY <2>3 DEF Replay, AtStep, Advance
    <3> QED
      BY <3>1, <1>0, NothingClaimed
  <2>4. CASE Skip(d)
    <3>1. /\ pc' = pc /\ pc[d] = "walking" /\ at'[d] = at[d] + 1 /\ at[d] \in Step
          /\ \A e \in Delivery \ {d} : at'[e] = at[e]
          /\ Settle(d, at[d], "skipped")
      BY <2>4 DEF Skip, AtStep, Advance
    <3>2. ~NothingSkipped
      BY <2>4, <3>1 DEF Skip, NothingSkipped, Missing
    <3>3. \/ rows' = rows /\ lost' # 0
          \/ lost' = lost /\ \A t \in Step \ {at[d]} : rows'[t] = rows[t]
      BY <3>1, SettleOthers DEF Settled
    <3>4. \A s \in Step : rows'[s] = rows[s] \/ (at'[d] > s /\ ~NothingSkipped)
      BY <3>1, <3>2, <3>3, <1>0
    <3>5. at'[d] >= at[d] /\ (lost' = 0 => lost = 0)
      BY <3>1, <3>3, <1>0
    <3> QED
      BY <3>1, <3>4, <3>5, NothingClaimed
  <2>5. CASE ClaimInsert(d)
    <3>1. CASE rows[at[d]].status = "absent"
      BY <2>5, <3>1, ClaimIsExclusive DEF ClaimInsert, Runnable, AtStep
    <3>2. CASE rows[at[d]].status # "absent"
      BY <2>5, <3>2, <1>0, NothingClaimed DEF ClaimInsert, Runnable, AtStep
    <3> QED
      BY <3>1, <3>2
  <2>6. CASE ClaimUpdate(d)
    BY <2>6, ClaimIsExclusive DEF ClaimUpdate, AtStep, Held
  <2>7. CASE ClaimLost(d)
    <3>1. lost' # 0 /\ pc' = [pc EXCEPT ![d] = "executing"]
      BY <2>7, LoseWriteType DEF ClaimLost
    <3> QED
      BY <3>1 DEF ClaimInv, OneHolder, ClaimShows, AbandonsAtFailStep
  <2>8. ASSUME NEW status \in Settled, FinishStep(d, status) PROVE ClaimInv'
    <3>1. /\ pc[d] = "executing" /\ at'[d] = at[d] + 1 /\ at[d] \in Step
          /\ \A e \in Delivery \ {d} : at'[e] = at[e] /\ pc'[e] = pc[e]
          /\ Settle(d, at[d], status)
          /\ pc'[d] = "walking" \/ (pc'[d] = "abandoning" /\ FailSteps # {})
      BY <2>8 DEF FinishStep, AtStep, Advance
    <3>2. \/ rows' = rows /\ lost' # 0
          \/ lost' = lost /\ \A t \in Step \ {at[d]} : rows'[t] = rows[t]
      BY <3>1, SettleOthers
    <3>3. CASE lost' = lost /\ lost = 0
      <4>1. \A e \in Delivery \ {d} : ~Executing(e, at[d])
        BY <3>1, <3>3 DEF ClaimInv, OneHolder, Executing
      <4>2. \A s \in Step : rows'[s] = rows[s] \/ (\A e \in Delivery \ {d} : ~Executing(e, s))
        BY <3>2, <3>3, <4>1
      <4>3. at'[d] >= at[d]
        BY <3>1, <1>0
      <4> QED
        BY <3>1, <3>3, <4>2, <4>3, NothingClaimed
    <3>4. CASE lost' # 0
      BY <3>1, <3>4 DEF ClaimInv, OneHolder, ClaimShows, AbandonsAtFailStep
    <3> QED
      BY <3>2, <3>3, <3>4
  <2>9. CASE Abandon(d)
    <3>1. /\ pc' = pc /\ pc[d] = "abandoning" /\ at'[d] = at[d] + 1 /\ at[d] \in Step
          /\ \A e \in Delivery \ {d} : at'[e] = at[e]
          /\ UNCHANGED <<rows, lost>> \/ Settle(d, at[d], "skipped")
      BY <2>9 DEF Abandon, AtStep, Advance
    <3>2. ~NothingSkipped
      BY <3>1 DEF ClaimInv, AbandonsAtFailStep, NothingSkipped
    <3>3. \/ rows' = rows /\ (lost' # 0 \/ lost' = lost)
          \/ lost' = lost /\ \A t \in Step \ {at[d]} : rows'[t] = rows[t]
      BY <3>1, SettleOthers DEF Settled
    <3>4. \A s \in Step : rows'[s] = rows[s] \/ (at'[d] > s /\ ~NothingSkipped)
      BY <3>1, <3>2, <3>3, <1>0
    <3>5. at'[d] >= at[d] /\ (lost' = 0 => lost = 0)
      BY <3>1, <3>3, <1>0
    <3> QED
      BY <3>1, <3>4, <3>5, NothingClaimed
  <2> QED
    BY <1>3, <2>1, <2>2, <2>3, <2>4, <2>5, <2>6, <2>7, <2>8, <2>9 DEF Work
<1> QED
  BY <1>1, <1>2, <1>3 DEF Next

\* No two deliveries are inside one step's run at the same time, while no claim was
\* lost (RunRecorder.on_step_start): a delivery and its duplicate in any pipeline,
\* or any number of deliveries where no step is ever skipped.
THEOREM ClaimsAreExclusive ==
  ASSUME ClaimsStand
  PROVE  Spec => []OneHolder
<1>1. Init => ClaimInv
  BY DEF Init, ClaimInv, OneHolder, ClaimShows, AbandonsAtFailStep, Executing
<1>2. TypeOK /\ TypeOK' /\ ClaimInv /\ [Next]_vars => ClaimInv'
  BY ClaimInvStep
<1>3. ClaimInv => OneHolder
  BY DEF ClaimInv
<1> QED
  BY <1>1, <1>2, <1>3, TypeCorrect, PTL DEF Spec
----------------------------------------------------------------------------
(* A refused duplicate may walk away from a RUNNING run, because the other  *)
(* delivery will stamp it.  WorkerInv says why: what a walk finds COMPLETED *)
(* ahead of it, and did not read, the other delivery has passed; and once   *)
(* the other is done with a run still RUNNING, nothing of the sort is left. *)

\* A COMPLETED row has an output: the name of the delivery that ran the step.
RowsHaveOutput == \A s \in Step : Done(s) => rows[s].output # NoOutput

LEMMA CompletedRowsHaveOutput == Spec => []RowsHaveOutput
<1>1. Init => RowsHaveOutput
  BY DEF Init, RowsHaveOutput, Done, NoRow
<1>2. TypeOK /\ RowsHaveOutput /\ [Next]_vars => RowsHaveOutput'
  <2> SUFFICES ASSUME TypeOK, RowsHaveOutput, [Next]_vars PROVE RowsHaveOutput'
    OBVIOUS
  <2> USE DEF TypeOK, RowsHaveOutput, Done
  <2>0. \/ \E force \in BOOLEAN : ResumeRun(force)
        \/ \E d \in Delivery, s \in Step, status \in Settled : RecordStepEnd(d, s, status)
        \/ \E s \in Step : rows' = [rows EXCEPT ![s] = [status |-> "running", output |-> NoOutput]]
        \/ rows' = rows
    <3>1. CASE StartRun \/ Redeliver \/ (\E force \in BOOLEAN : ResumeRun(force)) \/ UNCHANGED vars
      BY <3>1 DEF StartRun, Redeliver, vars
    <3>2. ASSUME NEW d \in Delivery, Crash(d) PROVE rows' = rows
      BY <3>2 DEF Crash
    <3>3. ASSUME NEW d \in Delivery, Work(d),
                 ~(\E s \in Step, status \in Settled : RecordStepEnd(d, s, status)),
                 ~(\E s \in Step : rows' = [rows EXCEPT ![s] = [status |-> "running", output |-> NoOutput]])
          PROVE  rows' = rows
      BY <3>3 DEF Work, Fetch, Open, FailToCompile, ReadRecorded, Replay, Skip, SkipWhenRaises,
                  ClaimInsert, ClaimUpdate, Refuse, ClaimLost, FinishStep, Abandon, EndAbandon,
                  RecordRunEnd, StampFailed, StampCompleted, Settle, Settled, Runnable, AtStep, LoseWrite
    <3> QED
      BY <3>1, <3>2, <3>3 DEF Next
  <2>1. ASSUME NEW force \in BOOLEAN, ResumeRun(force) PROVE RowsHaveOutput'
    BY <2>1 DEF ResumeRun
  <2>2. ASSUME NEW d \in Delivery, NEW s \in Step, NEW status \in Settled,
               RecordStepEnd(d, s, status)
        PROVE  RowsHaveOutput'
    <3>1. CASE rows' = rows
      BY <3>1
    <3>2. CASE rows' # rows
      <4> DEFINE row == [status |-> status, output |-> IF status = "completed" THEN d ELSE NoOutput]
      <4>1. rows' = [rows EXCEPT ![s] = row] /\ d # NoOutput
        BY <2>2, <3>2, EnvironmentAssumption DEF RecordStepEnd, LoseWrite
      <4>2. row.status = "completed" => row.output # NoOutput
        BY <4>1
      <4> HIDE DEF row
      <4> QED
        BY <4>1, <4>2
    <3> QED
      BY <3>1, <3>2
  <2>3. ASSUME NEW s \in Step,
               rows' = [rows EXCEPT ![s] = [status |-> "running", output |-> NoOutput]]
        PROVE  RowsHaveOutput'
    BY <2>3
  <2> QED
    BY <2>0, <2>1, <2>2, <2>3
<1> QED
  BY <1>1, <1>2, TypeCorrect, PTL DEF Spec

\* Completed since delivery d read the rows, and still ahead of its walk.
NewAhead(d, s) == s >= at[d] /\ ~IsRecorded(d, s) /\ Done(s)

StartsAtOne == \A d \in Delivery : pc[d] \in Early => at[d] = 1

ClaimsUnrecorded ==
  \A d \in Delivery : pc[d] = "claiming" => at[d] \in Step /\ ~IsRecorded(d, at[d])

Overtaken ==
  \A d \in Delivery, s \in Step :
    pc[d] \in Walk /\ NewAhead(d, s) => \E e \in Delivery \ {d} : at[e] > s

NotOvertakenByDone ==
  run.status = "running" =>
    \A d \in Delivery, e \in Delivery, s \in Step :
      d # e /\ pc[d] \in Walk /\ pc[e] = "done" => ~NewAhead(d, s)

AtWork(d) == pc[d] \in Active \cup {"dead"}

WorkerInv ==
  /\ StartsAtOne /\ ClaimsUnrecorded
  /\ lost = 0 => Overtaken /\ NotOvertakenByDone /\ RunningRunHasWorker

\* A step of delivery d that does not end it with the run still RUNNING.
LEMMA WorkerGoesOn ==
  ASSUME AtMostTwo, TypeOK, TypeOK', WorkerInv, lost' = 0 => lost = 0,
         NEW d \in Delivery,
         \A e \in Delivery \ {d} : pc'[e] = pc[e] /\ at'[e] = at[e] /\ recorded'[e] = recorded[e],
         at'[d] >= at[d],
         pc'[d] \in Early => at'[d] = at[d] /\ pc[d] \in Early,
         pc'[d] = "claiming" => at'[d] \in Step /\ ~IsRecorded(d, at[d])',
         \A s \in Step : Done(s)' /\ ~Done(s) => at'[d] > s /\ pc'[d] # "done",
         pc'[d] \in Walk => \A s \in Step : NewAhead(d, s)' => pc[d] \in Walk /\ NewAhead(d, s),
         \/ run'.status # "running"
         \/ run.status = "running" /\ (AtWork(d) => AtWork(d)') /\ (pc'[d] = "done" => pc[d] = "done")
         \/ AtWork(d)' /\ pc'[d] \notin Walk
  PROVE  WorkerInv'
<1> USE DEF WorkerInv, TypeOK
<1>1. StartsAtOne'
  BY DEF StartsAtOne
<1>2. ClaimsUnrecorded'
  BY DEF ClaimsUnrecorded, IsRecorded
<1> SUFFICES ASSUME lost' = 0, lost = 0
             PROVE  Overtaken' /\ NotOvertakenByDone' /\ RunningRunHasWorker'
  BY <1>1, <1>2
<1>3. \A e \in Delivery, s \in Step : at[e] > s => at'[e] > s
  <2> SUFFICES ASSUME NEW s \in Step, at[d] > s PROVE at'[d] > s
    OBVIOUS
  <2>1. at[d] \in Nat /\ at'[d] \in Nat /\ s \in Nat
    BY PipelineAssumption DEF Step
  <2> QED
    BY <2>1
<1>4. \A e \in Delivery \ {d}, s \in Step : NewAhead(e, s)' => NewAhead(e, s) \/ (Done(s)' /\ ~Done(s))
  BY DEF NewAhead, IsRecorded
<1>5. Overtaken'
  <2> SUFFICES ASSUME NEW e \in Delivery, NEW s \in Step, pc'[e] \in Walk, NewAhead(e, s)'
               PROVE  \E f \in Delivery \ {e} : at'[f] > s
    BY DEF Overtaken
  <2>1. CASE pc[e] \in Walk /\ NewAhead(e, s)
    BY <1>3, <2>1 DEF Overtaken
  <2>2. CASE e # d /\ Done(s)' /\ ~Done(s)
    BY <2>2
  <2> QED
    BY <1>4, <2>1, <2>2
<1>6. NotOvertakenByDone'
  <2> SUFFICES ASSUME run'.status = "running",
                      NEW e \in Delivery, NEW f \in Delivery, NEW s \in Step,
                      e # f, pc'[e] \in Walk, pc'[f] = "done", NewAhead(e, s)'
               PROVE  FALSE
    BY DEF NotOvertakenByDone
  <2>1. e = d \/ f = d
    BY DEF AtMostTwo
  <2>2. run.status = "running" /\ pc[f] = "done"
    BY <2>1 DEF Walk, AtWork, Active
  <2>3. CASE e = d
    BY <2>2, <2>3 DEF NotOvertakenByDone
  <2>4. CASE f = d
    <3>1. pc[e] \in Walk /\ NewAhead(e, s)
      BY <1>4, <2>4
    <3> QED
      BY <2>2, <3>1 DEF NotOvertakenByDone
  <2> QED
    BY <2>1, <2>3, <2>4
<1>7. RunningRunHasWorker'
  BY DEF RunningRunHasWorker, AtWork
<1> QED
  BY <1>5, <1>6, <1>7

\* A refused delivery leaves somebody at work on a run still RUNNING: the holder of
\* the row, or whoever completed it after the refused one had read the rows.
LEMMA RefusedLeavesWorker ==
  ASSUME AtMostTwo, TypeOK, TypeOK', WorkerInv, RunningRowHasHolder,
         NEW d \in Delivery, Refuse(d)
  PROVE  WorkerInv'
<1> USE DEF WorkerInv, TypeOK
<1>1. /\ pc[d] = "claiming" /\ at[d] \in Step /\ pc' = [pc EXCEPT ![d] = "done"]
      /\ UNCHANGED <<run, rows, at, recorded, outcome, lost>>
      /\ rows[at[d]].status \in Held /\ ~IsRecorded(d, at[d])
  BY DEF Refuse, AtStep, ClaimsUnrecorded
<1>2. StartsAtOne' /\ ClaimsUnrecorded'
  BY <1>1 DEF StartsAtOne, ClaimsUnrecorded, Early, IsRecorded
<1> SUFFICES ASSUME lost = 0
             PROVE  Overtaken' /\ NotOvertakenByDone' /\ RunningRunHasWorker'
  BY <1>1, <1>2
<1>3. \A e \in Delivery, s \in Step : NewAhead(e, s)' <=> NewAhead(e, s)
  BY <1>1 DEF NewAhead, IsRecorded, Done
<1>4. Overtaken'
  BY <1>1, <1>3 DEF Overtaken, Walk
<1>5. at[d] >= at[d] /\ at[d] \in Nat /\ Step \subseteq Nat /\ at \in [Delivery -> Nat]
  BY PipelineAssumption DEF Step
\* Where the other delivery is: inside the same step, dead in it, or past it.
<1>6. PICK e \in Delivery \ {d} :
        \/ at[e] = at[d] /\ pc[e] \in {"executing", "dead"}
        \/ at[e] > at[d] /\ NewAhead(d, at[d])
  <2>1. CASE rows[at[d]].status = "running"
    BY <1>1, <2>1 DEF RunningRowHasHolder
  <2>2. CASE rows[at[d]].status = "completed"
    <3>1. NewAhead(d, at[d])
      BY <1>1, <1>5, <2>2 DEF NewAhead, Done
    <3> QED
      BY <1>1, <3>1 DEF Overtaken, Walk
  <2> QED
    BY <1>1, <2>1, <2>2 DEF Held
<1>7. NotOvertakenByDone'
  <2> SUFFICES ASSUME run.status = "running", NEW f \in Delivery, NEW g \in Delivery, NEW s \in Step,
                      f # g, pc'[f] \in Walk, pc'[g] = "done", NewAhead(f, s)
               PROVE  FALSE
    BY <1>1, <1>3 DEF NotOvertakenByDone
  <2>1. f # d /\ pc[f] \in Walk
    BY <1>1 DEF Walk
  <2>2. f = e
    BY <2>1 DEF AtMostTwo
  <2>3. \A n \in Delivery : n = d \/ n = e
    BY DEF AtMostTwo
  <2>4. at[d] > s
    BY <2>1, <2>2, <2>3 DEF Overtaken
  <2>5. s >= at[e]
    BY <2>2 DEF NewAhead
  <2> QED
    BY <1>5, <1>6, <2>4, <2>5
<1>8. RunningRunHasWorker'
  <2> SUFFICES ASSUME run.status = "running"
               PROVE  pc[e] \in Active \cup {"dead"}
    BY <1>1 DEF RunningRunHasWorker
  <2>1. CASE pc[e] \in {"executing", "dead"}
    BY <2>1 DEF Active
  <2>2. CASE at[e] > at[d] /\ NewAhead(d, at[d])
    <3>1. pc[e] # "done"
      BY <1>1, <2>2 DEF NotOvertakenByDone, Walk
    <3>2. pc[e] \notin Early
      BY <1>5, <2>2, PipelineAssumption DEF StartsAtOne, Step
    <3> QED
      BY <3>1, <3>2 DEF Place, Ended, Early, Active
  <2> QED
    BY <1>6, <2>1, <2>2
<1> QED
  BY <1>2, <1>4, <1>7, <1>8

\* A step of a walk, which goes on where it is or past the step it completes.
LEMMA WalkGoesOn ==
  ASSUME AtMostTwo, TypeOK, TypeOK', WorkerInv, lost' = 0 => lost = 0,
         NEW d \in Delivery, pc[d] \in Walk,
         \A e \in Delivery \ {d} : pc'[e] = pc[e] /\ at'[e] = at[e],
         pc'[d] \in Walk, run' = run, recorded' = recorded, at[d] \in Step,
         at'[d] = at[d] \/ at'[d] = at[d] + 1,
         pc'[d] = "claiming" => at'[d] = at[d] /\ ~IsRecorded(d, at[d]),
         \A s \in Step : Done(s)' /\ ~Done(s) => s = at[d] /\ at'[d] = at[d] + 1
  PROVE  WorkerInv'
<1>1. at[d] \in Nat /\ at'[d] \in Nat /\ at'[d] >= at[d] /\ Step \subseteq Nat
  BY PipelineAssumption DEF Step
<1>2. \A s \in Step : Done(s)' /\ ~Done(s) => at'[d] > s
  BY <1>1
<1>3. ASSUME NEW s \in Step, NewAhead(d, s)' PROVE NewAhead(d, s)
  <2>1. s >= at'[d] /\ ~IsRecorded(d, s) /\ Done(s)'
    BY <1>3 DEF NewAhead, IsRecorded
  <2>2. s >= at[d] /\ Done(s)
    BY <1>1, <1>2, <2>1
  <2> QED
    BY <2>1, <2>2 DEF NewAhead
<1>4. AtWork(d)' /\ pc'[d] # "done" /\ pc'[d] \notin Early
  BY DEF AtWork, Active, Walk, Early
<1>5. pc'[d] = "claiming" => at'[d] \in Step /\ ~IsRecorded(d, at[d])'
  BY DEF IsRecorded
<1> QED
  BY <1>1, <1>2, <1>3, <1>4, <1>5, WorkerGoesOn

\* Settling a step completes no other.
LEMMA SettleCompletes ==
  ASSUME TypeOK, NEW d \in Delivery, NEW s \in Step, NEW status \in Settled,
         Settle(d, s, status)
  PROVE  \A t \in Step : Done(t)' /\ ~Done(t) => t = s
BY SettleOthers DEF Done

LEMMA WorkerStep ==
  ASSUME AtMostTwo, TypeOK, TypeOK', WorkerInv, RunningRowHasHolder, RowsHaveOutput, [Next]_vars
  PROVE  WorkerInv'
<1> USE DEF TypeOK
<1>0. /\ lost' = 0 => lost = 0
      /\ \A e \in Delivery : at[e] >= at[e] /\ at[e] + 1 >= at[e] /\ at[e] + 1 > at[e]
  BY RowsStay, PipelineAssumption
<1>1. CASE StartRun \/ Redeliver \/ (\E force \in BOOLEAN : ResumeRun(force)) \/ UNCHANGED vars
  <2>1. UNCHANGED pc \/ \E d \in Delivery : Enqueue(d)
    BY <1>1 DEF StartRun, Redeliver, ResumeRun, vars
  <2>2. /\ UNCHANGED <<at, recorded, lost>>
        /\ run'.status = "running" <=> run.status = "running"
        /\ \A s \in Step : Done(s)' = Done(s)
    BY <1>1 DEF StartRun, Redeliver, ResumeRun, vars, Done
  <2>3. \A e \in Delivery, s \in Step : NewAhead(e, s)' <=> NewAhead(e, s)
    BY <2>2 DEF NewAhead, IsRecorded
  <2>4. CASE UNCHANGED pc
    BY <2>2, <2>3, <2>4 DEF WorkerInv, StartsAtOne, ClaimsUnrecorded, Overtaken,
                            NotOvertakenByDone, RunningRunHasWorker, IsRecorded
  <2>5. ASSUME NEW d \in Delivery, Enqueue(d) PROVE WorkerInv'
    BY <1>0, <2>2, <2>5, WorkerGoesOn DEF Enqueue, Early, Walk, AtWork, Active
  <2> QED
    BY <2>1, <2>4, <2>5
<1>2. ASSUME NEW d \in Delivery, Crash(d) PROVE WorkerInv'
  BY <1>0, <1>2, WorkerGoesOn DEF Crash, Early, Walk, AtWork, Done
<1>3. ASSUME NEW d \in Delivery, Work(d) PROVE WorkerInv'
  <2>1. CASE \/ Fetch(d) \/ FailToCompile(d) \/ Open(d)
             \/ SkipWhenRaises(d) \/ EndAbandon(d)
             \/ StampFailed(d) \/ StampCompleted(d) \/ RecordRunEnd(d)
    <3>1. /\ UNCHANGED <<rows, at, recorded>>
          /\ \E p \in Place \ {"claiming"} :
               /\ pc' = [pc EXCEPT ![d] = p]
               /\ p \in Early => pc[d] \in Early
               /\ p \notin Walk
               /\ p = "done" => run'.status # "running"
               /\ \/ run'.status = run.status
                  \/ run'.status # "running"
                  \/ p \in Active
               /\ AtWork(d) => AtWork(d)' \/ run'.status # "running"
      BY <2>1 DEF Fetch, FailToCompile, Open, SkipWhenRaises, EndAbandon, StampFailed,
                  StampCompleted, RecordRunEnd, Stamp, LoseWrite, Place, Active, Ended, Early, Walk, AtWork
    <3> QED
      BY <1>0, <3>1, WorkerGoesOn DEF Done, AtWork
  <2>2. CASE ReadRecorded(d)
    <3>1. \A s \in Step : ~NewAhead(d, s)'
      BY <2>2 DEF ReadRecorded, NewAhead, IsRecorded, Done, RowsHaveOutput
    <3> QED
      BY <1>0, <2>2, <3>1, WorkerGoesOn DEF ReadRecorded, Early, AtWork, Active, Done
  <2>3. CASE Replay(d)
    <3>1. /\ pc[d] = "walking" /\ at[d] \in Step /\ at'[d] = at[d] + 1
          /\ UNCHANGED <<run, rows, pc, recorded>>
          /\ \A e \in Delivery \ {d} : at'[e] = at[e]
      BY <2>3 DEF Replay, AtStep, Advance
    <3> QED
      BY <1>0, <3>1, WalkGoesOn DEF Walk, Done
  <2>4. CASE Skip(d)
    <3>1. /\ pc[d] = "walking" /\ at[d] \in Step /\ at'[d] = at[d] + 1 /\ pc' = pc
          /\ Settle(d, at[d], "skipped")
          /\ \A e \in Delivery \ {d} : at'[e] = at[e]
      BY <2>4 DEF Skip, AtStep, Advance
    <3>2. UNCHANGED <<run, recorded>> /\ \A s \in Step : Done(s)' /\ ~Done(s) => s = at[d]
      BY <3>1, SettleCompletes DEF Settle, Settled
    <3> QED
      BY <1>0, <3>1, <3>2, WalkGoesOn DEF Walk
  <2>5. CASE ClaimInsert(d) \/ ClaimUpdate(d) \/ ClaimLost(d)
    <3>1. /\ pc[d] \in Walk /\ at[d] \in Step /\ pc'[d] \in {"claiming", "executing"}
          /\ UNCHANGED <<run, at, recorded>>
          /\ \A e \in Delivery \ {d} : pc'[e] = pc[e]
          /\ pc'[d] = "claiming" => ~IsRecorded(d, at[d])
      BY <2>5 DEF ClaimInsert, ClaimUpdate, ClaimLost, Runnable, AtStep, Walk
    <3>2. \/ rows' = rows
          \/ rows' = [rows EXCEPT ![at[d]] = [status |-> "running", output |-> NoOutput]]
      BY <2>5 DEF ClaimInsert, ClaimUpdate, ClaimLost, LoseWrite
    <3>3. \A s \in Step : Done(s)' => Done(s)
      BY <3>1, <3>2 DEF Done
    <3> QED
      BY <1>0, <3>1, <3>3, WalkGoesOn DEF Walk
  <2>6. ASSUME NEW status \in Settled, FinishStep(d, status) PROVE WorkerInv'
    <3>1. /\ pc[d] \in Walk /\ at[d] \in Step /\ at'[d] = at[d] + 1
          /\ pc'[d] \in {"walking", "abandoning"}
          /\ \A e \in Delivery \ {d} : at'[e] = at[e] /\ pc'[e] = pc[e]
          /\ Settle(d, at[d], status)
      BY <2>6 DEF FinishStep, AtStep, Advance, Walk
    <3>2. UNCHANGED <<run, recorded>> /\ \A s \in Step : Done(s)' /\ ~Done(s) => s = at[d]
      BY <3>1, SettleCompletes DEF Settle
    <3> QED
      BY <1>0, <3>1, <3>2, WalkGoesOn DEF Walk
  <2>7. CASE Abandon(d)
    <3>1. /\ pc[d] = "abandoning" /\ at[d] \in Step /\ at'[d] = at[d] + 1 /\ pc' = pc
          /\ UNCHANGED <<run, rows, recorded>> \/ Settle(d, at[d], "skipped")
          /\ \A e \in Delivery \ {d} : at'[e] = at[e]
      BY <2>7 DEF Abandon, AtStep, Advance
    <3>2. UNCHANGED <<run, recorded>> /\ \A s \in Step : Done(s)' /\ ~Done(s) => s = at[d]
      BY <3>1, SettleCompletes DEF Settle, Settled, Done
    <3> QED
      BY <1>0, <3>1, <3>2, WalkGoesOn DEF Walk
  <2>8. CASE Refuse(d)
    BY <2>8, RefusedLeavesWorker
  <2> QED
    BY <1>3, <2>1, <2>2, <2>3, <2>4, <2>5, <2>6, <2>7, <2>8 DEF Work
<1> QED
  BY <1>1, <1>2, <1>3 DEF Next

\* A run marked RUNNING has a delivery at work on it, or one that died at work, while
\* no write was lost and the run was delivered at most twice: a refused duplicate
\* stamps nothing because the delivery that holds the run will (StepAlreadyRunning).
THEOREM RunningRunsHaveWorkers ==
  ASSUME AtMostTwo
  PROVE  Spec => []RunningRunHasWorker
<1>1. Init => WorkerInv
  BY DEF Init, WorkerInv, StartsAtOne, ClaimsUnrecorded, Overtaken, NotOvertakenByDone,
         RunningRunHasWorker, Walk
<1>2. /\ TypeOK /\ TypeOK' /\ WorkerInv /\ RunningRowHasHolder /\ RowsHaveOutput
      /\ [Next]_vars
      => WorkerInv'
  BY WorkerStep
<1>3. WorkerInv => RunningRunHasWorker
  BY DEF WorkerInv, RunningRunHasWorker
<1> QED
  BY <1>1, <1>2, <1>3, TypeCorrect, RunningRowsAreHeld, CompletedRowsHaveOutput, PTL DEF Spec
=============================================================================
