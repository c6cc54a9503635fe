-------------------------- MODULE DocumentPipeline --------------------------
(***************************************************************************)
(* One uploaded document: its EntryDocument row, the Entry rows its        *)
(* processing creates, the service calls that queue, retry, cancel, delete *)
(* and poll it, and the process_document_upload tasks that process it.     *)
(*                                                                         *)
(* Every database statement is one atomic step.  A call or a task that     *)
(* issues several is taken one statement at a time, acting on what it read *)
(* before.  An Entry is named by the task that created it.                 *)
(***************************************************************************)
EXTENDS Naturals

CONSTANTS
  Client,    \* callers of the service, each inside one call at a time
  Worker,    \* tasks, each executed once by one worker
  NoWorker,  \* what task_id, or the entry link, is when it is null
  Allowed    \* what the environment may do, a subset of Environment

(***************************************************************************)
(* cancel, delete, retry, poll   callers may make these calls              *)
(* overlap   a retry may be asked for while another call, or a task, is    *)
(*           still busy with the document                                  *)
(* crash     a worker may die                                              *)
(* slow      a task may wait in the queue, or index its entry, for longer  *)
(*           than STALE_PROCESSING_DEADLINE_SECONDS                        *)
(***************************************************************************)
Environment == {"cancel", "delete", "retry", "poll", "overlap", "crash", "slow"}

ASSUME DocumentAssumption ==
  /\ NoWorker \notin Worker
  /\ Allowed \subseteq Environment

VARIABLES
  doc,      \* the EntryDocument row
  entries,  \* the Entry rows created for it
  pc,       \* where each task is
  call,     \* where each caller is
  seen      \* what each caller carries: the entry or the task it read or queued

vars == <<doc, entries, pc, call, seen>>

Status == {"absent", "pending", "processing", "completed", "failed", "cancelled", "gone"}
Row    == Status \ {"absent", "gone"}

\* A task that has taken the document and not finished with it.
Working == {"loaded", "begun", "stepping", "created", "raising", "cancelling"}
Place   == {"idle", "queued"} \cup Working \cup {"done", "dead"}

Calls == {"idle", "submitting", "tagging", "retrying", "deleting", "polling", "sweeping"}

TypeOK ==
  /\ doc \in [status : Status, cancelled : BOOLEAN, step : BOOLEAN,
              entry : Worker \cup {NoWorker}, task : Worker \cup {NoWorker}]
  /\ entries \subseteq Worker
  /\ pc \in [Worker -> Place]
  /\ call \in [Client -> Calls]
  /\ seen \in [Client -> Worker \cup {NoWorker}]

Init ==
  /\ doc = [status |-> "absent", cancelled |-> FALSE, step |-> FALSE,
            entry |-> NoWorker, task |-> NoWorker]
  /\ entries = {}
  /\ pc = [w \in Worker |-> "idle"]
  /\ call = [c \in Client |-> "idle"]
  /\ seen = [c \in Client |-> NoWorker]

Exists == doc.status \in Row

\* The row is deleted; what it held goes with it.
Gone == [doc EXCEPT !.status = "gone", !.cancelled = FALSE, !.step = FALSE,
                    !.entry = NoWorker, !.task = NoWorker]

Goto(c, place) == call' = [call EXCEPT ![c] = place]
Move(w, place) == pc' = [pc EXCEPT ![w] = place]

\* filter(processing_status=PROCESSING).aupdate(processing_status=status,
\* processing_step=None): the transition every late writer uses.
Transition(status) ==
  doc' = IF doc.status = "processing"
         THEN [doc EXCEPT !.status = status, !.step = FALSE]
         ELSE doc

----------------------------------------------------------------------------
(* MemoryService.                                                          *)

\* _create_document and upload_thread_file: the row is created PENDING.
Upload(c) ==
  /\ call[c] = "idle"
  /\ doc.status = "absent"
  /\ doc' = [doc EXCEPT !.status = "pending"]
  /\ Goto(c, "submitting")
  /\ UNCHANGED <<entries, pc, seen>>

\* aenqueue, which may also raise and leave the row PENDING.
Submit(c) ==
  /\ call[c] = "submitting"
  /\ \/ \E w \in Worker :
          /\ pc[w] = "idle"
          /\ Move(w, "queued")
          /\ seen' = [seen EXCEPT ![c] = w]
          /\ Goto(c, "tagging")
     \/ Goto(c, "idle") /\ UNCHANGED <<pc, seen>>
  /\ UNCHANGED <<doc, entries>>

\* The conditional update: it is skipped, task_id and all, when the worker has
\* already moved the row past PENDING.
Tag(c) ==
  /\ call[c] = "tagging"
  /\ doc' = IF doc.status = "pending"
            THEN [doc EXCEPT !.status = "processing", !.task = seen[c]]
            ELSE doc
  /\ Goto(c, "idle")
  /\ UNCHANGED <<entries, pc, seen>>

\* Mutant of Retryable: a completed document may be processed again.
RetryableAll == {"failed", "pending", "cancelled", "completed"}

Retryable == {"failed", "pending", "cancelled"}

Undisturbed ==
  /\ \A c \in Client : call[c] = "idle"
  /\ \A w \in Worker : pc[w] \notin {"queued"} \cup Working

\* retry_document: the status is checked on the copy it read.
RetryRead(c) ==
  /\ "retry" \in Allowed
  /\ call[c] = "idle"
  /\ doc.status \in Retryable
  /\ "overlap" \in Allowed \/ Undisturbed
  /\ Goto(c, "retrying")
  /\ UNCHANGED <<doc, entries, pc, seen>>

\* The save looks at nothing the row holds by now, and raises if it is gone.
\* The link to an entry and the old task_id stay.
RetrySave(c) ==
  /\ call[c] = "retrying"
  /\ IF Exists
     THEN /\ doc' = [doc EXCEPT !.status = "pending", !.cancelled = FALSE, !.step = FALSE]
          /\ Goto(c, "submitting")
     ELSE Goto(c, "idle") /\ UNCHANGED doc
  /\ UNCHANGED <<entries, pc, seen>>

\* Mutant of Cancel: cancelled_at is not set.
CancelStatusOnly ==
  /\ "cancel" \in Allowed
  /\ doc.status \in {"pending", "processing"}
  /\ doc' = [doc EXCEPT !.status = "cancelled", !.step = FALSE]
  /\ UNCHANGED <<entries, pc, call, seen>>

\* cancel_document is one conditional update.
Cancel ==
  /\ "cancel" \in Allowed
  /\ doc.status \in {"pending", "processing"}
  /\ doc' = [doc EXCEPT !.status = "cancelled", !.cancelled = TRUE, !.step = FALSE]
  /\ UNCHANGED <<entries, pc, call, seen>>

\* delete_document and delete_thread_file: which row to delete is decided on the
\* copy that was read.
DeleteRead(c) ==
  /\ "delete" \in Allowed
  /\ call[c] = "idle"
  /\ Exists
  /\ seen' = [seen EXCEPT ![c] = doc.entry]
  /\ Goto(c, "deleting")
  /\ UNCHANGED <<doc, entries, pc>>

\* Mutant of Delete: deleting the entry does not cascade.
DeleteEntryOnly(c) ==
  /\ call[c] = "deleting"
  /\ IF seen[c] = NoWorker
     THEN doc' = Gone /\ UNCHANGED entries
     ELSE entries' = entries \ {seen[c]} /\ UNCHANGED doc
  /\ Goto(c, "idle")
  /\ UNCHANGED <<pc, seen>>

\* Deleting the entry cascades to the document linked to it by now, or is undone
\* when its removal from an index raises; deleting the document leaves any entry.
Delete(c) ==
  /\ call[c] = "deleting"
  /\ \/ /\ seen[c] = NoWorker
        /\ doc' = Gone
        /\ UNCHANGED entries
     \/ /\ seen[c] # NoWorker
        /\ entries' = entries \ {seen[c]}
        /\ doc' = IF doc.entry = seen[c] THEN Gone ELSE doc
     \/ seen[c] # NoWorker /\ UNCHANGED <<doc, entries>>
  /\ Goto(c, "idle")
  /\ UNCHANGED <<pc, seen>>

\* get_document_status and get_task_status, of a document read as PROCESSING.
PollRead(c) ==
  /\ "poll" \in Allowed
  /\ call[c] = "idle"
  /\ doc.status = "processing"
  /\ seen' = [seen EXCEPT ![c] = doc.task]
  /\ Goto(c, "polling")
  /\ UNCHANGED <<doc, entries, pc>>

Stepping == {w \in Worker : pc[w] \in {"begun", "stepping"}}

\* A task that ended, FAILED or SUCCESSFUL, or has been at it past the deadline.
\* The pipeline's own timeout is shorter, and each step re-dates the row.
Ended(t) == t \in Worker /\ pc[t] = "done"

\* Mutant of Overdue: only a task that ended is noticed.
NeverOverdue(t) == FALSE

Overdue(t) ==
  \/ t \in Worker /\ pc[t] = "dead"
  \/ t \in Worker /\ pc[t] = "created" /\ "slow" \in Allowed
  \/ /\ t \in Worker => pc[t] = "queued"
     /\ Stepping = {}
     /\ "slow" \in Allowed \/ \A w \in Worker : pc[w] \notin {"queued"} \cup Working

PollTask(c) ==
  /\ call[c] = "polling"
  /\ Goto(c, IF Ended(seen[c]) \/ Overdue(seen[c]) THEN "sweeping" ELSE "idle")
  /\ UNCHANGED <<doc, entries, pc, seen>>

\* _fail_orphaned_processing_document.
Sweep(c) ==
  /\ call[c] = "sweeping"
  /\ Transition("failed")
  /\ Goto(c, "idle")
  /\ UNCHANGED <<entries, pc, seen>>

----------------------------------------------------------------------------
(* run_file_pipeline.                                                      *)

Fetch(w) ==
  /\ pc[w] = "queued"
  /\ Move(w, IF Exists /\ ~doc.cancelled THEN "loaded" ELSE "done")
  /\ UNCHANGED <<doc, entries, call, seen>>

\* The row is saved PROCESSING whatever it says by now; the save raises if it is
\* gone.
Begin(w) ==
  /\ pc[w] = "loaded"
  /\ IF Exists
     THEN doc' = [doc EXCEPT !.status = "processing"] /\ Move(w, "begun")
     ELSE Move(w, "done") /\ UNCHANGED doc
  /\ UNCHANGED <<entries, call, seen>>

\* _on_step, before the processor and before each transform, with the step's name
\* or None.
Checkpoint(w) ==
  /\ pc[w] \in {"begun", "stepping"}
  /\ IF Exists /\ ~doc.cancelled
     THEN /\ \E named \in BOOLEAN : doc' = [doc EXCEPT !.step = named]
          /\ Move(w, "stepping")
     ELSE Move(w, "cancelling") /\ UNCHANGED doc
  /\ UNCHANGED <<entries, call, seen>>

\* Mutant of Unsupported: the task returns without settling the document.
UnsupportedUnsettled(w) ==
  /\ pc[w] \in {"begun", "stepping"}
  /\ Move(w, "done")
  /\ UNCHANGED <<doc, entries, call, seen>>

\* No pipeline takes the file, or the last one produced nothing.
Unsupported(w) ==
  /\ pc[w] \in {"begun", "stepping"}
  /\ Transition("failed")
  /\ Move(w, "done")
  /\ UNCHANGED <<entries, call, seen>>

\* A processor, a transform or the timeout raises, or indexing the entry does,
\* whose row has been committed by then.
Fail(w) ==
  /\ pc[w] \in {"begun", "stepping", "created"}
  /\ Move(w, "raising")
  /\ UNCHANGED <<doc, entries, call, seen>>

\* Entry.acreate; the post_save signal indexes it before the call returns.
CreateEntry(w) ==
  /\ pc[w] = "stepping"
  /\ entries' = entries \cup {w}
  /\ Move(w, "created")
  /\ UNCHANGED <<doc, call, seen>>

\* Mutant of Finish: the last update is unconditional.
FinishAlways(w) ==
  /\ pc[w] = "created"
  /\ doc' = [doc EXCEPT !.status = "completed", !.entry = w, !.step = FALSE]
  /\ Move(w, "done")
  /\ UNCHANGED <<entries, call, seen>>

\* The last update links the entry; an update that finds the row elsewhere leaves
\* the entry where it is.
Finish(w) ==
  /\ pc[w] = "created"
  /\ doc' = IF doc.status = "processing"
            THEN [doc EXCEPT !.status = "completed", !.entry = w, !.step = FALSE]
            ELSE doc
  /\ Move(w, "done")
  /\ UNCHANGED <<entries, call, seen>>

MarkFailed(w) ==
  /\ pc[w] = "raising"
  /\ Transition("failed")
  /\ Move(w, IF doc.status = "processing" THEN "done" ELSE "cancelling")
  /\ UNCHANGED <<entries, call, seen>>

MarkCancelled(w) ==
  /\ pc[w] = "cancelling"
  /\ Transition("cancelled")
  /\ Move(w, "done")
  /\ UNCHANGED <<entries, call, seen>>

Crash(w) ==
  /\ "crash" \in Allowed
  /\ pc[w] \in Working
  /\ Move(w, "dead")
  /\ UNCHANGED <<doc, entries, call, seen>>

----------------------------------------------------------------------------
Work(w) ==
  \/ Fetch(w) \/ Begin(w) \/ Checkpoint(w) \/ Unsupported(w) \/ Fail(w)
  \/ CreateEntry(w) \/ Finish(w) \/ MarkFailed(w) \/ MarkCancelled(w)

\* The rest of a call that has begun.
Continue(c) ==
  \/ Submit(c) \/ Tag(c) \/ RetrySave(c) \/ Delete(c) \/ PollTask(c) \/ Sweep(c)

Next ==
  \/ Cancel
  \/ \E c \in Client :
       Upload(c) \/ RetryRead(c) \/ DeleteRead(c) \/ PollRead(c) \/ Continue(c)
  \/ \E w \in Worker : Work(w) \/ Crash(w)

Spec == Init /\ [][Next]_vars

\* A call that began goes on, a task in its pipeline moves on within
\* AI_SDK_FILE_PIPELINE_TIMEOUT, and a document that is PROCESSING is polled again
\* and again, whatever else is asked for.  Nothing is assumed of the queue, nor of indexing an entry, which no
\* timeout bounds.
Progress(w) ==
  /\ pc[w] \notin {"queued", "created"}
  /\ Work(w)
  /\ pc'[w] # pc[w]

FairSpec ==
  /\ Spec
  /\ \A w \in Worker : WF_vars(Progress(w))
  /\ \A c \in Client : WF_vars(Continue(c))
  /\ SF_vars(\E c \in Client : PollRead(c))

----------------------------------------------------------------------------
(* Properties.                                                             *)

\* A COMPLETED document has the entry it links to, whatever was retried,
\* cancelled or deleted meanwhile: RAG reads the content there.
CompletedHasEntry == doc.status = "completed" => doc.entry \in entries

\* A document cancelled since its last retry is not COMPLETED: the cancel wins
\* even past the last checkpoint, and even when the task's first save has put the
\* row back to PROCESSING.
CancelledNeverCompletes == doc.status = "completed" => ~doc.cancelled

\* Every path a task takes settles the document: one that says PROCESSING has a
\* task queued or at work, or one that died at work.
ProcessingHasTask ==
  doc.status = "processing" => \E w \in Worker : pc[w] \in {"queued", "dead"} \cup Working

\* processing_step is null except while the document is PROCESSING.
StepOnlyWhileProcessing == doc.step => doc.status = "processing"

\* Status, step and task agree about whether the document is being processed.
TaskMatchesStatus == ProcessingHasTask /\ StepOnlyWhileProcessing

\* Re-processing makes no duplicate: the entries created for one document never
\* number more than one.
OneEntry == \A v, w \in entries : v = w

\* The entry a document links to is replaced by none, and goes with the document.
LinkedEntryIsKept ==
  [][doc.entry # NoWorker => doc'.entry = doc.entry \/ doc'.status = "gone"]_vars

\* Only a stuck document is failed by a poll: none that a task is inside the
\* pipeline for.
PollSparesWorkers ==
  [][(\E c \in Client : Sweep(c)) /\ doc' # doc => Stepping = {}]_vars

\* No document stays PROCESSING for ever, though its worker die, its task never
\* leave the queue, or its entry never be indexed.
DocumentSettles == doc.status = "processing" ~> doc.status # "processing"

\* What a caller sees is the life DocumentLifecycle promises, where a document
\* cancelled since its last retry counts as cancelled whatever its status says.
Visible == IF doc.cancelled THEN "cancelled" ELSE doc.status

Lifecycle == INSTANCE DocumentLifecycle
  WITH Entry <- Worker, NoEntry <- NoWorker, state <- Visible, linked <- doc.entry

KeepsLifecycle == Lifecycle!Spec
=============================================================================
