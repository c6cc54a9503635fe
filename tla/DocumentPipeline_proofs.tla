---------------------- MODULE DocumentPipeline_proofs ----------------------
(* Theorems about DocumentPipeline, for any callers, tasks and environment. *)
EXTENDS DocumentPipeline, TLAPS

DocumentRow ==
  [status : Status, cancelled : BOOLEAN, step : BOOLEAN,
   entry : Worker \cup {NoWorker}, task : Worker \cup {NoWorker}]

\* What the updates of the row make of it is again a row.
LEMMA UpdatedRow ==
  ASSUME NEW row \in DocumentRow, NEW status \in Status,
         NEW cancelled \in BOOLEAN, NEW step \in BOOLEAN
  PROVE  [row EXCEPT !.status = status, !.cancelled = cancelled, !.step = step]
           \in DocumentRow
BY DEF DocumentRow

LEMMA TransitionRow ==
  ASSUME doc \in DocumentRow, NEW status \in Status, Transition(status)
  PROVE  doc' \in DocumentRow
<1>1. [doc EXCEPT !.status = status, !.step = FALSE] \in DocumentRow
  BY DEF DocumentRow
<1> QED
  BY <1>1 DEF Transition

\* Every variable keeps its type: no call or task leaves the row, or a caller,
\* outside the states the code names.
THEOREM TypeCorrect == Spec => []TypeOK
<1>1. Init => TypeOK
  BY DEF Init, TypeOK, Status, Place, Calls
<1>2. TypeOK /\ [Next]_vars => TypeOK'
  <2> SUFFICES ASSUME TypeOK, [Next]_vars PROVE TypeOK'
    OBVIOUS
  <2> USE DEF TypeOK, Status, Row, Place, Working, Calls, Goto, Move, Exists, Gone, Transition
  <2>0. doc \in DocumentRow
    BY DEF DocumentRow
  <2>1. CASE Cancel
    <3>1. doc' \in DocumentRow
      BY <2>1, <2>0, UpdatedRow DEF Cancel
    <3> QED
      BY <2>1, <3>1 DEF Cancel, DocumentRow
  <2>2. ASSUME NEW c \in Client, Upload(c) \/ RetryRead(c) \/ DeleteRead(c) \/ PollRead(c)
        PROVE  TypeOK'
    BY <2>2 DEF Upload, RetryRead, DeleteRead, PollRead
  <2>3. ASSUME NEW c \in Client, Continue(c) PROVE TypeOK'
    <3>1. CASE Submit(c)
      BY <3>1 DEF Submit
    <3>2. CASE Tag(c)
      BY <3>2 DEF Tag
    <3>3. CASE RetrySave(c)
      <4>1. doc' \in DocumentRow
        BY <3>3, <2>0, UpdatedRow DEF RetrySave
      <4> QED
        BY <3>3, <4>1 DEF RetrySave, DocumentRow
    <3>4. CASE Delete(c)
      BY <3>4 DEF Delete
    <3>5. CASE PollTask(c)
      BY <3>5 DEF PollTask
    <3>6. CASE Sweep(c)
      BY <3>6 DEF Sweep
    <3> QED
      BY <2>3, <3>1, <3>2, <3>3, <3>4, <3>5, <3>6 DEF Continue
  <2>4. ASSUME NEW w \in Worker, Work(w) PROVE TypeOK'
    <3>1. CASE Fetch(w)
      BY <3>1 DEF Fetch
    <3>2. CASE Begin(w)
      BY <3>2 DEF Begin
    <3>3. CASE Checkpoint(w)
      <4>1. \A named \in BOOLEAN : [doc EXCEPT !.step = named] \in DocumentRow
        BY <2>0 DEF DocumentRow
      <4>2. doc' \in DocumentRow
        BY <3>3, <2>0, <4>1 DEF Checkpoint
      <4> QED
        BY <3>3, <4>2 DEF Checkpoint, DocumentRow
    <3>4. CASE Unsupported(w)
      <4>1. doc' \in DocumentRow
        BY <3>4, <2>0, TransitionRow DEF Unsupported
      <4> QED
        BY <3>4, <4>1 DEF Unsupported, DocumentRow
    <3>5. CASE Fail(w)
      BY <3>5 DEF Fail
    <3>6. CASE CreateEntry(w)
      BY <3>6 DEF CreateEntry
    <3>7. CASE Finish(w)
      <4>1. [doc EXCEPT !.status = "completed", !.entry = w, !.step = FALSE] \in DocumentRow
        BY <2>0 DEF DocumentRow
      <4>2. doc' \in DocumentRow
        BY <3>7, <2>0, <4>1 DEF Finish
      <4> QED
        BY <3>7, <4>2 DEF Finish, DocumentRow
    <3>8. CASE MarkFailed(w)
      <4>1. doc' \in DocumentRow
        BY <3>8, <2>0, TransitionRow DEF MarkFailed
      <4>2. pc' \in [Worker -> Place]
        BY <3>8 DEF MarkFailed
      <4> QED
        BY <3>8, <4>1, <4>2 DEF MarkFailed, DocumentRow
    <3>9. CASE MarkCancelled(w)
      <4>1. doc' \in DocumentRow
        BY <3>9, <2>0, TransitionRow DEF MarkCancelled
      <4> QED
        BY <3>9, <4>1 DEF MarkCancelled, DocumentRow
    <3> QED
      BY <2>4, <3>1, <3>2, <3>3, <3>4, <3>5, <3>6, <3>7, <3>8, <3>9 DEF Work
  <2>5. ASSUME NEW w \in Worker, Crash(w) PROVE TypeOK'
    BY <2>5 DEF Crash
  <2>6. CASE UNCHANGED vars
    BY <2>6 DEF vars
  <2> QED
    BY <2>1, <2>2, <2>3, <2>4, <2>5, <2>6 DEF Next
<1> QED
  BY <1>1, <1>2, PTL DEF Spec

----------------------------------------------------------------------------
\* An entry that is linked, or that a caller is about to delete, was made by a
\* task that is done; a task past Entry.acreate still finds its entry.
LinkedByDone ==
  /\ doc.entry # NoWorker => doc.entry \in entries /\ pc[doc.entry] = "done"
  /\ doc.status = "completed" => doc.entry # NoWorker
  /\ \A w \in Worker : pc[w] = "created" => w \in entries
  /\ \A c \in Client : call[c] = "deleting" /\ seen[c] # NoWorker => pc[seen[c]] = "done"

\* The invariant from which CompletedHasEntry follows: without its last conjunct
\* a delete could take the entry of a task that has yet to link it.
LEMMA LinksAreSound == Spec => []LinkedByDone
<1>1. Init => LinkedByDone
  BY DEF Init, LinkedByDone
<1>2. TypeOK /\ LinkedByDone /\ [Next]_vars => LinkedByDone'
  <2> SUFFICES ASSUME TypeOK, LinkedByDone, [Next]_vars PROVE LinkedByDone'
    OBVIOUS
  <2> USE DocumentAssumption
      DEF TypeOK, LinkedByDone, Status, Row, Working, Goto, Move, Exists, Gone, Transition
  <2>1. CASE Cancel
    BY <2>1 DEF Cancel
  <2>2. ASSUME NEW c \in Client, Upload(c) \/ RetryRead(c) \/ DeleteRead(c) \/ PollRead(c)
        PROVE  LinkedByDone'
    <3>1. CASE Upload(c)
      BY <3>1 DEF Upload
    <3>2. CASE RetryRead(c)
      BY <3>2 DEF RetryRead
    <3>3. CASE DeleteRead(c)
      BY <3>3 DEF DeleteRead
    <3>4. CASE PollRead(c)
      BY <3>4 DEF PollRead
    <3> QED
      BY <2>2, <3>1, <3>2, <3>3, <3>4
  <2>3. ASSUME NEW c \in Client, Continue(c) PROVE LinkedByDone'
    <3>1. CASE Submit(c)
      BY <3>1 DEF Submit
    <3>2. CASE Tag(c)
      BY <3>2 DEF Tag
    <3>3. CASE RetrySave(c)
      BY <3>3 DEF RetrySave
    <3>4. CASE Delete(c)
      BY <3>4 DEF Delete
    <3>5. CASE PollTask(c)
      BY <3>5 DEF PollTask
    <3>6. CASE Sweep(c)
      BY <3>6 DEF Sweep
    <3> QED
      BY <2>3, <3>1, <3>2, <3>3, <3>4, <3>5, <3>6 DEF Continue
  <2>4. ASSUME NEW w \in Worker, Work(w) PROVE LinkedByDone'
    <3>1. CASE Fetch(w)
      BY <3>1 DEF Fetch
    <3>2. CASE Begin(w)
      BY <3>2 DEF Begin
    <3>3. CASE Checkpoint(w)
      BY <3>3 DEF Checkpoint
    <3>4. CASE Unsupported(w)
      BY <3>4 DEF Unsupported
    <3>5. CASE Fail(w)
      BY <3>5 DEF Fail
    <3>6. CASE CreateEntry(w)
      BY <3>6 DEF CreateEntry
    <3>7. CASE Finish(w)
      BY <3>7 DEF Finish
    <3>8. CASE MarkFailed(w)
      BY <3>8 DEF MarkFailed
    <3>9. CASE MarkCancelled(w)
      BY <3>9 DEF MarkCancelled
    <3> QED
      BY <2>4, <3>1, <3>2, <3>3, <3>4, <3>5, <3>6, <3>7, <3>8, <3>9 DEF Work
  <2>5. ASSUME NEW w \in Worker, Crash(w) PROVE LinkedByDone'
    BY <2>5 DEF Crash
  <2>6. CASE UNCHANGED vars
    BY <2>6 DEF vars
  <2> QED
    BY <2>1, <2>2, <2>3, <2>4, <2>5, <2>6 DEF Next
<1> QED
  BY <1>1, <1>2, TypeCorrect, PTL DEF Spec

\* A COMPLETED document has its entry, whatever is retried, cancelled, deleted,
\* polled or dies meanwhile, and however many tasks work at it.
THEOREM CompletedDocumentsHaveEntries == Spec => []CompletedHasEntry
<1>1. LinkedByDone => CompletedHasEntry
  BY DEF LinkedByDone, CompletedHasEntry
<1> QED
  BY <1>1, LinksAreSound, PTL
----------------------------------------------------------------------------
(* One attempt at a time.  While nobody retries a document that a call or a *)
(* task is busy with, a document has at most one call that is queueing it   *)
(* and at most one task that is queued or at work; OrderlyInv says what     *)
(* each knows of the row, and the four properties of the orderly run follow *)
(* from it.                                                                 *)

OneRetryAtATime == "overlap" \notin Allowed

Attempting == {"queued"} \cup Working
Asking     == {"submitting", "tagging", "retrying"}

OneAttempt ==
  /\ \A v, w \in Worker : pc[v] \in Attempting /\ pc[w] \in Attempting => v = w
  /\ \A c, e \in Client : call[c] \in Asking /\ call[e] \in Asking => c = e

\* A call about to queue the document: no task has it, and no poll has found it.
BeforeQueue ==
  \A c \in Client : call[c] \in {"submitting", "retrying"} =>
    /\ \A w \in Worker : pc[w] \notin Attempting
    /\ \A e \in Client : call[e] \notin {"polling", "sweeping"}
    /\ doc.status \notin {"processing", "completed"}
    /\ call[c] = "submitting" /\ Exists /\ ~doc.cancelled => doc.status = "pending"

\* A call that has queued it and not yet tagged it: the task cannot have ended
\* while the row still says PENDING.
BeforeTag ==
  \A c \in Client : call[c] = "tagging" =>
    /\ seen[c] \in Worker
    /\ \A w \in Worker : pc[w] \in Attempting => w = seen[c]
    /\ doc.status = "pending" => pc[seen[c]] \in {"queued", "loaded", "dead"}

NoDocument ==
  /\ doc.status = "absent" => /\ \A c \in Client : call[c] = "idle"
                              /\ \A w \in Worker : pc[w] = "idle"
  /\ doc.status \in {"absent", "gone"} => ~doc.cancelled /\ doc.entry = NoWorker

\* Only a task that loaded the row before the cancel puts it back to PROCESSING,
\* and its next checkpoint stops it.
CancelSticks ==
  /\ doc.status = "pending" => ~doc.cancelled
  /\ doc.status = "processing" /\ doc.cancelled =>
       \A w \in Worker : pc[w] \notin {"queued", "loaded", "stepping", "created"}

\* Linking the entry is the last thing that happens to a document.
LinkIsLast ==
  /\ doc.entry # NoWorker => doc.status = "completed"
  /\ doc.status = "completed" => /\ ~doc.cancelled
                                 /\ \A w \in Worker : pc[w] \notin Attempting

OrderlyInv ==
  OneAttempt /\ BeforeQueue /\ BeforeTag /\ NoDocument /\ CancelSticks /\ LinkIsLast

LEMMA OrderlyStep ==
  ASSUME OneRetryAtATime, TypeOK, TypeOK', OrderlyInv, [Next]_vars
  PROVE  OrderlyInv'
<1> USE DocumentAssumption
    DEF OneRetryAtATime, TypeOK, Attempting, Asking, Working, Row, Exists, Goto, Move,
        Transition, Gone, OrderlyInv, OneAttempt, BeforeQueue, BeforeTag, NoDocument,
        CancelSticks, LinkIsLast
<1>1. CASE Cancel
  BY <1>1 DEF Cancel
<1>2. ASSUME NEW c \in Client, Upload(c) PROVE OrderlyInv'
  BY <1>2 DEF Upload
<1>3. ASSUME NEW c \in Client, RetryRead(c) PROVE OrderlyInv'
  BY <1>3 DEF RetryRead, Undisturbed, Retryable
<1>4. ASSUME NEW c \in Client, DeleteRead(c) PROVE OrderlyInv'
  BY <1>4 DEF DeleteRead
<1>5. ASSUME NEW c \in Client, PollRead(c) PROVE OrderlyInv'
  BY <1>5 DEF PollRead
<1>6. ASSUME NEW c \in Client, Continue(c) PROVE OrderlyInv'
  <2>1. CASE Submit(c)
    BY <2>1 DEF Submit
  <2>2. CASE Tag(c)
    BY <2>2 DEF Tag
  <2>3. CASE RetrySave(c)
    <3>1. CASE Exists
      <4>0. doc' = [doc EXCEPT !.status = "pending", !.cancelled = FALSE, !.step = FALSE]
        BY <2>3, <3>1 DEF RetrySave
      <4>1. /\ doc'.status = "pending" /\ ~doc'.cancelled /\ doc'.entry = doc.entry
            /\ call' = [call EXCEPT ![c] = "submitting"] /\ pc' = pc /\ seen' = seen
        BY <4>0, <2>3, <3>1 DEF RetrySave
      <4>2. OneAttempt' /\ BeforeTag'
        BY <2>3, <4>1 DEF RetrySave
      <4>3. BeforeQueue'
        BY <2>3, <4>1 DEF RetrySave
      <4>4. NoDocument' /\ CancelSticks' /\ LinkIsLast'
        BY <2>3, <4>1 DEF RetrySave
      <4> QED
        BY <4>2, <4>3, <4>4
    <3>2. CASE ~Exists
      BY <2>3, <3>2 DEF RetrySave
    <3> QED
      BY <3>1, <3>2
  <2>4. CASE Delete(c)
    <3>1. /\ call' = [call EXCEPT ![c] = "idle"] /\ pc' = pc /\ seen' = seen
          /\ \/ doc' = doc
             \/ doc'.status = "gone" /\ ~doc'.cancelled /\ doc'.entry = NoWorker
      BY <2>4 DEF Delete
    <3>2. doc.status # "absent"
      BY <2>4 DEF Delete
    <3> QED
      BY <3>1, <3>2
  <2>5. CASE PollTask(c)
    BY <2>5 DEF PollTask
  <2>6. CASE Sweep(c)
    BY <2>6 DEF Sweep
  <2> QED
    BY <1>6, <2>1, <2>2, <2>3, <2>4, <2>5, <2>6 DEF Continue
<1>7. ASSUME NEW w \in Worker, Work(w) PROVE OrderlyInv'
  <2>1. CASE Fetch(w)
    BY <2>1 DEF Fetch
  <2>2. CASE Begin(w)
    BY <2>2 DEF Begin
  <2>3. CASE Checkpoint(w)
    BY <2>3 DEF Checkpoint
  <2>4. CASE Unsupported(w)
    BY <2>4 DEF Unsupported
  <2>5. CASE Fail(w)
    BY <2>5 DEF Fail
  <2>6. CASE CreateEntry(w)
    BY <2>6 DEF CreateEntry
  <2>7. CASE Finish(w)
    BY <2>7 DEF Finish
  <2>8. CASE MarkFailed(w)
    BY <2>8 DEF MarkFailed
  <2>9. CASE MarkCancelled(w)
    BY <2>9 DEF MarkCancelled
  <2> QED
    BY <1>7, <2>1, <2>2, <2>3, <2>4, <2>5, <2>6, <2>7, <2>8, <2>9 DEF Work
<1>8. ASSUME NEW w \in Worker, Crash(w) PROVE OrderlyInv'
  BY <1>8 DEF Crash
<1>9. CASE UNCHANGED vars
  BY <1>9 DEF vars
<1> QED
  BY <1>1, <1>2, <1>3, <1>4, <1>5, <1>6, <1>7, <1>8, <1>9 DEF Next

LEMMA AttemptsAreOrderly ==
  ASSUME OneRetryAtATime
  PROVE  Spec => []OrderlyInv
<1>1. Init => OrderlyInv
  BY DEF Init, OrderlyInv, OneAttempt, BeforeQueue, BeforeTag, NoDocument, CancelSticks,
         LinkIsLast, Attempting, Asking, Working, Exists, Row
<1>2. TypeOK /\ TypeOK' /\ OrderlyInv /\ [Next]_vars => OrderlyInv'
  BY OrderlyStep
<1> QED
  BY <1>1, <1>2, TypeCorrect, PTL DEF Spec

\* A document cancelled since its last retry is never COMPLETED, wherever in the
\* pipeline the cancel finds its task (cancel_document, _on_step and the last update
\* of run_file_pipeline), as long as no retry overlaps a call or a task at work.
THEOREM CancelledDocumentsNeverComplete ==
  ASSUME OneRetryAtATime
  PROVE  Spec => []CancelledNeverCompletes
<1>1. OrderlyInv => CancelledNeverCompletes
  BY DEF OrderlyInv, LinkIsLast, CancelledNeverCompletes
<1> QED
  BY <1>1, AttemptsAreOrderly, PTL

\* The entry a document links to is replaced by none, and goes with the document.
THEOREM LinkedEntriesAreKept ==
  ASSUME OneRetryAtATime
  PROVE  Spec => LinkedEntryIsKept
<1>1. /\ TypeOK /\ OrderlyInv /\ [Next]_vars
      => [doc.entry # NoWorker => doc'.entry = doc.entry \/ doc'.status = "gone"]_vars
  <2> SUFFICES ASSUME TypeOK, OrderlyInv, [Next]_vars, doc.entry # NoWorker
               PROVE  doc'.entry = doc.entry \/ doc'.status = "gone"
    OBVIOUS
  <2> USE DEF TypeOK, OrderlyInv, LinkIsLast, BeforeQueue, Attempting, Working, Transition, Gone
  <2>1. CASE Cancel
    BY <2>1 DEF Cancel
  <2>2. ASSUME NEW c \in Client,
               Upload(c) \/ RetryRead(c) \/ DeleteRead(c) \/ PollRead(c) \/ Continue(c)
        PROVE  doc'.entry = doc.entry \/ doc'.status = "gone"
    BY <2>2 DEF Upload, RetryRead, DeleteRead, PollRead, Continue, Submit, Tag, RetrySave,
                Delete, PollTask, Sweep
  <2>3. ASSUME NEW w \in Worker, Work(w) \/ Crash(w)
        PROVE  doc'.entry = doc.entry \/ doc'.status = "gone"
    BY <2>3 DEF Work, Crash, Fetch, Begin, Checkpoint, Unsupported, Fail, CreateEntry, Finish,
                MarkFailed, MarkCancelled
  <2>4. CASE UNCHANGED vars
    BY <2>4 DEF vars
  <2> QED
    BY <2>1, <2>2, <2>3, <2>4 DEF Next
<1> QED
  BY <1>1, TypeCorrect, AttemptsAreOrderly, PTL DEF Spec, LinkedEntryIsKept

\* With nobody polling, only a cancel, a delete or the task itself takes a document
\* out of PROCESSING, and the task finds the cancel or the delete at its checkpoint.
UnpolledInv ==
  /\ \A c \in Client : call[c] \notin {"polling", "sweeping"}
  /\ \A w \in Worker : pc[w] \in {"begun", "stepping"} /\ Exists /\ ~doc.cancelled =>
       doc.status = "processing"
  /\ StepOnlyWhileProcessing

LEMMA TaskStep ==
  ASSUME OneRetryAtATime, TypeOK, TypeOK', OrderlyInv, ProcessingHasTask, [Next]_vars
  PROVE  /\ ProcessingHasTask'
         /\ "poll" \notin Allowed /\ UnpolledInv => UnpolledInv'
<1> DEFINE Goal == /\ ProcessingHasTask'
                   /\ "poll" \notin Allowed /\ UnpolledInv => UnpolledInv'
<1> USE DocumentAssumption
    DEF OneRetryAtATime, TypeOK, Attempting, Asking, Working, Row, Exists, Goto, Move,
        Transition, Gone, OrderlyInv, OneAttempt, BeforeQueue, BeforeTag, NoDocument,
        CancelSticks, LinkIsLast, ProcessingHasTask, UnpolledInv, StepOnlyWhileProcessing
<1>1. CASE Cancel
  BY <1>1 DEF Cancel
<1>2. ASSUME NEW c \in Client, Upload(c) \/ RetryRead(c) \/ DeleteRead(c) \/ PollRead(c) PROVE Goal
  BY <1>2 DEF Upload, RetryRead, DeleteRead, PollRead
<1>3. ASSUME NEW c \in Client, Continue(c) PROVE Goal
  <2>1. CASE Submit(c)
    BY <2>1 DEF Submit
  <2>2. CASE Tag(c)
    BY <2>2 DEF Tag
  <2>3. CASE RetrySave(c)
    <3>1. \/ doc' = [doc EXCEPT !.status = "pending", !.cancelled = FALSE, !.step = FALSE]
          \/ doc' = doc
      BY <2>3 DEF RetrySave
    <3>2. (doc'.status = "pending" /\ ~doc'.step) \/ doc' = doc
      BY <3>1
    <3> QED
      BY <2>3, <3>2 DEF RetrySave
  <2>4. CASE Delete(c)
    <3>1. (doc'.status = "gone" /\ ~doc'.step) \/ doc' = doc
      BY <2>4 DEF Delete
    <3> QED
      BY <2>4, <3>1 DEF Delete
  <2>5. CASE PollTask(c)
    BY <2>5 DEF PollTask
  <2>6. CASE Sweep(c)
    BY <2>6 DEF Sweep
  <2> QED
    BY <1>3, <2>1, <2>2, <2>3, <2>4, <2>5, <2>6 DEF Continue
<1>4. ASSUME NEW w \in Worker, Work(w) PROVE Goal
  <2>1. CASE Fetch(w)
    BY <2>1 DEF Fetch
  <2>2. CASE Begin(w)
    BY <2>2 DEF Begin
  <2>3. CASE Checkpoint(w)
    BY <2>3 DEF Checkpoint
  <2>4. CASE Unsupported(w)
    BY <2>4 DEF Unsupported
  <2>5. CASE Fail(w)
    BY <2>5 DEF Fail
  <2>6. CASE CreateEntry(w)
    BY <2>6 DEF CreateEntry
  <2>7. CASE Finish(w)
    BY <2>7 DEF Finish
  <2>8. CASE MarkFailed(w)
    BY <2>8 DEF MarkFailed
  <2>9. CASE MarkCancelled(w)
    BY <2>9 DEF MarkCancelled
  <2> QED
    BY <1>4, <2>1, <2>2, <2>3, <2>4, <2>5, <2>6, <2>7, <2>8, <2>9 DEF Work
<1>5. ASSUME NEW w \in Worker, Crash(w) PROVE Goal
  BY <1>5 DEF Crash
<1>6. CASE UNCHANGED vars
  BY <1>6 DEF vars
<1> QED
  BY <1>1, <1>2, <1>3, <1>4, <1>5, <1>6 DEF Next

\* A document that says PROCESSING has a task queued, at work, or dead at work: every
\* path a task takes settles the document (run_file_pipeline).  With nobody polling,
\* processing_step is null whenever it says anything else.
THEOREM TasksMatchStatuses ==
  ASSUME OneRetryAtATime, "poll" \notin Allowed
  PROVE  Spec => []TaskMatchesStatus
<1>1. Init => ProcessingHasTask /\ UnpolledInv
  BY DEF Init, ProcessingHasTask, UnpolledInv, StepOnlyWhileProcessing
<1>2. /\ TypeOK /\ TypeOK' /\ OrderlyInv /\ ProcessingHasTask /\ UnpolledInv /\ [Next]_vars
      => ProcessingHasTask' /\ UnpolledInv'
  BY TaskStep
<1>3. ProcessingHasTask /\ UnpolledInv => TaskMatchesStatus
  BY DEF TaskMatchesStatus, UnpolledInv
<1> QED
  BY <1>1, <1>2, <1>3, TypeCorrect, AttemptsAreOrderly, PTL DEF Spec
----------------------------------------------------------------------------
(* The refinement.  The visible status moves as DocumentLifecycle says, for  *)
(* orderly retries and, if callers poll, tasks that are never slow: a poll   *)
(* that takes a slow task for a dead one fails the document before the task  *)
(* begins, and the task then puts it back to PROCESSING.                     *)

PollsAreRight == ~({"poll", "slow"} \subseteq Allowed)

\* A task that has yet to save PROCESSING: nothing but a cancel or a delete has
\* happened to the row since it was queued, and no poll is about to fail it.
TimelyInv ==
  \A w \in Worker : pc[w] \in {"queued", "loaded"} =>
    /\ Exists /\ ~doc.cancelled => doc.status \in {"pending", "processing"}
    /\ doc.status = "processing" => doc.task = w
    /\ \A c \in Client : /\ call[c] = "polling" => seen[c] = w
                         /\ call[c] # "sweeping"
    /\ "poll" \notin Allowed => \A c \in Client : call[c] # "polling"

LEMMA TimelyStep ==
  ASSUME OneRetryAtATime, PollsAreRight, TypeOK, TypeOK', OrderlyInv, TimelyInv, [Next]_vars
  PROVE  TimelyInv'
<1> USE DocumentAssumption
    DEF OneRetryAtATime, PollsAreRight, TypeOK, Attempting, Asking, Working, Row, Exists, Goto,
        Move, Transition, Gone, OrderlyInv, OneAttempt, BeforeQueue, BeforeTag, NoDocument,
        CancelSticks, LinkIsLast, TimelyInv
<1>1. CASE Cancel
  BY <1>1 DEF Cancel
<1>2. ASSUME NEW c \in Client, Upload(c) \/ RetryRead(c) \/ DeleteRead(c) \/ PollRead(c)
      PROVE  TimelyInv'
  BY <1>2 DEF Upload, RetryRead, DeleteRead, PollRead, Undisturbed
<1>3. ASSUME NEW c \in Client, Continue(c) PROVE TimelyInv'
  <2>1. CASE Submit(c)
    BY <2>1 DEF Submit
  <2>2. CASE Tag(c)
    BY <2>2 DEF Tag
  <2>3. CASE RetrySave(c)
    BY <2>3 DEF RetrySave
  <2>4. CASE Delete(c)
    <3>1. doc'.status = "gone" \/ doc' = doc
      BY <2>4 DEF Delete
    <3> QED
      BY <2>4, <3>1 DEF Delete
  <2>5. CASE PollTask(c)
    BY <2>5 DEF PollTask, Ended, Overdue
  <2>6. CASE Sweep(c)
    BY <2>6 DEF Sweep
  <2> QED
    BY <1>3, <2>1, <2>2, <2>3, <2>4, <2>5, <2>6 DEF Continue
<1>4. ASSUME NEW w \in Worker, Work(w) PROVE TimelyInv'
  <2>1. CASE Fetch(w)
    BY <2>1 DEF Fetch
  <2>2. CASE Begin(w)
    BY <2>2 DEF Begin
  <2>3. CASE Checkpoint(w)
    BY <2>3 DEF Checkpoint
  <2>4. CASE Unsupported(w)
    BY <2>4 DEF Unsupported
  <2>5. CASE Fail(w)
    BY <2>5 DEF Fail
  <2>6. CASE CreateEntry(w)
    BY <2>6 DEF CreateEntry
  <2>7. CASE Finish(w)
    BY <2>7 DEF Finish
  <2>8. CASE MarkFailed(w)
    BY <2>8 DEF MarkFailed
  <2>9. CASE MarkCancelled(w)
    BY <2>9 DEF MarkCancelled
  <2> QED
    BY <1>4, <2>1, <2>2, <2>3, <2>4, <2>5, <2>6, <2>7, <2>8, <2>9 DEF Work
<1>5. ASSUME NEW w \in Worker, Crash(w) PROVE TimelyInv'
  BY <1>5 DEF Crash
<1>6. CASE UNCHANGED vars
  BY <1>6 DEF vars
<1> QED
  BY <1>1, <1>2, <1>3, <1>4, <1>5, <1>6 DEF Next

\* Every statement that writes the row is a move of the life cycle, or invisible.
LEMMA LifecycleStep ==
  ASSUME OneRetryAtATime, TypeOK, TypeOK', OrderlyInv, TimelyInv, [Next]_vars
  PROVE  [Lifecycle!Next]_(Lifecycle!life)
<1> DEFINE Goal == [Lifecycle!Next]_(Lifecycle!life)
<1> USE DocumentAssumption
    DEF TypeOK, Row, Exists, Move, Goto, OrderlyInv, Visible, Lifecycle!Next, Lifecycle!life, Lifecycle!Move
<1>0. doc' = doc => Goal
  OBVIOUS
<1>1. CASE Cancel
  <2>1. /\ doc.status \in {"pending", "processing"} /\ doc'.cancelled /\ doc'.entry = doc.entry
        /\ doc'.status = "cancelled"
    BY <1>1 DEF Cancel
  <2> QED
    BY <2>1 DEF Lifecycle!Cancel
<1>2. ASSUME NEW c \in Client, Upload(c) PROVE Goal
  <2>1. /\ doc.status = "absent" /\ ~doc.cancelled /\ ~doc'.cancelled /\ doc'.entry = doc.entry
        /\ doc'.status = "pending"
    BY <1>2 DEF Upload, NoDocument
  <2> QED
    BY <2>1 DEF Lifecycle!Queue
<1>3. ASSUME NEW c \in Client, RetryRead(c) \/ DeleteRead(c) \/ PollRead(c) \/ Submit(c) \/ PollTask(c)
      PROVE  Goal
  BY <1>0, <1>3 DEF RetryRead, DeleteRead, PollRead, Submit, PollTask
<1>4. ASSUME NEW c \in Client, Tag(c) PROVE Goal
  <2>1. \/ doc' = doc
        \/ /\ doc.status = "pending" /\ ~doc.cancelled /\ ~doc'.cancelled /\ doc'.entry = doc.entry
           /\ doc'.status = "processing"
    BY <1>4 DEF Tag, CancelSticks
  <2> QED
    BY <1>0, <2>1 DEF Lifecycle!Process
<1>5. ASSUME NEW c \in Client, RetrySave(c) PROVE Goal
  <2>1. \/ doc' = doc
        \/ doc' = [doc EXCEPT !.status = "pending", !.cancelled = FALSE, !.step = FALSE]
    BY <1>5 DEF RetrySave
  <2>2. doc' = doc \/ (doc'.status = "pending" /\ ~doc'.cancelled /\ doc'.entry = doc.entry)
    BY <2>1
  <2>3. doc' = doc \/ doc.status \in {"pending", "failed", "cancelled"}
    <3>1. call[c] = "retrying"
      BY <1>5 DEF RetrySave
    <3>2. doc.status \notin {"processing", "completed"}
      BY <3>1 DEF BeforeQueue
    <3>3. doc' = doc \/ Exists
      BY <1>5 DEF RetrySave
    <3> QED
      BY <1>0, <3>2, <3>3 DEF Exists, NoDocument, Status, Row
  <2> QED
    BY <1>0, <2>2, <2>3 DEF Lifecycle!Queue
<1>6. ASSUME NEW c \in Client, Delete(c) PROVE Goal
  <2>1. \/ doc' = doc
        \/ doc'.status = "gone" /\ ~doc'.cancelled /\ doc'.entry = NoWorker
    BY <1>6 DEF Delete, Gone
  <2>2. doc.status # "absent"
    BY <1>6 DEF Delete, NoDocument
  <2>3. CASE doc.status = "gone"
    BY <1>0, <2>1, <2>3 DEF NoDocument
  <2>4. CASE doc.status # "gone"
    BY <1>0, <2>1, <2>2, <2>4 DEF Lifecycle!Delete, Status
  <2> QED
    BY <2>3, <2>4
\* The conditional updates of a late writer.
<1>7. ASSUME NEW status \in {"failed", "cancelled"}, Transition(status) PROVE Goal
  <2>1. \/ doc' = doc
        \/ /\ doc.status = "processing" /\ doc'.status = status
           /\ doc'.cancelled = doc.cancelled /\ doc'.entry = doc.entry
    BY <1>7 DEF Transition
  <2> QED
    BY <1>0, <2>1 DEF Lifecycle!Stop, Lifecycle!Cancel
<1>8. ASSUME NEW c \in Client, Sweep(c) PROVE Goal
  BY <1>7, <1>8 DEF Sweep
<1>9. ASSUME NEW w \in Worker, Work(w) PROVE Goal
  <2>1. CASE Fetch(w) \/ Fail(w) \/ CreateEntry(w)
    BY <1>0, <2>1 DEF Fetch, Fail, CreateEntry
  <2>2. CASE Begin(w)
    <3>1. CASE ~Exists
      BY <1>0, <2>2, <3>1 DEF Begin
    <3>2. CASE Exists
      <4>1. /\ doc'.status = "processing" /\ doc'.cancelled = doc.cancelled /\ doc'.entry = doc.entry
            /\ ~doc.cancelled => doc.status \in {"pending", "processing"}
        BY <2>2, <3>2 DEF Begin, TimelyInv
      <4> QED
        BY <4>1 DEF Lifecycle!Process
    <3> QED
      BY <3>1, <3>2
  <2>3. CASE Checkpoint(w)
    <3>1. doc'.status = doc.status /\ doc'.cancelled = doc.cancelled /\ doc'.entry = doc.entry
      BY <2>3 DEF Checkpoint
    <3> QED
      BY <3>1
  <2>4. CASE Unsupported(w) \/ MarkFailed(w) \/ MarkCancelled(w)
    BY <1>7, <2>4 DEF Unsupported, MarkFailed, MarkCancelled
  <2>5. CASE Finish(w)
    <3>1. \/ doc' = doc
          \/ /\ doc.status = "processing" /\ ~doc.cancelled /\ doc.entry = NoWorker
             /\ doc'.status = "completed" /\ ~doc'.cancelled /\ doc'.entry = w
      BY <2>5 DEF Finish, CancelSticks, LinkIsLast
    <3> QED
      BY <1>0, <3>1 DEF Lifecycle!Complete
  <2> QED
    BY <1>9, <2>1, <2>2, <2>3, <2>4, <2>5 DEF Work
<1>10. CASE (\E w \in Worker : Crash(w)) \/ UNCHANGED vars
  BY <1>0, <1>10 DEF Crash, vars
<1> QED
  BY <1>1, <1>2, <1>3, <1>4, <1>5, <1>6, <1>8, <1>9, <1>10 DEF Next, Continue

\* DocumentPipeline implements DocumentLifecycle: whoever polls the status sees it move
\* as documented, only a retry starts it over, never a completed one, and the entry is
\* linked once, as it completes.
THEOREM DocumentsKeepTheLifecycle ==
  ASSUME OneRetryAtATime, PollsAreRight
  PROVE  Spec => KeepsLifecycle
<1>1. Init => Lifecycle!Init /\ TimelyInv
  BY DEF Init, Lifecycle!Init, Visible, TimelyInv
<1>2. TypeOK /\ TypeOK' /\ OrderlyInv /\ TimelyInv /\ [Next]_vars => TimelyInv'
  BY TimelyStep
<1>3. TypeOK /\ TypeOK' /\ OrderlyInv /\ TimelyInv /\ [Next]_vars
        => [Lifecycle!Next]_(Lifecycle!life)
  BY LifecycleStep
<1> QED
  BY <1>1, <1>2, <1>3, TypeCorrect, AttemptsAreOrderly, PTL
     DEF Spec, KeepsLifecycle, Lifecycle!Spec
=============================================================================
