-------------------------- MODULE AnnotationInference --------------------------
(***************************************************************************)
(* Automatic labelling: a run is started through the API over the images   *)
(* of a project that nobody has labelled, announced by an outbox event,    *)
(* and carried out by a worker that predicts the boxes of one image after  *)
(* another and writes them into the project that people go on editing.     *)
(*                                                                         *)
(* A run has no lease.  Every delivery of a message takes it over, under a *)
(* new generation (started_at), and the attempt it is taken from goes on   *)
(* until its writes find another generation in the row.                    *)
(***************************************************************************)
EXTENDS AnnotationTables

CONSTANTS
  MaxRuns,      \* bound: runs of the project, numbered from 1
  Workers,      \* Celery worker processes of the queue annotation-ml
  MaxRetries,   \* max_retries of the task (2 in tasks.py)
  Faults, FaultBudget

FaultKinds == {
  "transient",      \* an error of the storage, the model or a transaction
  "permanent",      \* a changed source, an invalid prediction, the soft time limit
  "database_error", \* a statement of the claim or of the failure raises
  "ambiguous",      \* a commit of the worker takes effect but raises
  "rollback",       \* the publisher sends and then does not commit
  "redelivered",    \* the visibility timeout ends before the attempt does
  "retry_send",     \* task.retry() cannot reach the broker
  "worker_lost",    \* a worker process or its host dies with its message unacknowledged
  "hard_timeout" }  \* Celery kills the task at its hard time limit

ASSUME LabellingAssumption ==
  /\ MaxRuns \in Nat /\ MaxRetries \in Nat /\ FaultBudget \in Nat
  /\ Faults \subseteq FaultKinds

VARIABLES
  \* annotation_inference_runs, one entry per column that matters here
  status, generation, processed, targets,
  event,     \* annotation_inference_outbox: none, pending or published
  ready,     \* broker: messages a worker may take, or will when they are visible again
  \* worker processes: where they are, their message, their generation, their target
  wpc, run, retries, mine, position,
  budget,    \* faults still to come
  dropped    \* history: the runs a fault has left with nothing to act on them

rowVars == <<status, generation, processed, targets>>
queueVars == <<event, ready>>
workerVars == <<wpc, run, retries, mine, position>>
labellingVars == <<rowVars, queueVars, workerVars, budget, dropped>>
allVars == <<tableVars, labellingVars>>

-----------------------------------------------------------------------------
(* Types *)

Runs == 1..MaxRuns
Active == {"PENDING", "RUNNING"}
Status == {"none", "SUCCEEDED", "FAILED"} \cup Active
Messages == Runs \X (0..MaxRetries)

\* The generation of an attempt that has none yet, and of one whose claim was undone.
NoGeneration == 0
Undone == -1

Working == {"write", "progress", "finish"}
WorkerPC == {"idle", "retry", "fail"} \cup Working

\* A run has targets from its start, and a generation once it runs; its progress stays
\* within its targets.
RunTypeOK ==
  /\ status \in [Runs -> Status]
  /\ generation \in [Runs -> Nat] /\ processed \in [Runs -> Nat]
  /\ targets \in [Runs -> Seq(Indexes)]
  /\ \A r \in Runs : /\ status[r] = "none" <=> targets[r] = <<>>
                     /\ status[r] \in {"RUNNING", "SUCCEEDED"} => generation[r] # 0
                     /\ processed[r] <= Len(targets[r])

QueueTypeOK ==
  /\ event \in [Runs -> {"none", "pending", "published"}]
  /\ ready \in [Messages -> Nat]

\* A worker with a message has its run, and one at work a target of it.
WorkerTypeOK ==
  /\ wpc \in [Workers -> WorkerPC] /\ run \in [Workers -> Runs \cup {0}]
  /\ retries \in [Workers -> 0..MaxRetries]
  /\ mine \in [Workers -> Nat \cup {Undone}] /\ position \in [Workers -> Nat]
  /\ \A w \in Workers : /\ wpc[w] = "idle" <=> run[w] = 0
                        /\ wpc[w] \in Working => position[w] \in DOMAIN targets[run[w]]

LabellingTypeOK ==
  /\ RunTypeOK /\ QueueTypeOK /\ WorkerTypeOK
  /\ budget \in Nat /\ dropped \subseteq Runs

TypeOK == TableTypeOK /\ LabellingTypeOK

Init ==
  /\ TableInit
  /\ status = [r \in Runs |-> "none"] /\ generation = [r \in Runs |-> 0]
  /\ processed = [r \in Runs |-> 0] /\ targets = [r \in Runs |-> <<>>]
  /\ event = [r \in Runs |-> "none"]
  /\ ready = [m \in Messages |-> 0]
  /\ wpc = [w \in Workers |-> "idle"] /\ run = [w \in Workers |-> 0]
  /\ retries = [w \in Workers |-> 0] /\ mine = [w \in Workers |-> NoGeneration]
  /\ position = [w \in Workers |-> 0]
  /\ budget = FaultBudget /\ dropped = {}

-----------------------------------------------------------------------------
(* Helpers *)

Spend(fault) == fault \in Faults /\ budget > 0 /\ budget' = budget - 1
Calm == budget' = budget

Put(queue, m) == [queue EXCEPT ![m] = @ + 1]
Take(queue, m) == [queue EXCEPT ![m] = @ - 1]
Message(w) == <<run[w], retries[w]>>

Goto(w, p) == wpc' = [wpc EXCEPT ![w] = p]
Next1(w, p) == Goto(w, p) /\ UNCHANGED <<run, retries, mine, position>>

\* The attempt is over; what it still needs is its message, and its generation to fail.
Leave(w, p) ==
  /\ Goto(w, p) /\ position' = [position EXCEPT ![w] = 0]
  /\ UNCHANGED <<run, retries, mine>>

Idle(w) ==
  /\ Goto(w, "idle")
  /\ run' = [run EXCEPT ![w] = 0] /\ retries' = [retries EXCEPT ![w] = 0]
  /\ mine' = [mine EXCEPT ![w] = NoGeneration] /\ position' = [position EXCEPT ![w] = 0]

\* The task returns with these messages in the queue, and its own is acknowledged (rejected
\* for good, if it failed); or the worker is lost just before that, and it comes back.
Acknowledged(w, queue) == Idle(w) /\ ready' = queue /\ Calm
Unacknowledged(w, queue) == Idle(w) /\ ready' = Put(queue, Message(w)) /\ Spend("worker_lost")
Returns(w, queue) == Acknowledged(w, queue) \/ Unacknowledged(w, queue)

Strand(r) == dropped' = IF status[r] \in Active THEN dropped \cup {r} ELSE dropped

\* The fence of every write of an attempt: status RUNNING and started_at = generation.
Owns(w) == status[run[w]] = "RUNNING" /\ generation[run[w]] = mine[w]

-----------------------------------------------------------------------------
(* The API: AnnotationInferenceService.start, under the lock of the project row *)

NoActive == \A r \in Runs : status[r] \notin Active

\* A project with an active run is answered with it; one whose model has lost a class
\* or that has nothing to label is refused.
Start ==
  /\ NoActive
  /\ ModelClasses \subseteq Present
  /\ \E r \in Runs :
       /\ status[r] = "none" /\ \A q \in Runs : q < r => status[q] # "none"
       /\ LET todo == {i \in Indexes : Unlabelled(i)} IN
            /\ todo # {}
            /\ \E order \in InOrder(todo) : targets' = [targets EXCEPT ![r] = order]
       /\ status' = [status EXCEPT ![r] = "PENDING"]
       /\ event' = [event EXCEPT ![r] = "pending"]
  /\ Calm
  /\ UNCHANGED <<tableVars, generation, processed, ready, workerVars, dropped>>

-----------------------------------------------------------------------------
(* The outbox: _publish_one_inference *)

\* An event of a run that has started meanwhile is marked without another message; one
\* that was sent is sent again if its transaction does not commit.
Publish ==
  /\ \E r \in Runs :
       /\ event[r] = "pending"
       /\ ready' = IF status[r] = "PENDING" THEN Put(ready, <<r, 0>>) ELSE ready
       /\ \/ event' = [event EXCEPT ![r] = "published"] /\ Calm
          \/ UNCHANGED event /\ status[r] = "PENDING" /\ Spend("rollback")
  /\ UNCHANGED <<tableVars, rowVars, workerVars, dropped>>

-----------------------------------------------------------------------------
(* The worker: run_annotation_inference *)

\* A worker takes the message m, and is at p with the generation g.
Begin(w, m, p, g) ==
  /\ ready' = Take(ready, m)
  /\ Goto(w, p)
  /\ run' = [run EXCEPT ![w] = m[1]] /\ retries' = [retries EXCEPT ![w] = m[2]]
  /\ mine' = [mine EXCEPT ![w] = g]
  /\ position' = [position EXCEPT ![w] = IF p = "write" THEN 1 ELSE 0]

\* Mutation: only a pending run is claimed.
ClaimablePending(r) == status[r] = "PENDING"
\* Whoever has it, a run that has not ended is taken over.
Claimable(r) == status[r] \in Active

\* Mutation: a claim leaves started_at as it is.
ClaimsUndated(r) ==
  status' = [status EXCEPT ![r] = "RUNNING"] /\ UNCHANGED <<generation, processed, targets>>
ClaimRow(r) ==
  /\ status' = [status EXCEPT ![r] = "RUNNING"]
  /\ generation' = [generation EXCEPT ![r] = @ + 1]
  /\ UNCHANGED <<processed, targets>>

\* (The message of a run that has ended is acknowledged at once.)
Deliver(w, m) ==
  /\ wpc[w] = "idle" /\ ready[m] > 0
  /\ IF Claimable(m[1])
       THEN ClaimRow(m[1]) /\ Begin(w, m, "write", generation[m[1]] + 1)
       ELSE ready' = Take(ready, m) /\ UNCHANGED <<rowVars, workerVars>>
  /\ Calm
  /\ UNCHANGED <<tableVars, event, dropped>>

\* The claim raises before it has a generation, or with one that is not in the row, or
\* with one that is.
DeliverFails(w, m) ==
  /\ wpc[w] = "idle" /\ ready[m] > 0
  /\ Claimable(m[1])
  /\ \/ /\ Spend("database_error")
        /\ \E g \in {NoGeneration, Undone} : Begin(w, m, "retry", g)
        /\ UNCHANGED rowVars
     \/ /\ Spend("ambiguous")
        /\ Begin(w, m, "retry", generation[m[1]] + 1)
        /\ ClaimRow(m[1])
  /\ UNCHANGED <<tableVars, event, dropped>>

Target(w) == targets[run[w]][position[w]]

\* Mutation: an image is filled whoever has labelled it since the start.
FillsAny(w) == TRUE
\* _write_predictions() looks at the image under the locks of run, project and image.
Fills(w) == Owns(w) /\ Unlabelled(Target(w))

\* Predict and write: nothing where the attempt is superseded or the image labelled.
Write(w) ==
  /\ wpc[w] = "write"
  /\ IF Fills(w) THEN CommitPredictions(Target(w), run[w]) ELSE UNCHANGED tableVars
  /\ \/ Next1(w, "progress") /\ Calm
     \/ Leave(w, "retry") /\ Spend("ambiguous")
  /\ UNCHANGED <<rowVars, queueVars, dropped>>

\* func.greatest(processed_image_count, position)
Progressed(w) == IF processed[run[w]] > position[w] THEN processed[run[w]] ELSE position[w]

\* An attempt that is superseded counts nothing, and goes on.
Progress(w) ==
  /\ wpc[w] = "progress"
  /\ processed' = IF Owns(w) THEN [processed EXCEPT ![run[w]] = Progressed(w)] ELSE processed
  /\ LET last == position[w] = Len(targets[run[w]]) IN
       /\ Goto(w, IF last THEN "finish" ELSE "write")
       /\ position' = [position EXCEPT ![w] = IF last THEN @ ELSE @ + 1]
  /\ Calm
  /\ UNCHANGED <<tableVars, status, generation, targets, queueVars, run, retries, mine, dropped>>

SucceedRow(r) ==
  /\ status' = [status EXCEPT ![r] = "SUCCEEDED"]
  /\ processed' = [processed EXCEPT ![r] = Len(targets[r])]
  /\ UNCHANGED <<generation, targets>>

\* Only here does an attempt notice that it is superseded, and it is retried for it.
Finish(w) ==
  /\ wpc[w] = "finish"
  /\ IF Owns(w) THEN /\ SucceedRow(run[w])
                     /\ \/ Returns(w, ready)
                        \/ Leave(w, "retry") /\ Spend("ambiguous") /\ UNCHANGED ready
                ELSE Leave(w, "retry") /\ Calm /\ UNCHANGED <<rowVars, ready>>
  /\ UNCHANGED <<tableVars, event, dropped>>

\* Anything that raises on the way: an error is retried, a permanent one fails the run.
Raises(w) ==
  /\ wpc[w] \in Working
  /\ \/ Spend("transient") /\ Leave(w, "retry")
     \/ Spend("permanent") /\ Leave(w, "fail")
  /\ UNCHANGED <<tableVars, rowVars, queueVars, dropped>>

-----------------------------------------------------------------------------
(* The task around it: auto_label_annotations *)

Retry(w) ==
  /\ wpc[w] = "retry" /\ retries[w] < MaxRetries
  /\ \/ Returns(w, Put(ready, <<run[w], retries[w] + 1>>)) /\ UNCHANGED dropped
     \/ Idle(w) /\ UNCHANGED ready /\ Spend("retry_send") /\ Strand(run[w])
  /\ UNCHANGED <<tableVars, rowVars, event>>

Exhausted(w) ==
  /\ wpc[w] = "retry" /\ retries[w] = MaxRetries
  /\ Next1(w, "fail")
  /\ Calm
  /\ UNCHANGED <<tableVars, rowVars, queueVars, dropped>>

\* Mutation: the failure is that of the generation, whatever has become of the run.
FailsEnded(w) == generation[run[w]] = mine[w]
\* fail_inference(): the run of the attempt's own generation, or a pending one for an
\* attempt that has none.
FailsOwn(w) ==
  /\ status[run[w]] \in Active
  /\ IF mine[w] = NoGeneration THEN status[run[w]] = "PENDING"
                               ELSE generation[run[w]] = mine[w]

\* A claim that raised leaves a row that this does not match: nobody is left to end it.
Fail(w) ==
  /\ wpc[w] = "fail"
  /\ \/ /\ Returns(w, ready)
        /\ IF FailsOwn(w) THEN /\ status' = [status EXCEPT ![run[w]] = "FAILED"]
                               /\ UNCHANGED dropped
           ELSE /\ UNCHANGED status
                /\ IF mine[w] \in {NoGeneration, Undone} THEN Strand(run[w])
                                                         ELSE UNCHANGED dropped
     \/ /\ Idle(w) /\ UNCHANGED ready
        /\ Spend("database_error") /\ Strand(run[w]) /\ UNCHANGED status
  /\ UNCHANGED <<tableVars, generation, processed, targets, event>>

-----------------------------------------------------------------------------
(* Crashes and the broker *)

\* The message comes back: requeued by the worker's parent, or after the visibility
\* timeout; and after it also beside an attempt that goes on.
WorkerLost(w) ==
  /\ wpc[w] # "idle"
  /\ Spend("worker_lost")
  /\ ready' = Put(ready, Message(w))
  /\ Idle(w)
  /\ UNCHANGED <<tableVars, rowVars, event, dropped>>

Redelivered(w) ==
  /\ wpc[w] \in Working
  /\ Spend("redelivered")
  /\ ready' = Put(ready, Message(w))
  /\ UNCHANGED <<tableVars, rowVars, event, workerVars, dropped>>

\* The child is killed and its message rejected: no failure is written.
HardTimeout(w) ==
  /\ wpc[w] \in Working
  /\ Spend("hard_timeout")
  /\ Strand(run[w])
  /\ Idle(w)
  /\ UNCHANGED <<tableVars, rowVars, queueVars>>

-----------------------------------------------------------------------------
(* The specification *)

\* People go on saving images and deleting classes meanwhile, and the brand adds images.
\* (A new class, or a new name for one, changes nothing a labelling looks at.)
Edit ==
  /\ \/ \E i \in DOMAIN images, cs \in SUBSET Present, done \in BOOLEAN :
          /\ Edits /\ WithinLimit(i, Cardinality(cs))
          /\ CommitSave(i, cs, done)
     \/ \E c \in Present : Edits /\ Deletable(c) /\ CommitDelete(c)
     \/ \E missing \in SUBSET (Sources \ Range(images)) :
          missing # {} /\ CommitAttach(missing, NextYolo)
  /\ UNCHANGED labellingVars

WorkerStep(w) ==
  \/ Write(w) \/ Progress(w) \/ Finish(w)
  \/ Retry(w) \/ Exhausted(w) \/ Fail(w)

Next ==
  \/ Edit
  \/ Start \/ Publish
  \/ \E w \in Workers, m \in Messages : Deliver(w, m) \/ DeliverFails(w, m)
  \/ \E w \in Workers : WorkerStep(w) \/ Raises(w)
  \/ \E w \in Workers : WorkerLost(w) \/ Redelivered(w) \/ HardTimeout(w)

\* The publisher goes on, and while any of the workers can go on, with its attempt or with
\* a message, some worker does.  Nobody has to edit or to start anything, and no fault has
\* to happen.
Fairness ==
  /\ WF_allVars(Publish /\ Calm)
  /\ WF_allVars(\E w \in Workers : Calm /\ (WorkerStep(w) \/ \E m \in Messages : Deliver(w, m)))

Spec == Init /\ [][Next]_allVars
FairSpec == Spec /\ Fairness

-----------------------------------------------------------------------------
(* Properties *)

\* A run that has ended stays as it ended, and none of its attempts labels anything any
\* more; until then its progress never goes back, whoever takes it over.
EndedRunsRest ==
  [][\A r \in Runs :
       /\ processed'[r] >= processed[r]
       /\ status[r] \in {"SUCCEEDED", "FAILED"} =>
            /\ status'[r] = status[r] /\ processed'[r] = processed[r]
            /\ \A i \in Indexes : \A b \in boxes'[i] \ boxes[i] : b[3] # r
    ]_allVars

\* Something that will act on an active run: an event, a message, a retry, or an attempt
\* that has the row.
Tended(r) ==
  \/ event[r] = "pending"
  \/ \E m \in Messages : m[1] = r /\ ready[m] > 0
  \/ \E w \in Workers :
       /\ run[w] = r
       /\ \/ wpc[w] = "retry"
          \/ wpc[w] \in Working \cup {"fail"} /\ FailsOwn(w)
          \/ wpc[w] = "fail" /\ mine[w] \in {NoGeneration, Undone}

\* An active run is tended, although attempts supersede each other and the failure of a
\* superseded one ends nothing; unless a hard time limit, a failure that could not be
\* written, a retry that could not be sent or the claim of a last retry has dropped it.
NoLabellingStranded == \A r \in Runs : status[r] \in Active => Tended(r) \/ r \in dropped

\* A labelling ends, and the project may be labelled again.
EveryLabellingEnds ==
  \A r \in Runs : status[r] \in Active ~> status[r] \notin Active \/ r \in dropped

=============================================================================
