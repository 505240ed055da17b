----------------------------- MODULE JobPipeline -----------------------------
(***************************************************************************)
(* The path of a job from its row and outbox event in PostgreSQL, through  *)
(* the outbox publisher and the Redis/Celery broker, to a worker that      *)
(* claims it under a lease, writes its artifacts to object storage and     *)
(* records the outcome.                                                    *)
(*                                                                         *)
(* Every action is one database transaction, one broker operation or one   *)
(* group of object-storage calls, so that another process can take a step  *)
(* between any two of them.  Actions that are the consequence of something *)
(* going wrong spend one unit of FaultBudget and occur only when their     *)
(* name is in Faults.                                                      *)
(***************************************************************************)
EXTENDS Integers, FiniteSets

CONSTANTS
  Jobs,         \* processing_jobs rows that may be created
  Datasets,     \* the jobs whose source_type is IMAGE_DATASET; the rest are videos
  Workers,      \* concurrent Celery worker processes
  Publishers,   \* outbox publisher processes
  NoJob,
  MaxJobs,      \* bound: jobs created in one behaviour
  MaxRetries,   \* max_retries of the two tasks (2 in tasks.py)
  PollLimit,    \* re-executions after RetryLaterError (5 in tasks.py)
  MaxAttempts,  \* bound: claims of one job, i.e. run tokens ever handed out
  Faults,       \* the faults that may occur
  FaultBudget   \* bound: faults in one behaviour

FaultKinds == {
  "transient",     \* a retryable error of the source, the storage or the database
  "invalid",       \* an error no retry can cure
  "delete_error",  \* object storage refuses a deletion
  "stall",         \* a live worker does not renew its lease in time
  "rollback",      \* a publisher sends and then does not commit
  "early",         \* a message is read before the publisher's commit
  "ambiguous",     \* the commit of succeed() takes effect but raises
  "worker_lost",   \* a worker child dies, its parent reports it to the broker
  "host_crash",    \* a worker host dies with its messages unacknowledged
  "late_crash",    \* as above, less than a lease before the visibility timeout
  "visibility",    \* a run outlasts the visibility timeout of its message
  "hard_timeout",  \* Celery kills a data-set task at its hard time limit
  "soft_timeout",  \* the soft limit strikes while a failure is being handled
  "db_error",      \* a statement outside the runner's try block raises
  "retry_send",    \* self.retry() cannot reach the broker
  "broker_loss" }  \* Redis, which persists nothing, restarts

\* The faults the pipeline recovers from by itself.
ToleratedFaults == {"transient", "invalid", "delete_error", "stall", "rollback",
                    "ambiguous", "host_crash"}

ASSUME PipelineAssumption ==
  /\ Datasets \subseteq Jobs
  /\ NoJob \notin Jobs
  /\ MaxJobs \in Nat
  /\ MaxRetries \in Nat
  /\ PollLimit \in Nat \ {0}
  /\ MaxAttempts \in Nat \ {0}
  /\ FaultBudget \in Nat
  /\ Faults \subseteq FaultKinds

VARIABLES
  \* processing_jobs, one entry per column that matters here
  status, token, lease, attempt, version, result, code,
  outbox,     \* job_outbox: none, pending (published_at is NULL) or published
  sending,    \* the job whose locked event a publisher has sent, not committed
  ready,      \* broker: messages a worker may take
  limbo,      \* broker: unacknowledged messages of dead hosts
  \* worker processes: where they are, the message they have, what they remember
  pc, job, retries, held, polls, seen, stale, run, lost,
  frames,     \* object storage: the runs whose frames are all there
  manifests,  \* object storage: the runs whose manifest is there
  budget      \* faults still to come

jobVars == <<status, token, lease, attempt, version, result, code>>
outboxVars == <<outbox, sending>>
brokerVars == <<ready, limbo>>
memory == <<polls, seen, stale, run, lost>>
workerVars == <<pc, job, retries, held, memory>>
storeVars == <<frames, manifests>>
pipelineVars == <<jobVars, outboxVars, brokerVars, workerVars, storeVars, budget>>

-----------------------------------------------------------------------------
(* Types *)

Status == {"ABSENT", "PENDING_DISPATCH", "QUEUED", "RUNNING", "SUCCEEDED", "FAILED"}
Terminal == {"SUCCEEDED", "FAILED"}

\* Run tokens are fresh uuid4 values: a job's tokens are told apart by the
\* attempt that drew them.  0 stands for NULL.
Tokens == 1..MaxAttempts

\* A message names its job and carries Celery's retry counter.
Messages == Jobs \X (0..MaxRetries)

\* A worker that holds a run token: it works, or it handles an error of its work.
Running == {"listing", "deleting", "running", "frames", "persisted"}
Failing == {"transient", "permanent"}
Holding == Running \cup Failing \cup {"lost"}
WorkerPC == {"idle", "claim", "update", "released", "done"} \cup Holding

\* LeaseHeartbeat runs around the processing, not around the stale cleanup.
Beating == {"running", "frames", "persisted"}

RowTypeOK ==
  /\ status \in [Jobs -> Status]
  /\ token \in [Jobs -> Tokens \cup {0}]
  /\ lease \in [Jobs -> {"none", "live", "expired"}]    \* lease_expires_at vs. now
  /\ attempt \in [Jobs -> Tokens \cup {0}]
  /\ version \in [Jobs -> Nat]
  /\ result \in [Jobs -> Tokens \cup {0}]
  /\ code \in [Jobs -> {"none", "transient", "permanent"}]
  /\ \A j \in Jobs : /\ status[j] = "RUNNING" <=> token[j] # 0
                     /\ status[j] = "RUNNING" <=> lease[j] # "none"

BrokerTypeOK ==
  /\ outbox \in [Jobs -> {"none", "pending", "published"}]
  /\ sending \in [Publishers -> Jobs \cup {NoJob}]
  /\ ready \in [Messages -> Nat]
  /\ limbo \in [Messages -> Nat]

WorkerTypeOK ==
  /\ pc \in [Workers -> WorkerPC]
  /\ job \in [Workers -> Jobs \cup {NoJob}]
  /\ retries \in [Workers -> 0..MaxRetries]
  /\ held \in [Workers -> BOOLEAN]         \* the broker still counts the message as its own
  /\ polls \in [Workers -> 0..PollLimit]   \* re-executions after RetryLaterError
  /\ seen \in [Workers -> Nat]             \* the version claim() read
  /\ stale \in [Workers -> Tokens \cup {0}] \* the token of the lapsed run it replaces
  /\ run \in [Workers -> Tokens \cup {0}]   \* its own run token
  /\ lost \in [Workers -> BOOLEAN]         \* heartbeat.ownership_lost
  /\ \A w \in Workers : /\ pc[w] = "idle" <=> job[w] = NoJob
                        /\ pc[w] \in Holding => run[w] # 0
                        /\ pc[w] \in {"listing", "deleting"} => stale[w] # 0

\* The type invariant: besides the ranges, a row has a token and a lease exactly
\* while it is RUNNING, a busy worker has a job and one that holds a run its token.
TypeOK ==
  /\ RowTypeOK /\ BrokerTypeOK /\ WorkerTypeOK
  /\ frames \subseteq Jobs \X Tokens
  /\ manifests \subseteq Jobs \X Tokens
  /\ budget \in Nat

Init ==
  /\ status = [j \in Jobs |-> "ABSENT"]
  /\ token = [j \in Jobs |-> 0]
  /\ lease = [j \in Jobs |-> "none"]
  /\ attempt = [j \in Jobs |-> 0]
  /\ version = [j \in Jobs |-> 0]
  /\ result = [j \in Jobs |-> 0]
  /\ code = [j \in Jobs |-> "none"]
  /\ outbox = [j \in Jobs |-> "none"]
  /\ sending = [p \in Publishers |-> NoJob]
  /\ ready = [m \in Messages |-> 0]
  /\ limbo = [m \in Messages |-> 0]
  /\ pc = [w \in Workers |-> "idle"]
  /\ job = [w \in Workers |-> NoJob]
  /\ retries = [w \in Workers |-> 0]
  /\ held = [w \in Workers |-> FALSE]
  /\ polls = [w \in Workers |-> 0]
  /\ seen = [w \in Workers |-> 0]
  /\ stale = [w \in Workers |-> 0]
  /\ run = [w \in Workers |-> 0]
  /\ lost = [w \in Workers |-> FALSE]
  /\ frames = {} /\ manifests = {}
  /\ budget = FaultBudget

-----------------------------------------------------------------------------
(* Helpers *)

Spend(fault) == fault \in Faults /\ budget > 0 /\ budget' = budget - 1
Calm == budget' = budget

Put(queue, m) == [queue EXCEPT ![m] = @ + 1]
Take(queue, m) == [queue EXCEPT ![m] = @ - 1]
Message(w) == <<job[w], retries[w]>>

Goto(w, p) == pc' = [pc EXCEPT ![w] = p] /\ UNCHANGED <<job, retries, held, memory>>

ForgetRun(w) ==
  /\ polls' = [polls EXCEPT ![w] = 0]
  /\ seen' = [seen EXCEPT ![w] = 0]
  /\ stale' = [stale EXCEPT ![w] = 0]
  /\ run' = [run EXCEPT ![w] = 0]
  /\ lost' = [lost EXCEPT ![w] = FALSE]

\* From here on only the message matters.
Settle(w, p) ==
  /\ pc' = [pc EXCEPT ![w] = p]
  /\ ForgetRun(w)
  /\ UNCHANGED <<job, retries, held>>

\* The process is done with the message, or dead and replaced.
Idle(w) ==
  /\ pc' = [pc EXCEPT ![w] = "idle"]
  /\ job' = [job EXCEPT ![w] = NoJob]
  /\ retries' = [retries EXCEPT ![w] = 0]
  /\ held' = [held EXCEPT ![w] = FALSE]
  /\ ForgetRun(w)

\* WHERE status = RUNNING AND run_token = :token
Owns(w) == status[job[w]] = "RUNNING" /\ token[job[w]] = run[w]

-----------------------------------------------------------------------------
(* The statements that change a row *)

\* Mutation: the lease of a released row is left behind.
LeaveRunningKeepsLease(j, s) ==
  /\ status' = [status EXCEPT ![j] = s]
  /\ token' = [token EXCEPT ![j] = 0]
  /\ version' = [version EXCEPT ![j] = @ + 1]
  /\ UNCHANGED lease
\* What release_for_retry, _finish and fail_queued all do.
LeaveRunning(j, s) ==
  /\ status' = [status EXCEPT ![j] = s]
  /\ token' = [token EXCEPT ![j] = 0]
  /\ lease' = [lease EXCEPT ![j] = "none"]
  /\ version' = [version EXCEPT ![j] = @ + 1]

ReleaseRow(j) == LeaveRunning(j, "QUEUED") /\ UNCHANGED <<attempt, result, code>>

SucceedRow(j, t) ==
  /\ LeaveRunning(j, "SUCCEEDED")
  /\ result' = [result EXCEPT ![j] = t]
  /\ UNCHANGED <<attempt, code>>

FailRow(j, c) ==
  /\ LeaveRunning(j, "FAILED")
  /\ code' = [code EXCEPT ![j] = c]
  /\ UNCHANGED <<attempt, result>>

ClaimRow(j) ==
  /\ status' = [status EXCEPT ![j] = "RUNNING"]
  /\ attempt' = [attempt EXCEPT ![j] = @ + 1]
  /\ token' = [token EXCEPT ![j] = attempt[j] + 1]
  /\ lease' = [lease EXCEPT ![j] = "live"]
  /\ code' = [code EXCEPT ![j] = "none"]
  /\ version' = [version EXCEPT ![j] = @ + 1]
  /\ UNCHANGED result

\* A change of the lease alone leaves the version.
SetLease(j, l) ==
  /\ lease' = [lease EXCEPT ![j] = l]
  /\ UNCHANGED <<status, token, attempt, version, result, code>>

\* A change of the status outside any run.
SetStatus(j, s) ==
  /\ status' = [status EXCEPT ![j] = s]
  /\ version' = [version EXCEPT ![j] = @ + 1]
  /\ UNCHANGED <<token, lease, attempt, result, code>>

-----------------------------------------------------------------------------
(* Submission and dispatch *)

\* The row and its outbox event are inserted in one transaction.
CreateJob(j) ==
  /\ status[j] = "ABSENT"
  /\ Cardinality({k \in Jobs : status[k] # "ABSENT"}) < MaxJobs
  /\ SetStatus(j, "PENDING_DISPATCH")
  /\ outbox' = [outbox EXCEPT ![j] = "pending"]
  /\ Calm
  /\ UNCHANGED <<sending, brokerVars, workerVars, storeVars>>

\* The publisher locks an unpublished event and sends it inside the transaction.
PublishSend(p) ==
  /\ sending[p] = NoJob
  /\ \E j \in Jobs :
       /\ outbox[j] = "pending"
       /\ \A q \in Publishers : sending[q] # j          \* FOR UPDATE SKIP LOCKED
       /\ sending' = [sending EXCEPT ![p] = j]
       /\ ready' = Put(ready, <<j, 0>>)
  /\ Calm
  /\ UNCHANGED <<jobVars, outbox, limbo, workerVars, storeVars>>

PublishCommit(p) ==
  /\ sending[p] # NoJob
  /\ outbox' = [outbox EXCEPT ![sending[p]] = "published"]
  /\ IF status[sending[p]] = "PENDING_DISPATCH"
       THEN SetStatus(sending[p], "QUEUED")
       ELSE UNCHANGED jobVars
  /\ sending' = [sending EXCEPT ![p] = NoJob]
  /\ Calm
  /\ UNCHANGED <<brokerVars, workerVars, storeVars>>

\* The publisher dies, its commit fails, or send_task raises although the broker
\* took the message: the event stays unpublished.  A send that really fails is
\* a step without effect here, the event's back-off being left out.
PublishRollback(p) ==
  /\ sending[p] # NoJob
  /\ Spend("rollback")
  /\ sending' = [sending EXCEPT ![p] = NoJob]
  /\ UNCHANGED <<jobVars, outbox, brokerVars, workerVars, storeVars>>

-----------------------------------------------------------------------------
(* The claim *)

Deliver(w, m) ==
  /\ pc[w] = "idle"
  /\ ready[m] > 0
  /\ ready' = Take(ready, m)
  /\ pc' = [pc EXCEPT ![w] = "claim"]
  /\ job' = [job EXCEPT ![w] = m[1]]
  /\ retries' = [retries EXCEPT ![w] = m[2]]
  /\ held' = [held EXCEPT ![w] = TRUE]
  /\ Calm
  /\ UNCHANGED <<jobVars, outboxVars, limbo, memory, storeVars>>

\* Mutation: only queued jobs are taken, a lapsed run is not.
QueuedOnly(j) == status[j] = "QUEUED"
Claimable(j) == status[j] = "QUEUED" \/ (status[j] = "RUNNING" /\ lease[j] = "expired")

\* The SELECT of claim(): it remembers the version, and the token of a lapsed run.
ClaimRead(w) ==
  /\ pc[w] = "claim"
  /\ status[job[w]] # "PENDING_DISPATCH"
  /\ IF Claimable(job[w])
       THEN /\ pc' = [pc EXCEPT ![w] = "update"]
            /\ seen' = [seen EXCEPT ![w] = version[job[w]]]
            /\ stale' = [stale EXCEPT ![w] = token[job[w]]]
            /\ UNCHANGED <<job, retries, held, polls, run, lost>>
       ELSE Settle(w, "done")
  /\ Calm
  /\ UNCHANGED <<jobVars, outboxVars, brokerVars, storeVars>>

\* Mutation: the UPDATE trusts the SELECT about the lease.
ClaimIgnoresLease(w) ==
  version[job[w]] = seen[w] /\ status[job[w]] \in {"QUEUED", "RUNNING"}
\* The WHERE clause of claim()'s UPDATE.
ClaimMatches(w) == version[job[w]] = seen[w] /\ Claimable(job[w])

\* A data-set run that takes over a lapsed one cleans up after it first.
CleansFirst(w) == job[w] \in Datasets /\ stale[w] # 0

ClaimUpdate(w) ==
  /\ pc[w] = "update"
  /\ \/ /\ ClaimMatches(w)
        /\ attempt[job[w]] < MaxAttempts
        /\ ClaimRow(job[w])
        /\ pc' = [pc EXCEPT ![w] = IF CleansFirst(w) THEN "listing" ELSE "running"]
        /\ run' = [run EXCEPT ![w] = attempt[job[w]] + 1]
        /\ seen' = [seen EXCEPT ![w] = 0]
        /\ stale' = [stale EXCEPT ![w] = IF CleansFirst(w) THEN @ ELSE 0]
        /\ UNCHANGED <<job, retries, held, polls, lost>>
     \/ /\ ~ClaimMatches(w)
        /\ Settle(w, "done")
        /\ UNCHANGED jobVars
  /\ Calm
  /\ UNCHANGED <<outboxVars, brokerVars, storeVars>>

\* Mutation: the wait for the dispatch always uses up a Celery retry.
WaitsAsRetry(w) == FALSE
\* process_video waits for the dispatch in place, process_image_dataset retries.
WaitsInProcess(w) == job[w] \notin Datasets

\* RetryLaterError: the message has overtaken the publisher's transaction.
ClaimTooEarly(w) ==
  /\ pc[w] = "claim"
  /\ status[job[w]] = "PENDING_DISPATCH"
  /\ Spend("early")
  /\ \/ /\ WaitsInProcess(w)
        /\ polls[w] < PollLimit
        /\ polls' = [polls EXCEPT ![w] = @ + 1]
        /\ UNCHANGED <<ready, pc, job, retries, held, seen, stale, run, lost>>
     \/ /\ WaitsInProcess(w)                        \* Reject(requeue=True)
        /\ polls[w] = PollLimit
        /\ ready' = IF held[w] THEN Put(ready, Message(w)) ELSE ready
        /\ Idle(w)
     \/ /\ ~WaitsInProcess(w)                       \* self.retry(exc=error)
        /\ retries[w] < MaxRetries
        /\ ready' = Put(ready, <<job[w], retries[w] + 1>>)
        /\ Settle(w, "done")
     \/ /\ ~WaitsInProcess(w)                       \* retries exhausted: rejected
        /\ retries[w] = MaxRetries
        /\ Settle(w, "done")
        /\ UNCHANGED ready
  /\ UNCHANGED <<jobVars, outboxVars, limbo, storeVars>>

-----------------------------------------------------------------------------
(* The run *)

OwnRun(w) == <<job[w], run[w]>>
StaleRun(w) == <<job[w], stale[w]>>

\* cleanup_stale_run lists the lapsed run's objects.  A run that has written its
\* manifest is not scratch: the error is a retryable one.
ListStale(w) ==
  /\ pc[w] = "listing"
  /\ Goto(w, IF StaleRun(w) \in manifests THEN "transient" ELSE "deleting")
  /\ Calm
  /\ UNCHANGED <<jobVars, outboxVars, brokerVars, storeVars>>

\* It then deletes what it listed, which held no manifest.
DeleteStale(w) ==
  /\ pc[w] = "deleting"
  /\ \/ /\ frames' = frames \ {StaleRun(w)}
        /\ pc' = [pc EXCEPT ![w] = "running"]
        /\ stale' = [stale EXCEPT ![w] = 0]
        /\ Calm
        /\ UNCHANGED <<job, retries, held, polls, seen, run, lost>>
     \/ /\ Spend("delete_error")                    \* DatasetCleanupError
        /\ frames' \in {frames, frames \ {StaleRun(w)}}
        /\ Goto(w, "transient")
  /\ UNCHANGED <<jobVars, outboxVars, brokerVars, manifests>>

\* Process the source and upload the frames (a data set: images and archives).
PersistFrames(w) ==
  /\ pc[w] = "running"
  /\ frames' = frames \cup {OwnRun(w)}
  /\ Goto(w, "frames")
  /\ Calm
  /\ UNCHANGED <<jobVars, outboxVars, brokerVars, manifests>>

PersistManifest(w) ==
  /\ pc[w] = "frames"
  /\ manifests' = manifests \cup {OwnRun(w)}
  /\ Goto(w, "persisted")
  /\ Calm
  /\ UNCHANGED <<jobVars, outboxVars, brokerVars, frames>>

\* The heartbeat thread: renews the lease, however late, or finds the token gone.
Heartbeat(w) ==
  /\ pc[w] \in Beating
  /\ ~lost[w]
  /\ \/ /\ Owns(w)
        /\ lease[job[w]] = "expired"
        /\ SetLease(job[w], "live")
        /\ UNCHANGED lost
     \/ /\ ~Owns(w)
        /\ lost' = [lost EXCEPT ![w] = TRUE]
        /\ UNCHANGED jobVars
  /\ Calm
  /\ UNCHANGED <<outboxVars, brokerVars, pc, job, retries, held, polls, seen, stale, run,
                 storeVars>>

OwnerAlive(j) == \E w \in Workers : job[w] = j /\ pc[w] \in Holding /\ run[w] = token[j]

\* Time reaches lease_expires_at: only by a fault while the owner is alive.
LeaseExpires(j) ==
  /\ lease[j] = "live"
  /\ IF OwnerAlive(j) THEN Spend("stall") ELSE Calm
  /\ SetLease(j, "expired")
  /\ UNCHANGED <<outboxVars, brokerVars, workerVars, storeVars>>

\* Mutation: any running job is taken for one's own.
CompletesUnfenced(w) == status[job[w]] = "RUNNING"
\* The heartbeat has not reported a loss and the UPDATE of succeed() finds its row.
MayComplete(w) == ~lost[w] /\ Owns(w)

Succeed(w) ==
  /\ pc[w] = "persisted"
  /\ \/ /\ MayComplete(w)
        /\ SucceedRow(job[w], run[w])
        /\ Settle(w, "done")
     \/ /\ ~MayComplete(w)                          \* OwnershipLostError
        /\ Goto(w, "lost")
        /\ UNCHANGED jobVars
  /\ Calm
  /\ UNCHANGED <<outboxVars, brokerVars, storeVars>>

\* The commit is durable but its acknowledgement is lost: OperationalError.
SucceedAmbiguous(w) ==
  /\ pc[w] = "persisted"
  /\ MayComplete(w)
  /\ Spend("ambiguous")
  /\ SucceedRow(job[w], run[w])
  /\ Goto(w, "transient")
  /\ UNCHANGED <<outboxVars, brokerVars, storeVars>>

\* The run's own artifacts after a deletion the storage may have refused in part.
Removed(w) ==
  /\ frames' \in {frames, frames \ {OwnRun(w)}}
  /\ manifests' \in {manifests, manifests \ {OwnRun(w)}}

\* except OwnershipLostError: the run removes its own artifacts; a refused
\* deletion is logged and passed over.
CleanLost(w) ==
  /\ pc[w] = "lost"
  /\ \/ /\ frames' = frames \ {OwnRun(w)}
        /\ manifests' = manifests \ {OwnRun(w)}
        /\ Calm
     \/ Removed(w) /\ Spend("delete_error")
  /\ Settle(w, "done")
  /\ UNCHANGED <<jobVars, outboxVars, brokerVars>>

\* Anything the try block raises.  Once persist() has returned, only succeed() can
\* raise and the artifacts stay.
RunFails(w) ==
  /\ pc[w] \in {"listing", "deleting", "running", "persisted"}
  /\ \/ Spend("transient") /\ Goto(w, "transient")
     \/ pc[w] = "running" /\ Spend("invalid") /\ Goto(w, "permanent")
  /\ UNCHANGED <<jobVars, outboxVars, brokerVars, storeVars>>

\* A failing upload deletes what was uploaded, as far as the storage lets it; a
\* manifest whose PUT failed may exist all the same.
UploadFails(w) ==
  /\ pc[w] = "frames"
  /\ frames' \in {frames, frames \ {OwnRun(w)}}
  /\ \/ /\ Spend("transient")
        /\ Goto(w, "transient")
        /\ manifests' \in {manifests, manifests \cup {OwnRun(w)}}
     \/ /\ Spend("invalid")
        /\ Goto(w, "permanent")
        /\ UNCHANGED manifests
  /\ UNCHANGED <<jobVars, outboxVars, brokerVars>>

-----------------------------------------------------------------------------
(* The outcome: _handle_failure and the task around execute() *)

\* fail() changes nothing when the run is no longer the worker's own.
FailPermanent(w) ==
  /\ pc[w] = "permanent"
  /\ IF Owns(w) THEN FailRow(job[w], "permanent") ELSE UNCHANGED jobVars
  /\ Settle(w, "done")
  /\ Calm
  /\ UNCHANGED <<outboxVars, brokerVars, storeVars>>

\* Mutation: the handler that cleans up after a lost run catches this one too.
AfterLostReleaseCleans(w) == Goto(w, "lost")
\* _handle_failure raises OwnershipLostError inside execute()'s last handler: it
\* leaves the task, and the run's artifacts stay.
AfterLostRelease(w) == Settle(w, "done")

\* RetryableExecutionError.  process_video does not catch it while it waits for
\* the dispatch: the message is rejected.
AfterRelease(w) == Settle(w, IF polls[w] > 0 THEN "done" ELSE "released")

Release(w) ==
  /\ pc[w] = "transient"
  /\ \/ Owns(w) /\ ReleaseRow(job[w]) /\ AfterRelease(w)
     \/ ~Owns(w) /\ AfterLostRelease(w) /\ UNCHANGED jobVars
  /\ Calm
  /\ UNCHANGED <<outboxVars, brokerVars, storeVars>>

\* self.retry(exc=error): a new message with the counter raised, then the old one
\* is acknowledged.
RetrySend(w) ==
  /\ pc[w] = "released"
  /\ retries[w] < MaxRetries
  /\ ready' = Put(ready, <<job[w], retries[w] + 1>>)
  /\ Settle(w, "done")
  /\ Calm
  /\ UNCHANGED <<jobVars, outboxVars, limbo, storeVars>>

\* Celery answers a failed publication with Reject(requeue=False).
RetrySendFails(w) ==
  /\ pc[w] = "released"
  /\ retries[w] < MaxRetries
  /\ Spend("retry_send")
  /\ Settle(w, "done")
  /\ UNCHANGED <<jobVars, outboxVars, brokerVars, storeVars>>

\* Mutation: fail_queued() without its WHERE clause.
ExhaustsAny(j) == TRUE
\* Mutation: nothing is done when the retries are used up.
ExhaustsNone(j) == FALSE
\* The WHERE clause of fail_queued().
Exhausts(j) == status[j] = "QUEUED" /\ token[j] = 0

FailQueued(w) ==
  /\ pc[w] = "released"
  /\ retries[w] = MaxRetries
  /\ IF Exhausts(job[w]) THEN FailRow(job[w], "transient") ELSE UNCHANGED jobVars
  /\ Settle(w, "done")
  /\ Calm
  /\ UNCHANGED <<outboxVars, brokerVars, storeVars>>

\* The task returned or raised: the message is acknowledged or rejected for good
\* (task_acks_on_failure_or_timeout is off, Reject does not requeue).
SettleMessage(w) ==
  /\ pc[w] = "done"
  /\ Idle(w)
  /\ Calm
  /\ UNCHANGED <<jobVars, outboxVars, brokerVars, storeVars>>

\* claim(), release_for_retry(), fail() and fail_queued() run outside any handler.
DbError(w) ==
  /\ \/ pc[w] \in {"claim", "update"} \cup Failing
     \/ pc[w] = "released" /\ retries[w] = MaxRetries
  /\ Spend("db_error")
  /\ Settle(w, "done")
  /\ UNCHANGED <<jobVars, outboxVars, brokerVars, storeVars>>

-----------------------------------------------------------------------------
(* Crashes, timeouts and the broker *)

\* reject_on_worker_lost: the message is back in the queue at once.
WorkerLost(w) ==
  /\ pc[w] # "idle"
  /\ Spend("worker_lost")
  /\ ready' = IF held[w] THEN Put(ready, Message(w)) ELSE ready
  /\ Idle(w)
  /\ UNCHANGED <<jobVars, outboxVars, limbo, storeVars>>

HostCrash(w) ==
  /\ pc[w] # "idle"
  /\ Spend("host_crash")
  /\ limbo' = IF held[w] THEN Put(limbo, Message(w)) ELSE limbo
  /\ Idle(w)
  /\ UNCHANGED <<jobVars, outboxVars, ready, storeVars>>

\* The broker gives a dead host's message to another.  The timeout (7200 s) counts
\* from the delivery; it outlasts the lease (900 s) unless the host died late.
VisibilityTimeout(m) ==
  /\ limbo[m] > 0
  /\ IF lease[m[1]] = "live" /\ ~OwnerAlive(m[1]) THEN Spend("late_crash") ELSE Calm
  /\ limbo' = Take(limbo, m)
  /\ ready' = Put(ready, m)
  /\ UNCHANGED <<jobVars, outboxVars, workerVars, storeVars>>

\* The broker gives the message of a worker that is still busy to another.
Overstay(w) ==
  /\ pc[w] # "idle"
  /\ held[w]
  /\ Spend("visibility")
  /\ ready' = Put(ready, Message(w))
  /\ held' = [held EXCEPT ![w] = FALSE]
  /\ UNCHANGED <<jobVars, outboxVars, limbo, pc, job, retries, memory, storeVars>>

\* The child is killed; the parent rejects the message without requeueing it.
HardTimeout(w) ==
  /\ job[w] \in Datasets
  /\ pc[w] \in Holding
  /\ Spend("hard_timeout")
  /\ Idle(w)
  /\ UNCHANGED <<jobVars, outboxVars, brokerVars, storeVars>>

\* SoftTimeLimitExceeded out of one of execute()'s handlers reaches the task; in
\* the try block it is a transient error like any other.
SoftTimeout(w) ==
  /\ job[w] \in Datasets
  /\ pc[w] \in Failing \cup {"lost"}
  /\ Spend("soft_timeout")
  /\ Settle(w, "released")
  /\ UNCHANGED <<jobVars, outboxVars, brokerVars, storeVars>>

BrokerLoss ==
  /\ Spend("broker_loss")
  /\ ready' = [m \in Messages |-> 0]
  /\ limbo' = [m \in Messages |-> 0]
  /\ held' = [w \in Workers |-> FALSE]
  /\ UNCHANGED <<jobVars, outboxVars, pc, job, retries, memory, storeVars>>

-----------------------------------------------------------------------------
(* The specification *)

Publishing == \E p \in Publishers : PublishSend(p) \/ PublishCommit(p)

WorkerStep(w) ==
  \/ ClaimRead(w) \/ ClaimUpdate(w)
  \/ ListStale(w) \/ DeleteStale(w)
  \/ PersistFrames(w) \/ PersistManifest(w) \/ Succeed(w)
  \/ CleanLost(w) \/ FailPermanent(w) \/ Release(w)
  \/ RetrySend(w) \/ FailQueued(w) \/ SettleMessage(w)

Disturbance(w) ==
  \/ ClaimTooEarly(w) \/ SucceedAmbiguous(w) \/ RunFails(w) \/ UploadFails(w)
  \/ RetrySendFails(w) \/ DbError(w) \/ WorkerLost(w) \/ HostCrash(w)
  \/ Overstay(w) \/ HardTimeout(w) \/ SoftTimeout(w)

Next ==
  \/ Publishing
  \/ BrokerLoss
  \/ \E j \in Jobs : CreateJob(j) \/ LeaseExpires(j)
  \/ \E p \in Publishers : PublishRollback(p)
  \/ \E m \in Messages : VisibilityTimeout(m)
  \/ \E w \in Workers, m \in Messages : Deliver(w, m)
  \/ \E w \in Workers : WorkerStep(w) \/ Heartbeat(w) \/ Disturbance(w)

Spec == Init /\ [][Next]_pipelineVars

\* A process that can take its next step does, a queued message is delivered to
\* some idle worker, and clocks run.  No fault is fair, nor is the client, nor the
\* heartbeat (which decides only whether a stalled run loses its job).
Fairness ==
  /\ WF_pipelineVars(Publishing)
  /\ WF_pipelineVars(\E w \in Workers, m \in Messages : Deliver(w, m))
  /\ \A w \in Workers : WF_pipelineVars(WorkerStep(w))
  /\ \A j \in Jobs : WF_pipelineVars(LeaseExpires(j) /\ Calm)
  /\ \A m \in Messages : WF_pipelineVars(VisibilityTimeout(m) /\ Calm)

FairSpec == Spec /\ Fairness

-----------------------------------------------------------------------------
(* Properties *)

\* A job that succeeded refers to the artifacts of one run, and they are all there:
\* no late cleanup, of a stale run, of a lost one or of a failed upload, ever
\* removes what a success has published (runner.py execute, cleanup_stale_run).
PublishedResultComplete ==
  \A j \in Jobs : status[j] = "SUCCEEDED" =>
    result[j] \in Tokens /\ <<j, result[j]>> \in frames \cap manifests

\* While the lease of a run is live only the worker that holds its token ends the
\* run: no claim supersedes it and no other worker's release, completion or
\* failure reaches it (the fencing of repository.py).
OnlyOwnerEndsLiveRun ==
  [][\A j \in Jobs : lease[j] = "live" /\ token'[j] # token[j] =>
       \E w \in Workers : /\ job[w] = j /\ run[w] = token[j]
                          /\ pc[w] \in Holding /\ pc'[w] # pc[w]]_pipelineVars

\* A job that has ended is never changed again, whatever late messages, claims,
\* commits or failure reports still arrive (domain/jobs.py: no transition leaves
\* SUCCEEDED or FAILED).
TerminalRowFrozen ==
  [][\A j \in Jobs : status[j] \in Terminal =>
       /\ status'[j] = status[j] /\ result'[j] = result[j] /\ code'[j] = code[j]
       /\ token'[j] = token[j] /\ attempt'[j] = attempt[j]
       /\ version'[j] = version[j]]_pipelineVars

\* A video that fails with a retryable code was given its full budget of attempts:
\* waiting for the dispatch to become visible uses none of it (the comment of
\* process_video, tasks.py:74).
RetriesAreAttempts ==
  \A j \in Jobs \ Datasets :
    status[j] = "FAILED" /\ code[j] = "transient" => attempt[j] > MaxRetries

\* Something will still act on the job: its unpublished event, a message, or a
\* worker that has not finished with it.
Carried(j) ==
  \/ outbox[j] = "pending"
  \/ \E m \in Messages : m[1] = j /\ ready[m] + limbo[m] > 0
  \/ \E w \in Workers : job[w] = j /\ pc[w] # "done"

\* "Long-running work is recoverable" (README.md:5): a job that has not ended is
\* never left with nobody to drive it.
NoJobStranded ==
  \A j \in Jobs : status[j] \in {"PENDING_DISPATCH", "QUEUED", "RUNNING"} => Carried(j)

\* Every submitted job ends, provided the faults that strand one do not happen.
EveryJobEnds ==
  \A j \in Jobs : status[j] = "PENDING_DISPATCH" ~> status[j] \in Terminal

-----------------------------------------------------------------------------
(* The pipeline implements the job's life as its client sees it *)

PhaseOf(s) ==
  CASE s = "ABSENT" -> "absent"
    [] s \in {"PENDING_DISPATCH", "QUEUED"} -> "waiting"
    [] s = "RUNNING" -> "working"
    [] s = "SUCCEEDED" -> "succeeded"
    [] s = "FAILED" -> "failed"

\* What result_reference leads to, when all of it is there.
PublishedAttempt(j) == IF <<j, result[j]>> \in frames \cap manifests THEN result[j] ELSE 0

Lifecycle == INSTANCE JobLifecycle WITH
  phase <- [j \in Jobs |-> PhaseOf(status[j])],
  published <- [j \in Jobs |-> PublishedAttempt(j)]

\* Every step of the pipeline is a step of the life JobLifecycle promises or is
\* invisible to the client; a success publishes the last attempt, complete.
ImplementsLifecycle == Lifecycle!Spec

=============================================================================
