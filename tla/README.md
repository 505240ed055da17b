# Verification of the Frame Intelligence Platform

TLA+ models of the frame-intelligence platform (FastAPI backend, PostgreSQL,
Redis/Celery, S3-compatible object storage, Python frame worker, Next.js
client), TLC configurations that check them on small instances, and TLAPS proofs
of the main results for every value of the constants. Paths below are
abbreviated: `backend/` is `src/apps/backend/src/app/`, `worker/` is
`src/services/frame-worker/src/frame_worker/`, `client/` is
`src/apps/frontend/src/`.

## 1. The system

A client submits a *job* (a video address, an uploaded video or an image data
set). The backend writes the job's row and an *outbox event* in one transaction.
An *outbox publisher* turns events into Celery messages on Redis. A *worker*
takes a message, claims the row under a lease with a fresh run token, processes
the source, uploads artifacts below a prefix of that run, and records the result
in the row, fenced by the token. Three further kinds of background work follow
the same event/message pattern: exports of a data set, training of a YOLO model,
automatic labelling with a trained model.

| Component | State it keeps | Operations | What makes it correct |
| --- | --- | --- | --- |
| Job row (`backend/models/processing_job.py`, `backend/domain/jobs.py`) | status, attempt_count, run_token, lease_expires_at, version, result_reference, failure_code | created by the API, written by publisher and workers | ends once; a terminal row is never written again; RUNNING exactly with token and lease |
| Job submission (`backend/services/job_service.py`, `backend/repositories/jobs.py`) | the uploaded source, the row, the idempotency key (unique) | URL job, upload job, data-set job | one job per key; an existing job has its source; a losing upload leaves no orphan |
| Outbox publisher (`backend/outbox/`) | published_at, available_at, attempt_count of four event tables | lock one event (`FOR UPDATE SKIP LOCKED`), send, mark, commit | every event is sent at least once; duplicates are harmless |
| Broker (Redis/Celery, external) | queued and unacknowledged messages | deliver, acknowledge, reject, requeue, visibility timeout | configured for late acknowledgement (`worker/orchestration/celery_app.py`) |
| Worker orchestration (`worker/orchestration/repository.py`, `runner.py`, `tasks.py`, `heartbeat.py`, `failures.py`) | per process: message, retry counter, run token, heartbeat flag | claim, heartbeat, succeed, fail, release for retry, fail queued | one live run per job; only its owner ends it; every job ends |
| Run artifacts (`worker/artifacts/`, `worker/datasets/processor.py`) | objects below `{job}/{run_token}/`, the manifest last | persist, clean a lost run, clean a lapsed run | what a success refers to is complete and stays |
| Frame exports (`backend/services/frame_exports.py`, `worker/orchestration/exports.py`) | row with status, lease token, generation, working key; archive object | request, claim, upload, finish, fail, delete attempt | a READY row has its object; requests share one export |
| Annotation projects (`backend/services/annotations.py`, `client/components/annotations/`) | project with its revision, classes, images, boxes; workspaces of people | read, save an image, create, change and delete a class, attach a brand's data sets, snapshot for a training | no lost update; no box of a deleted class; a snapshot is one revision |
| Annotation training (`backend/services/annotation_training.py`, `worker/orchestration/training.py`, `yolo_trainer.py`) | runs, snapshot, token, attempt generation, model versions; trainer process, workspace, uploads, final artifacts | create, start, claim, train, publish, finalize, retry | one active run and one trainer per project; an attempt keeps its run until it has finalized it; a model once available stays; a started run ends |
| Automatic labelling (`backend/services/annotation_inference.py`, `worker/orchestration/inference.py`) | run, started_at as generation, progress; no lease | start, take over with every delivery, write predictions, finish, fail | an image's boxes are one writer's; an ended run rests; a run ends |
| Rate limiter (`backend/security/rate_limit.py`) | counters in Redis, with expiry | count, block, reset, in one Lua script | never more than the limit per window |
| Frame selection (`worker/processing/`, `sampling/`, `quality/`, `deduplication/`) | the window, its shortlist, the last frame saved | sample, shortlist, choose, drop near duplicates | every window is represented, no near duplicate follows another |
| Source ingestion and extraction (`worker/ingestion/`, `extraction/`, `enhancement/`) | temporary files | download, FFmpeg | I/O |
| Result delivery (`backend/services/result_artifacts.py`, `backend/storage/s3.py`) | none | validate a manifest, list, sign addresses | what a worker publishes is served, nothing else is |
| Sessions and ownership (`backend/services/auth.py`, `backend/security/`) | sessions, owner of a brand or job | log in, log out, authorise | single-row operations |
| Migrations (`backend/db/migrate.py`) | schema version | upgrade under an advisory lock | one at a time |
| Configuration, health, logging (`backend/core/`, `main.py`) | none | validate at start | - |
| Web client (`client/`) | polling state, idempotency key | submit, poll, show, proxy | polls one request at a time, stops at the end |
| Deployment (`src/compose.production.yaml`, `src/deploy/`) | volumes | start, back up, restore | - |

Components meet in four places. *Rows in PostgreSQL* are shared by the API, the
publisher and the workers, each of which reads and writes in short transactions
with no lock held between them. *Messages* carry only an identifier (and Celery's
retry counter), are delivered at least once unless Redis is lost, and can
overtake the transaction that sent them. *Objects* are shared by runs of the same
job, by cleanups and by readers, without transactions. *The heartbeat thread* of
a worker renews the lease beside the processing and reports its loss through a
flag that the runner reads before it completes.

What is hard, in general: the same job driven by two messages or two workers at
once; leases that lapse while their owner is alive; a commit that takes effect
but raises; cleanups that run beside the run that replaced them; messages that
are acknowledged without effect; and a retry budget shared by waiting and
failing. `PROJECT.json` lists each such hazard at its line, with the properties
that would catch it going wrong.

## 2. Modules

| Module | What it is |
| --- | --- |
| `JobPipeline` | the path of a job: row, event, publisher, broker, workers, leases, artifacts, faults |
| `JobLifecycle` | the abstract specification: what the client that polls a job is promised |
| `JobPipelineProofs` | the theorems of `JobPipeline` |
| `JobSubmission` | how a job comes to be: idempotency keys, uploads, compensation |
| `JobSubmissionProofs` | the theorems of `JobSubmission` |
| `FrameExport` | the path of an archive of frames: requests, event, broker, workers, leases, object |
| `FrameExportProofs` | the theorems of `FrameExport` |
| `AnnotationTraining` | the training of a model: starts, event, broker, workers, trainer processes, artifacts |
| `AnnotationTrainingProofs` | the theorems of `AnnotationTraining` |
| `AnnotationTables` | the tables of an annotation project and what each transaction commits to them |
| `AnnotationTablesProofs` | lemmas: what each transaction does to the tables |
| `AnnotationProject` | people, a brand, a labelling and trainings' snapshots at these tables |
| `AnnotationProjectProofs` | the theorems of `AnnotationProject` |
| `AnnotationInference` | automatic labelling over these tables: starts, event, broker, workers, faults |
| `AnnotationInferenceProofs` | the theorems of `AnnotationInference` |
| `FrameSelection` | which frames of a video a worker saves |
| `DatasetSelection` | which images of a data set get objects and are recommended |
| `BoxGeometry` | coordinates of a box between workspace, row and training |
| `ResultDelivery` | the three before, composed: a result from its source to its readers and annotators |
| `ResultDeliveryProofs` | the theorems of `ResultDelivery`, and so of the three it composes |
| `MCJobPipeline`, `MCJobSubmission`, `MCFrameExport`, `MCAnnotationTraining`, `MCAnnotationProject`, `MCAnnotationInference`, `MCResultDelivery` | instances for TLC |

### 2.1 JobPipeline

**State and code.** The row is one function per column that matters: `status`,
`token` (run_token), `lease` (lease_expires_at compared with the present: none,
live or expired), `attempt` (attempt_count), `version`, `result`
(result_reference, here the attempt whose artifacts it names) and `code`
(failure_code, here retryable or permanent). Run tokens are fresh uuid4 values;
the model numbers a job's tokens by the attempt that drew them. `outbox` is
published_at of the job's event, `sending` the event a publisher holds locked
after it has sent the message and before it commits. `ready` and `limbo` are the
broker: a bag of messages a worker may take, and a bag of messages whose host died
before acknowledging. A worker process has a program counter `pc`, its message
(`job`, `retries`, and `held`: the broker still counts the message as its own),
and what its Python frames remember: how often it polled, the version and stale
token `claim()` read, its own token, and the heartbeat's `ownership_lost` flag.
`frames` and `manifests` are the runs whose objects are all there.

**Actions** are one transaction, one broker operation or one group of storage
calls. `claim()` is two actions, `ClaimRead` and `ClaimUpdate`, because its SELECT
takes no lock and its UPDATE re-checks version, status and lease. A run is
`ListStale`, `DeleteStale` (data sets that take over a lapsed run),
`PersistFrames`, `PersistManifest`, `Succeed`; what can go wrong in it leads
through `RunFails`, `UploadFails`, `SucceedAmbiguous` to `Release` or
`FailPermanent`, or through a lost lease to `CleanLost`. What the Celery task does
around `execute()` is `RetrySend`, `FailQueued`, `ClaimTooEarly`, `SettleMessage`.
The two tasks differ where the code differs: a video waits for the publisher's
commit in place, a data set spends a Celery retry on it and has a hard and a soft
time limit. The exits that leave a handler early are kept: `_handle_failure`
raises out of the `except Exception` block when the release finds the token gone
(`AfterLostRelease`: no cleanup), and a retryable error inside the wait loop is
not caught (`AfterRelease`).

**Faults** are actions of their own, named in `FaultKinds`, that need a unit of
`FaultBudget`: `transient`, `invalid`, `delete_error`, `stall`, `rollback`,
`early`, `ambiguous`, `worker_lost`, `host_crash`, `late_crash`, `visibility`,
`hard_timeout`, `soft_timeout`, `db_error`, `retry_send`, `broker_loss`. Without
`early` a message is not read before its commit; that the broker can deliver it in
between is the fault. Without `late_crash` a host dies early enough that its lease
(900 s) lapses before the visibility timeout (7200 s) counted from the delivery.
A publisher whose send fails just leaves the event unpublished; the back-off is
not modelled, as an event that is tried again later looks the same.

`ToleratedFaults` of `JobPipeline` are the faults after which the pipeline goes
on by itself. The others strand a job each in its own way: the message comes back
while the lease is live (`worker_lost`, `late_crash`, `visibility` when the run
then dies), is dropped (`early`, `hard_timeout`, `soft_timeout`, `db_error`,
`retry_send`) or disappears (`broker_loss`). Safety is checked under all of them.

**Mutations.** Definitions whose comment begins with "Mutation:" are not part of
the specification. Each is a variant of the definition that follows it, the way a
plausible bug would change it, kept to show which property notices that bug.

### 2.2 JobLifecycle

The client's view: a job waits, works and ends; an attempt begins on a waiting or
on a working job; a success publishes the *last* attempt, complete and at the same
instant, and what is published never changes or disappears; a failure needs an
attempt. `JobPipeline` implements it under `phase <- PhaseOf(status)`,
`published <- PublishedAttempt`, where `PublishedAttempt` is the attempt named by
result_reference provided both its frames and its manifest are in storage: a
success with a missing object, or an object removed afterwards, would not refine
`Succeed` or a stutter.

### 2.3 JobSubmission

A submission is one call of `create_url_job`, `create_upload_job` or
`create_image_dataset_job`, named by the job identifier it draws. A key stands for an
idempotency scope (operation and owner) and a key in it, so each key belongs to one
operation. `job` is `processing_jobs` by key - its unique constraint is that `job` is a
function - `objects` is object storage, `sent` the number of files a submission has
references of, `existing` what its first look-up found. `Submit`, `Find`, `UploadFile`,
`UploadDone`, `Insert`, `Undo`, `LookUp` follow the code; the differences between the
three operations are in them: a data set looks its key up before the upload and acts on
what it found after it; an address has nothing to undo; `_compensate` swallows a refused
deletion while `_compensate_dataset` deletes on and then raises in place of any answer.
`Fingerprint` says what tells two payloads apart: for an uploaded video its description
(name, type, size, configuration), not its content. Faults: a failing upload (which may
have stored the file), a refused deletion, a database error, an insertion whose commit
takes effect but raises, a process that dies or a request that is cancelled
(`except Exception` does not see either). `unsure` is a history variable: the submissions
whose commit raised. The event is inserted in the transaction of the row and is the
pipeline's `CreateJob`.

### 2.4 FrameExport

`FrameExport` is cut like `JobPipeline`, with the differences of the code. The claim holds
the row's lock from its SELECT to its UPDATE, so it is one step, merged with the delivery
of the message; the token of an attempt is its generation; a new attempt first deletes the
object of the attempt whose working key it finds. A claim that meets a live lease waits for
it with a Celery retry out of the same budget as failures (`WaitForLease`, `waiting`).
A retry that is the last one fails the row only when no live lease is on it (`Unleased`).
A request restarts an export that FAILED for another reason than its validation: it reads
the row (`RequestRead`), then the event - before which the session flushes the row and so
locks it (`RequestReadEvent`, `Locked`) - and commits what differs from what it read
(`RequestCommit`) or is rolled back. Requests that are answered with the row as it is and
the insertion that loses at the unique constraint change nothing and are no steps. Redis
persists here: its loss strands an export as it strands a job. `dropped` and `unsure` are
history variables: exports whose message was thrown away, and attempts whose commit of
READY raised.

### 2.5 AnnotationTraining

The runs of the model are the snapshots of one project. `status`, `code`, `token` (the
generation that drew it, 0 for NULL), `generation`, `version` and `artifact` (the attempt
whose model the row refers to) are the row; `event` and `sending` the outbox as in
`JobPipeline`; `wanted` the run whose row an API request holds locked between the two halves
of `start()`. Outside the database an attempt has a trainer (`trainers`), an attempt
directory and uploads under its own prefix (`working`), and, when it publishes, copies under
the final names of its *run* (`final`), which a later attempt would overwrite.

`start()` is `StartRead` (the SELECT with the lock, the SELECT for another active run) and
`StartCommit`, in which the partial unique index has the last word (`MayActivate`) and the
event is created or made due once more (`Announced`); a refusal, an `IntegrityError` or a
cancelled request is `StartAbort`. The worker goes through `Deliver` (with `Claim`, one
transaction), `Prepare`, `Train`, `Upload`, then the transaction that publishes - `Copy`
twice, `Clean`, `Commit` - and whatever raises leads to `finalize`, the `finally` block. The
publishing transaction keeps project and run locked from its check of ownership to its
commit; its storage calls are steps of their own because each may fail, be half done or be
interrupted by a crash, and no other worker can act on the rows meanwhile. `Finalize`,
`FinalizeDirty`, `FinalizeUnkillable` and `FinalizeRaises` are the ways of
`_finalize_failed_attempt`: everything is taken back and the row failed or released; a
deletion is refused; the trainer survives its termination, upon which nothing of it is
removed; or the transaction itself raises. `Retry` and `Exhausted` are the Celery task.
`TrainerDies` is the parent-death signal of `yolo_trainer.py`, which takes its time.

A claim never takes a run over from an owner: a RUNNING row with a token is refused whatever
its lease says. Nothing depends on `lease_expires_at` then - `TrainingLeaseBusy` and
`fail_unleased_training()` cannot be reached - and the model leaves it out. `dropped`
(active runs that nothing will act on, and why) and `survivors` (attempts whose trainer
could not be ended) are history variables that the properties use to name exceptions; no
guard reads them.

### 2.6 AnnotationTables and AnnotationProject

`AnnotationTables` is the state that people, brands, labellings and trainings share:
`revision`, `yolo` (the index of each class), `retired` (classes that were deleted; their
identifiers do not come back), `images`, `completed`, `boxes`. A box is its class, the
revision it was written at and the run that predicted it; a save writes one box of each class
asked for, which is as much as the properties tell apart. `CommitSave`, `CommitClass`,
`CommitUpdate`, `CommitDelete`, `CommitAttach` and `CommitPredictions` are what the
transactions leave; `AnnotationProject` and `AnnotationInference` say who may commit what,
and when.

Transactions are READ COMMITTED, and `_cas()` is an `UPDATE ... WHERE revision = expected`.
What a handler reads before that update (`SaveRead`, `DeleteRead`) is a step of its own and
may be stale when the update comes; from the update to the commit the row lock keeps every
other writer of the revision out, so the rest is one step (`SaveCommit`, `DeleteCommit`,
`CreateClass`, `UpdateClass`). `image()` reads the project before the boxes (`LoadRead`,
`LoadReply`): a workspace may be shown boxes newer than its revision, never older, and an
answer to a save is such a reading under the save's own revision (`SaveReply`). The API takes
any boxes of an image, called completed or not, which the workspace ties together; the model
takes what the API does. A lost answer
leaves the workspace at its old revision; a conflict makes it reload. `get_or_create_brand()`
(`AttachRead`, `AttachCommit`, `AttachAbort`) does not raise the revision: a first attachment
locks the project row, later ones only meet at the unique index of the images. `create()` of a
training locks the row, compares the revision and then reads images, classes and boxes
(`SelectRead`, `SelectCommit`). `Predict` is a labelling that writes one image.

### 2.7 AnnotationInference

A labelling has no lease. `Deliver` takes a run that has not ended over from whoever has it and
raises its `generation` (started_at in the code); `Owns` is the fence of every later write, and
only `Finish` notices that an attempt has been superseded. `Write` predicts one image and looks
at it again under the locks of run, project and image (`Fills`); `Progress` counts it.
`Raises`, `DeliverFails`, `Retry`, `Exhausted` and `Fail` are what the task does with an error:
an attempt whose claim raised has no generation or one that is not in the row, and its failure
then matches nothing. `Retry`, `Finish` and `Fail` return (`Returns`): the message is acknowledged
(`Acknowledged`), or the worker is lost between its last commit and the acknowledgement and the
message comes back (`Unacknowledged`). An attempt that is over forgets its position (`Leave`), as
nothing reads it any more. `Edit` is everything people and brands may do meanwhile, taken from
`AnnotationTables`. Faults are `FaultKinds` as in `JobPipeline`. `dropped` is a history
variable that names the runs a fault has left behind.

### 2.8 FrameSelection, DatasetSelection, BoxGeometry, ResultDelivery

`FrameSelection` follows `VideoProcessor` and `ShortlistCandidateSelector` candidate by candidate: a
window closes when a candidate of the next arrives, or with the video; the best `ShortlistSize`
by the fast score are compared by full quality; the winner is saved unless it resembles the
*last frame saved* and comes within the time gap. What a frame looks like, which looks are
similar and its fast score are inputs; similarity is reflexive and symmetric and need not be
transitive. The full quality divides a score by 1 + 0.08 of a motion up to 20, so the model lets
any candidate win that wins for some motion of the others (`Winners`).

`DatasetSelection` judges files in their order (`Judge`), finds exact copies of what could be
decoded, and computes `Recommended` (every distinct normal image and, best first, a quarter as
many challenging ones), `Accepted` (the archives) and `Uploaded` (what gets objects).
A content is a class of files that the code cannot tell apart, so it decodes and is judged in
one way only: `DatasetAssumption` keeps the four kinds of content disjoint.

`BoxGeometry` is one axis of the letterbox: `ToBox` (the workspace), `ToStorage`, the columns'
rounding, `FromStorage`, `SentAgain`, and the refusals of `contained()`, the table's CHECK and
the training's. Coordinates are whole units, so that every rounding of the code is a rounding of
the model.

`ResultDelivery` composes them: a job runs one of the two and publishes or fails. The API loads and
validates its manifest (`Loaded`, `ManifestValid`) and gives addresses to what has an object
(`Addressed`). Its readers answer one by one, because they differ: an image that is listed without
an object is not found to `frame_download`, `dataset_preview` and `annotation_preview`, and an
invalid manifest to `frame_access`. Images that may be annotated are `Annotatable`, and boxes are
drawn, saved again and predicted on the only image of a data set.

## 3. Runs

| Run | Properties | Shows |
| --- | --- | --- |
| `safety` | `TypeOK`, `PublishedResultComplete`, `RetriesAreAttempts`, `OnlyOwnerEndsLiveRun`, `TerminalRowFrozen`, `ImplementsLifecycle` | with up to three faults of any kind, a success is complete and stays complete, an ended row is frozen, a live run is ended by its owner alone, videos get all their attempts, and the pipeline is a `JobLifecycle` |
| `recovery` | `NoJobStranded`, `EveryJobEnds` | with up to three tolerated faults, something always carries a job that has not ended, and every job ends |
| `worker_lost` | `NoJobStranded` violated | one worker child that dies during a run strands its job |
| `submission` | `TypeOK`, `AnswersAgree`, `SourceComplete`, `LeftoversBounded` | under up to two faults, a key has one job whatever races, the job's source is complete, and who created no job leaves no file unless a fault made it |
| `exports` | `TypeOK`, `ReadyHasArtifact`, `NoExportStranded`, `OnlyHolderEndsLease`, `EndedUntilRequested`, `EveryExportEnds` | under up to three faults of any kind, a READY export has its archive, attempts are fenced, ended rows stay until requested, and an export ends unless its message was thrown away in a way `dropped` names |
| `training` | `TypeOK`, `OneTrainer`, `AttemptKeepsRun`, `TrainerKeepsWorkspace`, `LetGoIsFinalized`, `ModelIsServed`, `NoRunStranded`, `NewerModels`, `EveryRunEnds` | under up to two faults of any kind, a project has one trainer, an attempt keeps its run until it has finalized it, a row is let go only over what has been cleaned (or says that it has not), models stay and are numbered upwards, and a run ends unless `dropped` names why not |
| `training_exhausted` | `ExhaustedRunFails` violated | a run whose retries are used up stays RUNNING |
| `editing` | `TypeOK`, `SnapshotIsRevision`, `NoLostUpdate`, `DeletionKeepsBoxes` | a save replaces exactly what its user was shown, a class that is deleted takes no box with it, and a snapshot is its project at one revision, whatever two people, a brand and a labelling do |
| `labelling` | `TypeOK`, `OneWriterPerImage`, `NoLabellingStranded`, `EndedRunsRest`, `EveryLabellingEnds` | under up to two faults of any kind, attempts that supersede each other never mix their boxes with each other's or a person's, an ended run is not touched again, progress never goes back, and a run ends unless `dropped` names it |
| `results` | `WindowsCovered`, `RecommendedFair`, `PublishedIsReadable`, `BoxesKeepTheirPlace` | every window of a video is represented by a frame, the recommendation of a data set is complete and balanced, every reader of the API is served what a worker publishes and no more, and a box stays where it was drawn however often it is saved |
| `dataset_rejected` | `DatasetIsReadable` violated | one file that cannot be decoded makes the API refuse a whole data set |
| `predicted_boxes` | `PredictedBoxesKeepTheirPlace` violated | a predicted box is shown in another place, unless its image is a square |

**Bounds.** Jobs do not interact (no action reads another job's row, event,
messages or objects), except that they compete for workers; so a behaviour has one
job (`MaxJobs = 1`), which may be of either kind (`Jobs` has one of each). Two
workers are the smallest number for a lapsed owner and its successor; a third could
only repeat a role. One publisher suffices, because after a rollback or a crash the
same process plays the other. `MaxRetries` is 2 in the code; it is 2 in `recovery`
and 1 in `safety`, where a smaller budget reaches exhaustion with more faults to
spare. `PollLimit` is 1 for 5. `FaultBudget = 3` is enough for a lapsed lease, a
refused deletion and an ambiguous commit in one behaviour; `MaxAttempts` is larger
than the claims so many faults can cause (each further claim needs a fault), so it
never cuts a behaviour off. Symmetry of workers is used only in `safety`, which has
no liveness property. Deadlock is not checked: a system whose jobs have ended stops.

Three submissions are a winner, a loser and one that comes later; keys do not interact, so
one of each kind is enough, and a data set of two files has a first and a last. Two payloads
that differ in their content only and a third that differs in both make the fingerprint
matter. Submissions are symmetric (no liveness there). One export, two workers, one
publisher and two requests at a time, three in all: insertion, restart, and a restart
that races with it. `MaxRetries` is 1 there, so that a wait and a failure compete for it.
Two faults in `submission` are a lost race with a refused deletion on both sides; three in
`exports` are a stall, a lost message and a failure of the successor.

Two runs of a project and two requests race for its one place; two workers meet on one run
through duplicate messages, a restart or a requeued message. Three starts are one for each
run and a restart beside either. One retry for two gives a first attempt, a second and an
exhaustion. Two faults reach a failed cleanup followed by a restart, a survivor beside a new
attempt, a dead worker with its trainer still running, and an ambiguous commit followed by
a refused deletion. `training_exhausted` needs no more than one run and one worker.

Two people at a project of two images and two classes: one class is there and one to be
created, one image is there and one to be attached, and whatever one person reads the other, the
brand and the labelling may overtake. Three revisions (`MaxEdits`) are a save, what makes it
stale and the save after the reload; two boxes reach the limit of a project, one snapshot that of
its snapshots. `MaxEdits` bounds what people do, not a labelling. Two images, one class, two
workers, two faults and two edits in `labelling` are an attempt, its successor, and a person on
the very image both are about to write; one retry for two gives an exhaustion. Runs of one
project are never active together, so one is enough.

`results` enumerates every video of eight candidates, 4 units apart in windows of 10, with a time
gap of 20, three looks of which only neighbours are similar, and three fast scores, the 0 of a flat
frame among them: windows of two and of three
candidates, a change too slow for any pair of neighbours, and the gap's end. The numbers keep the
order of the code's (two or three candidates in a window, the gap two windows) and not their
size. Every data set of up to six files is formed of four normal, two challenging, one
unusable and one undecodable content, copies included: four normal images are the fewest with room
for a challenging one. Boxes lie on a square of side 8 with two units to the pixel, on an image
that is wider, one that is higher, one that is smaller than the square and one whose short side
becomes a single pixel; three saves show that rounding does not add up. `MaxFrames` of 2 makes a
video with more frames than its manifest may list. `results` has no type invariant: the types of
its variables are those of its inputs. Deadlock is not checked in `labelling` and `results`, where
a run, or a result, is finished; it is in `editing`, where people can always go on.

**Fairness** (`FairSpec`): the publisher loop runs on (`outbox/publisher.py` polls
for ever), an idle worker takes some queued message, a worker that can take its next
step does, and clocks advance: a lease whose owner is gone lapses and a visibility
timeout passes. There is no fairness for the client, for any fault (all spend
budget), or for the heartbeat: `EveryJobEnds` does not need a stalled worker to
recover. Weak fairness suffices throughout: no action in it can be disabled and
enabled for ever by others. `FrameExport` assumes the same of its publisher, workers,
leases and timers, and that an API request in progress ends, by commit or by rollback, as
its database connection does; no request ever has to come. `AnnotationTraining` assumes the
same; a trainer ends by the fairness of its worker's `Train` (it is killed at
training_timeout_seconds at the latest), and no orphan has to end by itself.
In `AnnotationInference` the publisher goes on, and some worker does while any of them can, with
its attempt or with a message: less than that each does. Nobody has to start or edit anything. That
a run ends rests on the retry counter of its message, which bounds how often a run is taken over.

## 4. Findings

- **A lost worker child strands its job** (`worker_lost`). Celery requeues the
  message of a lost child at once; the row is still RUNNING under a lease of 900 s,
  so the next claim finds nothing to take and the only message is acknowledged.
  Nothing looks for lapsed leases afterwards. `README.md:5` and `README.md:36`
  promise recovery of stale jobs.
- **An exhausted training stays RUNNING** (`training_exhausted`). `self.retry(exc=error)`
  without a retry left raises `error` itself, so the handler of `MaxRetriesExceededError`
  that should call `fail_unleased_training()` never runs. The row has neither token nor
  message; `start()` answers with it as it is and refuses all other runs of the project.
- **One undecodable file hides a data set** (`dataset_rejected`). The worker lists a file that it
  cannot decode as `rejected`, without objects (`processor.py:717`, `processor.py:840`), and the
  job succeeds; `result_artifacts.py:526` exempts only `unusable` images from having objects and
  refuses the manifest. `schemas/artifacts.py:154` accepts the category.
- **Predicted boxes move** (`predicted_boxes`). The labelling predicts on the image and writes
  what the model says (`inference.py:282`, `inference.py:587`); rows of a data set's boxes are
  relative to the padded square, and `_box_response()` (`annotations.py:858`) and the training
  (`annotation_training.py:718`) take the padding off. Tests of the backend promise the round trip
  (`test_annotations.py:66`, `test_annotation_training.py:48`).

Four more disagreements are in the models without a run of their own. *Redis restarts:* the
compose file runs Redis without persistence, and `docs/production-operations.md:81` says queued work
is recovered from the outbox, but a published event is never sent again; `BrokerLoss` is a fault
that `recovery` leaves out. *QUEUED to FAILED* is taken by `FailQueued` and missing from the table
of `domain/jobs.py:17`. *A published archive is deleted:* if the commit that makes an export READY
takes effect but raises, `create_export` treats it as a failure and its `finally` deletes the object
(`exports.py:482`, `exports.py:541`); the row stays READY without an archive, which is the exception
`unsure` of `ReadyHasArtifact`. *The key of a video does not see its content:* `README.md:190`
says that a key reused for a different payload is rejected; the fingerprint of an upload is its
name, type, size and configuration (`Fingerprint`).

Some more results are not contradicted by any document and are exceptions that properties
name. A submission whose commit raises deletes the source of the job it created
(`SourceComplete`). An export is left in PREPARING without a message when its last retry
meets a live lease, when a handler's own statement raises, at the hard time limit, or when a
request reads the event just before the publisher's commit (`NoExportStranded`). A training
is left RUNNING or PENDING for good when the worker that owns it dies or is killed, when its
claim, its finalization or its retry raises (`NoRunStranded`). A labelling is left active when
Celery kills it at its hard time limit, when its failure cannot be written, when its retry cannot
be sent, or when the claim of its last retry raises (`NoLabellingStranded`). A video of more frames than
a manifest may list succeeds and cannot be read (`PublishedIsReadable`). Asked for access to an
image that a served data set lists as unusable, `frame_access` says that the manifest is invalid
(502), where the other readers say that there is no such artifact (404): the first does not know
images without objects. No address of the public manifest leads there (`PublishedIsReadable`). A box that reaches to the
border of its image may be refused, by rounding, when it is saved again or trained on
(`BoxesKeepTheirPlace`).

## 5. Proofs

`JobPipelineProofs` proves, from `PipelineAssumption` alone (any sets of jobs,
workers and publishers, any bounds and any set of faults):

| Theorem | Statement |
| --- | --- |
| `TypeCorrect` | `Spec => []TypeOK` |
| `InvHolds` | `Spec => []Inv`, the inductive invariant below |
| `PublishedResult` | `Spec => []PublishedResultComplete` |
| `TerminalFrozen` | `Spec => TerminalRowFrozen` |
| `OnlyOwnerEnds` | `Spec => OnlyOwnerEndsLiveRun` |
| `RetriesWereAttempts` | `Spec => []RetriesAreAttempts` |
| `Implements` | `Spec => ImplementsLifecycle` |
| `SpecNoJobStranded` | `Faults \subseteq ToleratedFaults` implies `Spec => []NoJobStranded` |

*Why an invariant is needed.* `PublishedResultComplete` is not inductive: a cleanup
in progress could name the run a success is about to publish. `Inv` says: the tokens
held by workers and rows are attempts already begun (`RunsBounded`); two workers that
hold runs of one job hold different ones (`RunsDistinct`); the token of a RUNNING row
is the latest attempt (`OwnerIsLatest`); a worker past its upload that still owns the
row has its artifacts in storage (`OwnerUploaded`); a success names the last attempt
(`SuccessIsLatest`); and whoever is about to remove artifacts - a lost run its own, a
successor its predecessor's - removes none that a row owns or has published
(`CleanersUnpublished`). The preservation proof goes action by action, grouped by
what the action does to rows (`Advance`, `Untouched`) and to the stores.

*Action properties* rest on `RowChanges`: every step changes at most one row, in one
of the ways a list enumerates. `TerminalFrozen` and `OnlyOwnerEnds` are case splits
over it.

*RetriesAreAttempts* is about a number. Its invariant `CountInv` bounds the retry
counter of every message of a video, queued or held, by the attempts already begun.

*Implements* uses `Inv`, `AttemptBegun` (a job that fails has been attempted) and
`RowChanges` to map each step to one of `JobLifecycle` or to a stutter.

*SpecNoJobStranded* is the one theorem with a hypothesis beside the assumptions on the
constants, and needs it: `worker_lost` shows the property violated under one of the other
faults. Its invariant `RecoveryInv` says who will move a job on. A worker has the message
it works for until it is idle (`KeepsMessage`); an event is pending exactly while its job
is not queued, and once it is sent, its message is in the queue or with a worker that
still finds the job not queued (`DispatchInv`); a QUEUED job has a message, a claim or a
worker about to retry, and a RUNNING one its owner alive, the message of its dead owner's
host, or a lapsed lease and a message (`Driven`). The proof goes through the phases of a
message: read, claimed, held, released, acknowledged.

`JobSubmissionProofs` proves, from `SubmissionAssumption` alone:

| Theorem | Statement |
| --- | --- |
| `SpecInv` | `Spec => []IInv` |
| `SpecTypeOK` | `Spec => []TypeOK` |
| `SpecAnswersAgree` | `Spec => []AnswersAgree` |
| `SpecSourceComplete` | `Spec => []SourceComplete` |
| `SpecLeftoversBounded` | `Spec => []LeftoversBounded` |

`IInv` adds to `TypeOK` and `AnswersAgree`: the job of a key was created by a submission of
that key that is past its insertion, and that has answered unless its commit raised
(`JobInv`); what a submission remembers of its key is still true when it uses it
(`KnowsInv`), which is what makes the stale look-up of a data set harmless; and until a
submission has inserted its row or given up, it has removed nothing (`SourceInv`).
`SourceComplete` follows from `JobInv` and `SourceInv`. TLC has checked `IInv` on the
instance of `submission`. The preservation proof rests on two frame lemmas: a job that
exists stays the job of its key (`StepKeepsJobs`), and a step moves one submission and
touches the files of that one only (`StepMovesOne`).

`LeftoversBounded` counts, so its invariant is an account. A submission that is going on
knows what it has uploaded (`ReferencesInv`); one without a job that has left a file, or is
undoing and does not know of a file of its own, is a debtor, and there are no more debtors
than faults that occurred (`DebtInv`). A step makes a debtor of its own submission at most
(`OthersDebt`), and only if it is a fault. TLC has checked both invariants before.

`AnnotationTrainingProofs` proves, from `TrainingAssumption` alone:

| Theorem | Statement |
| --- | --- |
| `SpecIInv` | `Spec => []IInv` |
| `SpecTypeOK` | `Spec => []TypeOK` |
| `SpecAttemptKeepsRun` | `Spec => []AttemptKeepsRun` |
| `SpecOneTrainer` | `Spec => []OneTrainer` |
| `SpecTrainerKeepsWorkspace` | `Spec => []TrainerKeepsWorkspace` |
| `SpecModelIsServed` | `Spec => []ModelIsServed` |
| `SpecNewerModels` | `Spec => NewerModels` |
| `SpecLetGoIsFinalized` | `Spec => []LetGoIsFinalized` |
| `SpecNoRunStranded` | `Spec => []NoRunStranded` |

The argument is that of exclusive ownership. A project has one active run (`OneActive`) and
a start holds a run that it may start (`StartInv`). Two workers that hold attempts hold
different ones, none beyond the row's generation (`HolderInv`); so a claim draws a new one,
and as only the owner lets a row go, an attempt keeps its run (`AttemptKeepsRun`). A trainer
that did not survive its termination is that of the attempt whose token the row has, and has
ended before the upload (`TrainerInv`): two trainers would be two active runs. What an
attempt has copied is under the final names until it commits (`CopyInv`), because a final
name changes by an owner only (`FinalMoves`); after the commit there is no owner.
`TrainerKeepsWorkspace` and `ModelIsServed` are part of `IInv`. `RowSteps` says that every
step starts, claims or ends one run or leaves all rows alone; the proofs about rows are case
splits over it, those about workers over `Moves`. TLC has checked `IInv` on a small instance
before.

`LetGoIsFinalized` adds to it that the final names an attempt was copied to are among those it
will take back (`FinalInv`) and that nothing of its working copies is left when it commits
(`CleanInv`). `NoRunStranded` follows from `CarryInv`: a run that is STARTING or RUNNING is
carried by the owner of its attempt or, when nobody owns it, by an event that nobody is
sending, a message, or a worker about to retry; every way out of this is one the model names
(`dropped`).

`FrameExportProofs` proves, from `ExportAssumption` alone:

| Theorem | Statement |
| --- | --- |
| `SpecIInv` | `Spec => []IInv` |
| `SpecTypeOK` | `Spec => []TypeOK` |
| `SpecReadyHasArtifact` | `Spec => []ReadyHasArtifact` |
| `SpecNoExportStranded` | `Spec => []NoExportStranded` |
| `SpecOnlyHolderEndsLease` | `Spec => OnlyHolderEndsLease` |
| `SpecEndedUntilRequested` | `Spec => EndedUntilRequested` |

A worker's attempt is one that was begun, later than the one it cleans up after, and no other
worker's (`HolderInv`). A READY row refers to the last attempt, and if a worker still holds that
attempt, then because its commit raised (`PublishedInv`); so no cleanup, of a predecessor or of
oneself, removes what a READY row refers to. A worker about to finish that owns its row has its
archive in storage (`FinishInv`). `EventInv` says that an export has an event from its first
request on and that one publisher at a time has it in hand, `CarryInv` who carries an export
that is being prepared. The two action properties are case splits over `RowChanges`, the list of
the ways a step changes a row.

`AnnotationTablesProofs` states, from `TablesAssumption`, what each transaction preserves: types,
finite sets of boxes (`TableInv`), counts of boxes and the order of revisions. The proofs of the
two specifications over these tables cite it.

`AnnotationInferenceProofs` proves, from `TablesAssumption` and `LabellingAssumption`:

| Theorem | Statement |
| --- | --- |
| `SpecIInv` | `Spec => []IInv` |
| `SpecTypeOK` | `Spec => []TypeOK` |
| `SpecOneWriterPerImage` | `Spec => []OneWriterPerImage` |
| `SpecNoLabellingStranded` | `Spec => []NoLabellingStranded` |
| `SpecEndedRunsRest` | `Spec => EndedRunsRest` |

`OneWriterPerImage` is inductive with the types of the tables: predictions are inserted into an
image without boxes only, and a person's save replaces all. Of the fate of a run: whatever names
a run, an event, a message or a worker, names one that was started (`StartedInv`), and an active
run has an event, a message or a worker that tends to it, or is one of those lost in a named way
(`TendedInv`). `EndedRunsRest` needs that every write asks for the run's status and generation
in its own transaction. That no message gets lost is `WorkerPuts`: no step of a worker, whatever
fault it meets, takes one out of the queue.

`AnnotationProjectProofs` proves, from `TablesAssumption` and `ProjectAssumption`:

| Theorem | Statement |
| --- | --- |
| `SpecIInv` | `Spec => []IInv` |
| `SpecTypeOK` | `Spec => []TypeOK` |
| `SpecNoLostUpdate` | `Spec => NoLostUpdate` |
| `SpecDeletionKeepsBoxes` | `Spec => DeletionKeepsBoxes` |
| `SpecSnapshotIsRevision` | `Spec => []SnapshotIsRevision` |

The invariant is about stale reads. A workspace that knows the present revision shows the present
boxes of its image (`KnowsInv`); what a transaction has read before its write is still true
when the revision that it compares is still the present one (`ReadInv`), and when no image was
added for an attachment, which raises no revision (`AttachingInv`); the images a
snapshot selects are the completed ones of a revision that its lock keeps
(`SelectingInv`). These are preserved by the steps of everybody else because of `Onward`: a
transaction raises the revision or leaves boxes and completions as they are, and never removes an
image. `NoLostUpdate` and `DeletionKeepsBoxes` then follow step by step, and
`SnapshotIsRevision` is part of the invariant (`ShelfInv`), since revisions only grow.

`ResultDeliveryProofs` proves, from the four assumptions of the modules that it composes:

| Theorem | Statement |
| --- | --- |
| `SpecWindowsCovered` | `Spec => []WindowsCovered` |
| `SpecWindowHasChoice` | `Spec => [](shortlist # <<>> => Winners # {})` |
| `SpecRecommendedFair` | `Spec => []RecommendedFair` |
| `SpecPublishedIsReadable` | `Spec => []PublishedIsReadable` |
| `SpecBoxesKeepTheirPlace` | `Spec => []BoxesKeepTheirPlace` |

*Frames.* `WindowsCovered` holds because what a choice is compared with is the last frame saved
(`LastIsSaved`) and because frames, shortlist and candidates are in the order of time
(`InOrderOfTime`). That a window has a choice at all needs a best of the shortlist
(`FirstExists`), and that the motion that may cost a candidate its rank is bounded.

*Images.* Of every content that can be decoded one entry is no duplicate (`OneOfEach`).
`RecommendedFair` is then about the first elements of a ranked set: that there are as many as
allowed (`FirstFit`) and that none is left out while there is room (`FirstFill`). The lemmas on
the least element of a finite set (`LeastRank`, and `Greatest` in `AnnotationTablesProofs`) would
be inductions; they take a smallest set that has none instead, and find a smaller one.

*Readers.* `DeliveryInv` ties the phase of a job to what its manifest lists: objects exist for
exactly the usable images of a data set that succeeded. So a data set is valid exactly when every
file of it could be decoded (`DatasetIsValid`), a video when it is not too long (`VideoIsValid`),
and what is listed without an object is unusable (`UnusableIsListed`). `ServedIsProduced` goes
through the readers of a valid manifest one by one.

*Boxes.* The row of a box a person drew is within rounding of what was drawn (`BoxInv`), since
every rounding is (`HalfIsClose`, `FixedIsClose`); that it does not drift when it is saved again
and again is `SameRowAgain`: showing and sending a row yields that row. `RefusedAtBorder` shows
what a refusal needs. These hold for every scale and every size of an image, where `results`
has one.

**Only model-checked.** Every safety invariant and every action property of the passing runs is a
theorem. What TLC checks and nothing proves are the four properties of liveness, `EveryJobEnds`,
`EveryExportEnds`, `EveryRunEnds` and `EveryLabellingEnds`, as the prover has no rules for
fairness and ENABLED; their safety half, that somebody is always there to go on, is proved
(`NoJobStranded`, `NoExportStranded`, `NoRunStranded`, `NoLabellingStranded`). The four
violations are traces, and need no proof. Every backend of the prover is an SMT solver, Zenon or LS4.

## 6. Not modelled

The third column of `PROJECT.json`'s components gives the reason part by part. Inside
`JobPipeline`: pixel processing, downloads and FFmpeg are a run that proceeds or fails;
the content of a manifest and of failure messages; the back-off of events and retries
(a delay is a step not yet taken); Alembic, logging and metrics. Inside
`AnnotationTraining`: what an image or a label file contains, the split into training and
validation images, and the progress counters. Inside `AnnotationProject`: colours, names and
all limits but that of boxes. Inside `ResultDelivery`: pixels, digests, signed addresses and streams,
the adaptive shortlist, which no configuration turns on, the size a manifest may have in bytes
(4 MiB, which a manifest within the default limits of the workers does not reach), and
`dataset_yolo_preview`, which only tests call.

The rate limiter is one atomic Lua script: nothing interleaves with it, and a model would only repeat
it. The rows of a brand, of sessions and of owners are written one at a time; a brand's data sets
and classes enter `AnnotationProject` as any sets. Downloads and FFmpeg are pure I/O.

## 7. Plan

In order; each module with its MC module, configuration, mutants and, where marked,
proofs.

1. `JobPipeline`, `JobLifecycle`, `JobPipelineProofs` - done.
2. `JobSubmission`, `JobSubmissionProofs` - done.
3. `FrameExport`, `FrameExportProofs` - done.
4. `AnnotationTraining`, `AnnotationTrainingProofs` - done.
5. `AnnotationTables`, `AnnotationProject`, `AnnotationInference` and their proofs - done.
6. `FrameSelection`, `DatasetSelection`, `BoxGeometry`, `ResultDelivery`,
   `ResultDeliveryProofs` - done.
7. `NoJobStranded` and `LeftoversBounded` as theorems - done.
8. Left: abstract specifications of an export and of a training as `JobLifecycle` is one of a
   job, and the proofs that `FrameExport` and `AnnotationTraining` implement them.
