-------------------------- MODULE AnnotationTraining --------------------------
(***************************************************************************)
(* The training of a model from a snapshot of an annotation project:       *)
(* started through the API, announced by an outbox event, carried out by a *)
(* worker that runs the trainer as a process of its own, and finalized in  *)
(* one transaction that publishes the model or takes everything back.      *)
(*                                                                         *)
(* An attempt owns its run until it has finalized it: unlike a job or an   *)
(* export, a run is never taken from an owner that is gone.  Nothing looks *)
(* at lease_expires_at therefore (TrainingLeaseBusy and                    *)
(* fail_unleased_training() are never reached), and it is left out.        *)
(***************************************************************************)
EXTENDS Integers

CONSTANTS
  Runs,         \* the snapshots of one project
  Workers,      \* Celery worker processes
  Publishers,   \* outbox publisher processes
  Requesters,   \* API requests in progress at once
  NoRun,
  MaxStarts,    \* bound: starts in one behaviour that have something to write
  MaxRetries,   \* max_retries of the task (2 in tasks.py)
  Faults, FaultBudget

FaultKinds == {
  "transient",      \* an error of the storage, the database or the trainer's group
  "invalid",        \* a source that changed, a trainer that failed, the soft time limit
  "delete_error",   \* object storage or the file system refuses a deletion
  "unkillable",     \* the trainer's process group survives its termination
  "database_error", \* a statement of the claim or of the finalization raises
  "ambiguous",      \* a commit of the worker takes effect but raises
  "rollback",       \* a publisher sends and then does not commit
  "retry_send",     \* task.retry() cannot reach the broker
  "worker_lost",    \* a worker child dies, its parent requeues the message
  "host_crash",     \* a worker host dies with its message unacknowledged
  "hard_timeout" }  \* Celery kills the task at its hard time limit

ASSUME TrainingAssumption ==
  /\ NoRun \notin Runs
  /\ MaxStarts \in Nat /\ MaxRetries \in Nat /\ FaultBudget \in Nat
  /\ Faults \subseteq FaultKinds

VARIABLES
  \* annotation_training_runs, one entry per column that matters here
  status, code, token, generation, version, artifact,
  event,      \* annotation_training_outbox: none, pending or published
  sending,    \* the run whose locked event a publisher has sent, not committed
  ready,      \* broker: messages a worker may take
  limbo,      \* broker: unacknowledged messages of dead hosts
  wanted, starts,          \* API requests: the run whose row they hold; starts so far
  pc, run, retries,        \* worker processes: where they are, their message
  mine, permanent, copied, \* what they remember of the attempt
  trainers,   \* the attempts whose trainer is alive
  working,    \* working copies: attempt and what it is (a directory or an object)
  final,      \* object storage: the attempt whose artifact is under a run's final name
  budget,     \* faults still to come
  \* history: why nothing will act on a run, trainers that survived their termination
  dropped, survivors

rowVars == <<status, code, token, generation, version, artifact>>
queueVars == <<event, sending, ready, limbo>>
requestVars == <<wanted, starts>>
memory == <<mine, permanent, copied>>
workerVars == <<pc, run, retries, memory>>
effects == <<trainers, working, final>>
history == <<dropped, survivors>>
trainingVars == <<rowVars, queueVars, requestVars, workerVars, effects, budget, history>>

-----------------------------------------------------------------------------
(* Types *)

Status == {"SNAPSHOT_READY", "PENDING", "RUNNING", "SUCCEEDED", "FAILED"}
Active == {"PENDING", "RUNNING"}
Messages == Runs \X (0..MaxRetries)
Attempts == Runs \X (Nat \ {0})
Artifacts == {"model", "snapshot"}
\* What an attempt works on: its directory and the uploads under its prefix.
Copies == Artifacts \cup {"root"}

\* A worker in the try block of train_annotation_model().
Trying == {"prepare", "train", "upload", "copy", "clean", "commit"}
Holding == Trying \cup {"finalize"}
WorkerPC == {"idle", "retry", "done"} \cup Holding

\* Only a RUNNING row has a token, that of its last attempt; a failure has a code, and
\* exactly the succeeded runs have a version and a model.
RowTypeOK ==
  /\ status \in [Runs -> Status]
  /\ code \in [Runs -> {"none", "TRAINING_FAILED", "TRAINING_CLEANUP_FAILED"}]
  /\ token \in [Runs -> Nat] /\ generation \in [Runs -> Nat]
  /\ version \in [Runs -> Nat] /\ artifact \in [Runs -> Nat]
  /\ \A r \in Runs : /\ token[r] # 0 => status[r] = "RUNNING" /\ token[r] = generation[r]
                     /\ status[r] = "FAILED" <=> code[r] # "none"
                     /\ status[r] = "SUCCEEDED" <=> version[r] # 0
                     /\ status[r] = "SUCCEEDED" <=> artifact[r] # 0

QueueTypeOK ==
  /\ event \in [Runs -> {"none", "pending", "published"}]
  /\ sending \in [Publishers -> Runs \cup {NoRun}]
  /\ ready \in [Messages -> Nat] /\ limbo \in [Messages -> Nat]
  /\ wanted \in [Requesters -> Runs \cup {NoRun}]
  /\ starts \in 0..MaxStarts

\* A worker knows its attempt exactly from its claim to its finalization.
WorkerTypeOK ==
  /\ pc \in [Workers -> WorkerPC]
  /\ run \in [Workers -> Runs \cup {NoRun}]
  /\ retries \in [Workers -> 0..MaxRetries]
  /\ mine \in [Workers -> Nat] /\ permanent \in [Workers -> BOOLEAN]
  /\ copied \in [Workers -> SUBSET Artifacts]
  /\ \A w \in Workers : /\ pc[w] = "idle" <=> run[w] = NoRun
                        /\ pc[w] \in Holding <=> mine[w] # 0

EffectTypeOK ==
  /\ trainers \subseteq Attempts /\ survivors \subseteq Attempts
  /\ working \subseteq Attempts \X Copies
  /\ final \in [Runs \X Artifacts -> Nat]
  /\ budget \in Nat
  /\ dropped \in [Runs -> {"no", "exhausted", "fault"}]

TypeOK == RowTypeOK /\ QueueTypeOK /\ WorkerTypeOK /\ EffectTypeOK

Init ==
  /\ status = [r \in Runs |-> "SNAPSHOT_READY"]
  /\ code = [r \in Runs |-> "none"]
  /\ token = [r \in Runs |-> 0] /\ generation = [r \in Runs |-> 0]
  /\ version = [r \in Runs |-> 0] /\ artifact = [r \in Runs |-> 0]
  /\ event = [r \in Runs |-> "none"]
  /\ sending = [p \in Publishers |-> NoRun]
  /\ ready = [m \in Messages |-> 0] /\ limbo = [m \in Messages |-> 0]
  /\ wanted = [q \in Requesters |-> NoRun]
  /\ starts = 0
  /\ pc = [w \in Workers |-> "idle"]
  /\ run = [w \in Workers |-> NoRun]
  /\ retries = [w \in Workers |-> 0]
  /\ mine = [w \in Workers |-> 0] /\ permanent = [w \in Workers |-> FALSE]
  /\ copied = [w \in Workers |-> {}]
  /\ trainers = {} /\ working = {} /\ survivors = {}
  /\ final = [a \in Runs \X Artifacts |-> 0]
  /\ budget = FaultBudget
  /\ dropped = [r \in Runs |-> "no"]

-----------------------------------------------------------------------------
(* Helpers *)

Spend(fault) == fault \in Faults /\ budget > 0 /\ budget' = budget - 1
Calm == budget' = budget

Put(queue, m) == [queue EXCEPT ![m] = @ + 1]
Take(queue, m) == [queue EXCEPT ![m] = @ - 1]
Message(w) == <<run[w], retries[w]>>
Mine(w) == <<run[w], mine[w]>>
CopiesOf(a) == {a} \X Copies

Goto(w, p) == pc' = [pc EXCEPT ![w] = p] /\ UNCHANGED <<run, retries, memory>>

ForgetAttempt(w) ==
  /\ mine' = [mine EXCEPT ![w] = 0]
  /\ permanent' = [permanent EXCEPT ![w] = FALSE]
  /\ copied' = [copied EXCEPT ![w] = {}]

Settle(w, p) ==
  /\ pc' = [pc EXCEPT ![w] = p]
  /\ ForgetAttempt(w)
  /\ UNCHANGED <<run, retries>>

Idle(w) ==
  /\ pc' = [pc EXCEPT ![w] = "idle"]
  /\ run' = [run EXCEPT ![w] = NoRun]
  /\ retries' = [retries EXCEPT ![w] = 0]
  /\ ForgetAttempt(w)

\* An exception in the try block; f tells whether the task gives up.
Raises(w, f) ==
  /\ permanent' = [permanent EXCEPT ![w] = f = "invalid"]
  /\ pc' = [pc EXCEPT ![w] = "finalize"]
  /\ UNCHANGED <<run, retries, mine>>

Fails(w, f) == Spend(f) /\ Raises(w, f)

\* A run that is left active with nothing to act on it.
Strand(r, why) ==
  dropped' = [dropped EXCEPT ![r] = IF status[r] \in Active THEN why ELSE @]

\* The row is the attempt's, as _owned() and the two transactions ask.
Owns(w) ==
  /\ status[run[w]] = "RUNNING"
  /\ token[run[w]] = mine[w] /\ generation[run[w]] = mine[w]

\* The same where the row is asked first: TrainingLeaseLost is retried.
FailsOrLost(w, f) ==
  /\ IF Owns(w) THEN Spend(f) ELSE f = "transient" /\ Calm
  /\ Raises(w, f)

\* A start holds the row from its SELECT FOR UPDATE to its commit.
Locked(r) == \E q \in Requesters : wanted[q] = r

\* Mutation: the token is left when the row is let go.
LetGoKeepsToken(r) == UNCHANGED token
LetGo(r) == token' = [token EXCEPT ![r] = 0]

FailRow(r, c) ==
  /\ LetGo(r)
  /\ status' = [status EXCEPT ![r] = "FAILED"]
  /\ code' = [code EXCEPT ![r] = c]
  /\ UNCHANGED <<generation, version, artifact>>

ReleaseRow(r) == LetGo(r) /\ UNCHANGED <<status, code, generation, version, artifact>>

-----------------------------------------------------------------------------
(* The API: AnnotationTrainingService.start *)

OtherActive(r) == \E q \in Runs \ {r} : status[q] \in Active

\* The SELECT of the row with its lock, and the SELECT of another active run.  A run
\* that is pending, running or succeeded is answered as it is, and one next to an
\* active run is refused: neither changes anything.
StartRead(q) ==
  /\ wanted[q] = NoRun
  /\ starts < MaxStarts
  /\ starts' = starts + 1
  /\ \E r \in Runs : /\ status[r] \in {"SNAPSHOT_READY", "FAILED"}
                     /\ ~Locked(r) /\ ~OtherActive(r)
                     /\ wanted' = [wanted EXCEPT ![q] = r]
  /\ Calm
  /\ UNCHANGED <<rowVars, queueVars, workerVars, effects, history>>

Answered(q) == wanted' = [wanted EXCEPT ![q] = NoRun] /\ UNCHANGED starts

\* Mutation: no unique index over the active runs of a project.
MayActivateAny(r) == TRUE
\* The partial unique index, asked when the UPDATE is flushed.
MayActivate(r) == ~OtherActive(r)

\* Mutation: the event of an earlier start is left as it is.
AnnouncedOnce(r) == IF event[r] = "none" THEN "pending" ELSE event[r]
\* The event is created, or made due once more.
Announced(r) == "pending"

\* The flush, which waits for a publisher that has locked the event, and the commit.
StartCommit(q) ==
  /\ wanted[q] # NoRun
  /\ MayActivate(wanted[q])
  /\ \A p \in Publishers : sending[p] # wanted[q]
  /\ status' = [status EXCEPT ![wanted[q]] = "PENDING"]
  /\ code' = [code EXCEPT ![wanted[q]] = "none"]
  /\ event' = [event EXCEPT ![wanted[q]] = Announced(wanted[q])]
  /\ dropped' = [dropped EXCEPT ![wanted[q]] = "no"]
  /\ Answered(q)
  /\ Calm
  /\ UNCHANGED <<token, generation, version, artifact, sending, ready, limbo, workerVars,
                 effects, survivors>>

\* The index refuses the run, the client goes away or a statement raises.
StartAbort(q) ==
  /\ wanted[q] # NoRun
  /\ Answered(q)
  /\ Calm
  /\ UNCHANGED <<rowVars, queueVars, workerVars, effects, history>>

-----------------------------------------------------------------------------
(* The outbox: _publish_one_training *)

PublishSend(p) ==
  /\ sending[p] = NoRun
  /\ \E r \in Runs :
       /\ event[r] = "pending"
       /\ \A q \in Publishers : sending[q] # r          \* FOR UPDATE SKIP LOCKED
       /\ sending' = [sending EXCEPT ![p] = r]
       /\ ready' = Put(ready, <<r, 0>>)
  /\ Calm
  /\ UNCHANGED <<rowVars, event, limbo, requestVars, workerVars, effects, history>>

PublishEnd(p) ==
  /\ sending[p] # NoRun
  /\ \/ /\ event' = [event EXCEPT ![sending[p]] = "published"]
        /\ Calm
     \/ UNCHANGED event /\ Spend("rollback")
  /\ sending' = [sending EXCEPT ![p] = NoRun]
  /\ UNCHANGED <<rowVars, ready, limbo, requestVars, workerVars, effects, history>>

-----------------------------------------------------------------------------
(* The attempt: train_annotation_model *)

\* Mutation: an owner is taken for gone and replaced.
ClaimableAny(r) == status[r] \in Active
\* "Only a cleared token denotes an explicit retry-ready run" (training.py:156).
Claimable(r) == status[r] \in Active /\ token[r] = 0

ClaimRow(r) ==
  /\ status' = [status EXCEPT ![r] = "RUNNING"]
  /\ generation' = [generation EXCEPT ![r] = @ + 1]
  /\ token' = [token EXCEPT ![r] = generation[r] + 1]
  /\ UNCHANGED <<code, version, artifact>>

\* _claim(), which holds the row's lock from its SELECT to its commit.
Claim(w, r) ==
  \/ /\ Claimable(r)
     /\ ClaimRow(r)
     /\ mine' = [mine EXCEPT ![w] = generation[r] + 1]
     /\ pc' = [pc EXCEPT ![w] = "prepare"]
     /\ dropped' = [dropped EXCEPT ![r] = "no"]
  \/ /\ ~Claimable(r)
     /\ pc' = [pc EXCEPT ![w] = "done"]
     /\ UNCHANGED <<rowVars, mine, dropped>>

\* The claim is made outside the try block: an error of it is no TrainingError, so
\* the task does not retry and the message is rejected.
ClaimRaises(w, r) ==
  /\ \/ Spend("database_error") /\ UNCHANGED rowVars
     \/ Spend("ambiguous") /\ Claimable(r) /\ ClaimRow(r)
  /\ pc' = [pc EXCEPT ![w] = "done"]
  /\ UNCHANGED mine
  /\ Strand(r, "fault")

Deliver(w, m) ==
  /\ pc[w] = "idle"
  /\ ready[m] > 0 /\ ~Locked(m[1])
  /\ ready' = Take(ready, m)
  /\ run' = [run EXCEPT ![w] = m[1]]
  /\ retries' = [retries EXCEPT ![w] = m[2]]
  /\ \/ Claim(w, m[1]) /\ Calm
     \/ ClaimRaises(w, m[1])
  /\ UNCHANGED <<event, sending, limbo, requestVars, permanent, copied, effects, survivors>>

\* The workspace is built from the snapshot's rows and source images, with heartbeats
\* in between, the archive is uploaded, and the trainer is started.
Prepare(w) ==
  /\ pc[w] = "prepare"
  /\ Owns(w)
  /\ working' = working \cup {<<Mine(w), "root">>, <<Mine(w), "snapshot">>}
  /\ trainers' = trainers \cup {Mine(w)}
  /\ Goto(w, "train")
  /\ Calm
  /\ UNCHANGED <<rowVars, queueVars, requestVars, final, history>>

PrepareFails(w) ==
  /\ pc[w] = "prepare"
  /\ \E f \in {"transient", "invalid"} : FailsOrLost(w, f)
  /\ \E made \in {{}, {"root"}, {"root", "snapshot"}} :
       working' = working \cup ({Mine(w)} \X made)
  /\ UNCHANGED <<rowVars, queueVars, requestVars, copied, trainers, final, history>>

\* The heartbeats find the row still the attempt's, and the trainer exits.
Train(w) ==
  /\ pc[w] = "train"
  /\ Owns(w)
  /\ trainers' = trainers \ {Mine(w)}
  /\ Goto(w, "upload")
  /\ Calm
  /\ UNCHANGED <<rowVars, queueVars, requestVars, working, final, history>>

\* A heartbeat raises or is refused, the trainer fails, or its group cannot be ended.
TrainFails(w) ==
  /\ pc[w] = "train"
  /\ \E f \in {"transient", "invalid"} : FailsOrLost(w, f)
  /\ trainers' \in {trainers, trainers \ {Mine(w)}}
  /\ UNCHANGED <<rowVars, queueVars, requestVars, copied, working, final, history>>

Upload(w) ==
  /\ pc[w] = "upload"
  /\ working' = working \cup {<<Mine(w), "model">>}
  /\ Goto(w, "copy")
  /\ Calm
  /\ UNCHANGED <<rowVars, queueVars, requestVars, trainers, final, history>>

UploadFails(w) ==
  /\ pc[w] = "upload"
  /\ \E f \in {"transient", "invalid"} : Fails(w, f)
  /\ working' \in {working, working \cup {<<Mine(w), "model">>}}
  /\ UNCHANGED <<rowVars, queueVars, requestVars, copied, trainers, final, history>>

-----------------------------------------------------------------------------
(* The transaction that publishes: project and run stay locked to its commit *)

NextCopy(w) == IF "model" \in copied[w] THEN "snapshot" ELSE "model"

Copied(w) == [final EXCEPT ![<<run[w], NextCopy(w)>>] = mine[w]]

\* Mutation: a name is remembered when its copy is complete.
TrackedLate(w) == copied[w]
\* The names the attempt has to remove: uploaded.append(key) precedes the copy.
Tracked(w) == copied[w] \cup {NextCopy(w)}

\* The final names are those of the run, not of the attempt.
Copy(w) ==
  /\ pc[w] = "copy"
  /\ Owns(w)
  /\ final' = Copied(w)
  /\ copied' = [copied EXCEPT ![w] = @ \cup {NextCopy(w)}]
  /\ pc' = [pc EXCEPT ![w] = IF NextCopy(w) = "snapshot" THEN "clean" ELSE "copy"]
  /\ Calm
  /\ UNCHANGED <<rowVars, queueVars, requestVars, run, retries, mine, permanent, trainers,
                 working, history>>

CopyFails(w) ==
  /\ pc[w] = "copy"
  /\ \E f \in {"transient", "invalid"} : FailsOrLost(w, f)
  /\ final' \in {final, Copied(w)}
  /\ copied' = [copied EXCEPT ![w] = Tracked(w)]
  /\ UNCHANGED <<rowVars, queueVars, requestVars, trainers, working, history>>

\* _cleanup_training() of the working copies alone.
Clean(w) ==
  /\ pc[w] = "clean"
  /\ working' = working \ CopiesOf(Mine(w))
  /\ Goto(w, "commit")
  /\ Calm
  /\ UNCHANGED <<rowVars, queueVars, requestVars, trainers, final, history>>

\* Whatever cannot be deleted, the rest is; then it raises.
CleanFails(w) ==
  /\ pc[w] = "clean"
  /\ Spend("delete_error")
  /\ \E kept \in SUBSET Copies :
       working' = working \ ({Mine(w)} \X (Copies \ kept))
  /\ Goto(w, "finalize")
  /\ UNCHANGED <<rowVars, queueVars, requestVars, trainers, final, history>>

\* Mutation: any earlier version is taken for the last.
LastVersionAny(v) == TRUE
\* coalesce(max(model_version), 0) over the project's runs: a run without has 0.
LastVersion(v) == \A q \in Runs : version[q] <= v

SucceedRow(r, g) ==
  /\ LetGo(r)
  /\ status' = [status EXCEPT ![r] = "SUCCEEDED"]
  /\ \E v \in {version[q] : q \in Runs} :
       /\ LastVersion(v)
       /\ version' = [version EXCEPT ![r] = v + 1]
  /\ artifact' = [artifact EXCEPT ![r] = g]
  /\ UNCHANGED <<code, generation>>

Commit(w) ==
  /\ pc[w] = "commit"
  /\ Owns(w)
  /\ SucceedRow(run[w], mine[w])
  /\ \/ Settle(w, "done") /\ Calm
     \/ Goto(w, "finalize") /\ Spend("ambiguous")
  /\ UNCHANGED <<queueVars, requestVars, effects, history>>

\* Nothing of the transaction remains, nor of what it did to the storage undone.
CommitFails(w) ==
  /\ pc[w] = "commit"
  /\ \E f \in {"transient", "invalid"} : FailsOrLost(w, f)
  /\ UNCHANGED <<rowVars, queueVars, requestVars, copied, effects, history>>

-----------------------------------------------------------------------------
(* finally: _finalize_failed_attempt, one transaction under the same locks *)

\* Mutation: the copies are removed whoever owns the run.
TakenBackAlways(w) == {run[w]} \X copied[w]
\* The final names an attempt removes: those it has copied to, if the run is its own.
TakenBack(w) == IF Owns(w) THEN {run[w]} \X copied[w] ELSE {}

Without(names) == [n \in DOMAIN final |-> IF n \in names THEN 0 ELSE final[n]]

\* Trainer, artifacts and workspace are gone.
CleanedUp(w) ==
  /\ trainers' = trainers \ {Mine(w)}
  /\ final' = Without(TakenBack(w))
  /\ working' = working \ CopiesOf(Mine(w))

\* Mutation: a permanent failure is released like the others.
VerdictReleases(w) == IF Owns(w) THEN ReleaseRow(run[w]) ELSE UNCHANGED rowVars
\* The run is failed for good, or left RUNNING without a token for the next attempt.
Verdict(w) ==
  IF ~Owns(w) THEN UNCHANGED rowVars
  ELSE IF permanent[w] THEN FailRow(run[w], "TRAINING_FAILED")
  ELSE ReleaseRow(run[w])

\* The exception that led here goes on to the task: a permanent one rejects the message.
Finalize(w) ==
  /\ pc[w] = "finalize" /\ ~Locked(run[w])
  /\ CleanedUp(w)
  /\ Verdict(w)
  /\ \/ Settle(w, IF permanent[w] THEN "done" ELSE "retry") /\ Calm
     \/ Settle(w, "retry") /\ Spend("ambiguous")
  /\ UNCHANGED <<queueVars, requestVars, history>>

\* A deletion is refused: the others are made, the run is failed with its own code,
\* and a TrainingError takes the place of the exception.
FinalizeDirty(w) ==
  /\ pc[w] = "finalize" /\ ~Locked(run[w])
  /\ Spend("delete_error")
  /\ trainers' = trainers \ {Mine(w)}
  /\ \E keptNames \in SUBSET TakenBack(w), keptCopies \in SUBSET Copies :
       /\ final' = Without(TakenBack(w) \ keptNames)
       /\ working' = working \ ({Mine(w)} \X (Copies \ keptCopies))
  /\ IF Owns(w) THEN FailRow(run[w], "TRAINING_CLEANUP_FAILED") ELSE UNCHANGED rowVars
  /\ Settle(w, "retry")
  /\ UNCHANGED <<queueVars, requestVars, history>>

\* Mutation: what a trainer that cannot be ended works on is removed all the same.
KeptForSurvivorNone(w) == working \ CopiesOf(Mine(w))
\* "A running trainer must never lose its artifacts or workspace" (training.py:634).
KeptForSurvivor(w) == working

FinalizeUnkillable(w) ==
  /\ pc[w] = "finalize" /\ ~Locked(run[w])
  /\ Mine(w) \in trainers
  /\ Spend("unkillable")
  /\ survivors' = survivors \cup {Mine(w)}
  /\ working' = KeptForSurvivor(w)
  /\ IF Owns(w) THEN FailRow(run[w], "TRAINING_CLEANUP_FAILED") ELSE UNCHANGED rowVars
  /\ Settle(w, "retry")
  /\ UNCHANGED <<queueVars, requestVars, trainers, final, dropped>>

\* The transaction raises before the cleanup, of which only the trainer's end is made
\* up for, or after it.  The row keeps its token and is never claimed again.
FinalizeRaises(w) ==
  /\ pc[w] = "finalize"
  /\ Spend("database_error")
  /\ \/ CleanedUp(w)
     \/ trainers' = trainers \ {Mine(w)} /\ UNCHANGED <<working, final>>
  /\ IF Owns(w) THEN Strand(run[w], "fault") ELSE UNCHANGED dropped
  /\ Settle(w, "retry")
  /\ UNCHANGED <<rowVars, queueVars, requestVars, survivors>>

-----------------------------------------------------------------------------
(* The task around it: train_annotation_model in tasks.py *)

Retry(w) ==
  /\ pc[w] = "retry" /\ retries[w] < MaxRetries
  /\ \/ /\ ready' = Put(ready, <<run[w], retries[w] + 1>>)
        /\ Calm
        /\ UNCHANGED dropped
     \/ /\ Spend("retry_send")
        /\ Strand(run[w], "fault")
        /\ UNCHANGED ready
  /\ Settle(w, "done")
  /\ UNCHANGED <<rowVars, event, sending, limbo, requestVars, effects, survivors>>

\* retry(exc=error) without a retry left raises the error itself, which the handler of
\* MaxRetriesExceededError does not see: the run is not failed.
Exhausted(w) ==
  /\ pc[w] = "retry" /\ retries[w] = MaxRetries
  /\ Strand(run[w], "exhausted")
  /\ Settle(w, "done")
  /\ Calm
  /\ UNCHANGED <<rowVars, queueVars, requestVars, effects, survivors>>

SettleMessage(w) ==
  /\ pc[w] = "done"
  /\ Idle(w)
  /\ Calm
  /\ UNCHANGED <<rowVars, queueVars, requestVars, effects, history>>

-----------------------------------------------------------------------------
(* Crashes and the broker *)

\* A dead worker takes the attempt with it, and with the attempt the run.
StrandIfOwned(w) ==
  IF pc[w] \in Holding /\ Owns(w) THEN Strand(run[w], "fault") ELSE UNCHANGED dropped

\* reject_on_worker_lost: the message is back at once.
WorkerLost(w) ==
  /\ pc[w] # "idle"
  /\ Spend("worker_lost")
  /\ ready' = Put(ready, Message(w))
  /\ StrandIfOwned(w)
  /\ Idle(w)
  /\ UNCHANGED <<rowVars, event, sending, limbo, requestVars, effects, survivors>>

\* The trainer dies with the host.
HostCrash(w) ==
  /\ pc[w] # "idle"
  /\ Spend("host_crash")
  /\ limbo' = Put(limbo, Message(w))
  /\ trainers' = trainers \ {Mine(w)}
  /\ StrandIfOwned(w)
  /\ Idle(w)
  /\ UNCHANGED <<rowVars, event, sending, ready, requestVars, working, final, survivors>>

VisibilityTimeout(m) ==
  /\ limbo[m] > 0
  /\ limbo' = Take(limbo, m)
  /\ ready' = Put(ready, m)
  /\ Calm
  /\ UNCHANGED <<rowVars, event, sending, requestVars, workerVars, effects, history>>

\* The child is killed and its message rejected.
HardTimeout(w) ==
  /\ pc[w] \in Holding \cup {"retry"}
  /\ Spend("hard_timeout")
  /\ Strand(run[w], "fault")
  /\ Idle(w)
  /\ UNCHANGED <<rowVars, queueVars, requestVars, effects, survivors>>

\* A trainer whose worker is gone ends itself (PR_SET_PDEATHSIG), a little later; one
\* that survived its termination may end some day.
TrainerDies(a) ==
  /\ a \in trainers
  /\ \A w \in Workers : Mine(w) # a
  /\ trainers' = trainers \ {a}
  /\ Calm
  /\ UNCHANGED <<rowVars, queueVars, requestVars, workerVars, working, final, history>>

-----------------------------------------------------------------------------
(* The specification *)

Publishing == \E p \in Publishers : PublishSend(p) \/ PublishEnd(p)

WorkerStep(w) ==
  \/ Prepare(w) \/ Train(w) \/ Upload(w)
  \/ Copy(w) \/ Clean(w) \/ Commit(w)
  \/ Finalize(w)
  \/ Retry(w) \/ Exhausted(w) \/ SettleMessage(w)

Disturbance(w) ==
  \/ PrepareFails(w) \/ TrainFails(w) \/ UploadFails(w)
  \/ CopyFails(w) \/ CleanFails(w) \/ CommitFails(w)
  \/ FinalizeDirty(w) \/ FinalizeUnkillable(w) \/ FinalizeRaises(w)
  \/ WorkerLost(w) \/ HostCrash(w) \/ HardTimeout(w)

Next ==
  \/ Publishing
  \/ \E q \in Requesters : StartRead(q) \/ StartCommit(q) \/ StartAbort(q)
  \/ \E w \in Workers, m \in Messages : Deliver(w, m)
  \/ \E w \in Workers : WorkerStep(w) \/ Disturbance(w)
  \/ \E m \in Messages : VisibilityTimeout(m)
  \/ \E a \in trainers : TrainerDies(a)

\* The publisher and the workers go on, and a request that holds a row ends one way or
\* the other; no fault, no new start and no trainer's own end is fair.
Fairness ==
  /\ \A q \in Requesters : WF_trainingVars(StartCommit(q) \/ StartAbort(q))
  /\ WF_trainingVars(Publishing /\ Calm)
  /\ WF_trainingVars(\E w \in Workers, m \in Messages : Deliver(w, m) /\ Calm)
  /\ \A w \in Workers : WF_trainingVars(WorkerStep(w) /\ Calm)
  /\ \A m \in Messages : WF_trainingVars(VisibilityTimeout(m))

Spec == Init /\ [][Next]_trainingVars
FairSpec == Spec /\ Fairness

-----------------------------------------------------------------------------
(* Properties *)

\* At most one trainer works for a project, across starts, duplicate messages, retries
\* and dead workers, but for those that survived their termination.
OneTrainer == \A a, b \in trainers \ survivors : a = b

\* Until it has finalized it, an attempt keeps its run: no message, start or other
\* attempt takes it away, so its heartbeats and fences never refuse it.
AttemptKeepsRun == \A w \in Workers : pc[w] \in Trying => Owns(w)

\* "A running trainer must never lose its artifacts or workspace" (training.py:634):
\* no finalization, of its own attempt or of another, removes them.
TrainerKeepsWorkspace ==
  \A a \in trainers : <<a, "root">> \in working /\ <<a, "snapshot">> \in working

\* "Only a cleared token denotes an explicit retry-ready run" (training.py:156): when
\* the row is let go, the attempt's trainer, workspace and uploads are gone, and its
\* final artifacts too unless it succeeded; or the row says that they are not.
LetGoIsFinalized ==
  \A r \in Runs :
    /\ token[r] = 0
    /\ status[r] \in {"RUNNING", "SUCCEEDED"} \/ code[r] = "TRAINING_FAILED"
    => LET a == <<r, generation[r]>> IN
       /\ a \notin trainers
       /\ working \cap CopiesOf(a) = {}
       /\ generation[r] # 0 /\ status[r] # "SUCCEEDED" =>
            \A n \in Artifacts : final[<<r, n>>] # generation[r]

\* A succeeded run has both artifacts of the attempt its row names, whatever the
\* finalization of that attempt does when its commit raised.
ModelIsServed ==
  \A r \in Runs : status[r] = "SUCCEEDED" =>
    \A n \in Artifacts : final[<<r, n>>] = artifact[r]

\* A model that becomes available is newer than every model before it, and the older
\* ones stay as they are.
NewerModels ==
  [][\A r \in Runs : status[r] = "SUCCEEDED" =>
       /\ status'[r] = status[r] /\ version'[r] = version[r] /\ artifact'[r] = artifact[r]
       /\ \A q \in Runs : version[q] = 0 /\ version'[q] # 0 => version'[q] > version[r]
    ]_trainingVars

\* Something that will act on an active run.
Tended(r) ==
  \/ \E w \in Workers : run[w] = r /\ pc[w] \in Holding /\ Owns(w)
  \/ /\ token[r] = 0
     /\ \/ event[r] = "pending"
        \/ \E m \in Messages : m[1] = r /\ ready[m] + limbo[m] > 0
        \/ \E w \in Workers : run[w] = r /\ pc[w] = "retry"

\* An active run has a worker that owns it, or an event, a message or a retry that will
\* claim it; unless a dead worker, an error of its claim, finalization or retry, or its
\* last retry has left it.
NoRunStranded == \A r \in Runs : status[r] \in Active => Tended(r) \/ dropped[r] # "no"

\* A run whose retries are used up is failed, as the task means to do (tasks.py:223):
\* "except MaxRetriesExceededError as exhausted: fail_unleased_training(...)".
ExhaustedRunFails == \A r \in Runs : dropped[r] = "exhausted" => status[r] \notin Active

\* A started run ends, and the project may train again.
EveryRunEnds ==
  \A r \in Runs : status[r] \in Active ~> status[r] \notin Active \/ dropped[r] # "no"

=============================================================================
