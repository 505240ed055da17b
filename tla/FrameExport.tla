----------------------------- MODULE FrameExport -----------------------------
(***************************************************************************)
(* An archive of selected frames: requested through the API, announced by  *)
(* an outbox event, built by a worker under a lease and an attempt         *)
(* generation, uploaded as an object of that attempt and offered for       *)
(* download.  Requests of the same selection share one row.                *)
(*                                                                         *)
(* Actions and faults are cut as in JobPipeline.  Redis persists here:     *)
(* its loss strands an export exactly as it strands a job.                 *)
(***************************************************************************)
EXTENDS Integers, FiniteSets

CONSTANTS
  Exports,      \* selections of one result: a row each, by its unique constraint
  Workers,      \* Celery worker processes
  Publishers,   \* outbox publisher processes
  Requesters,   \* API requests in progress at once
  NoExport,
  MaxRequests,  \* bound: requests in one behaviour that have something to write
  MaxRetries,   \* max_retries of the task (2 in tasks.py)
  Faults, FaultBudget

FaultKinds == {
  "transient",      \* an error of the storage, the database or the soft time limit
  "invalid",        \* a manifest or frame that fails validation, a limit exceeded
  "delete_error",   \* object storage refuses a deletion
  "stall",          \* a live worker does not renew its lease in time
  "rollback",       \* a publisher sends and then does not commit
  "stale_request",  \* a request commits after what it read has changed
  "ambiguous",      \* the commit of READY takes effect but raises
  "worker_lost",    \* a worker child dies, its parent requeues the message
  "host_crash",     \* a worker host dies with its message unacknowledged
  "late_crash",     \* an owner dies less than a lease before a message returns
  "hard_timeout",   \* Celery kills the task at its hard time limit
  "db_error",       \* a statement of a handler raises
  "retry_send" }    \* task.retry() cannot reach the broker

ASSUME ExportAssumption ==
  /\ NoExport \notin Exports
  /\ MaxRequests \in Nat /\ MaxRetries \in Nat /\ FaultBudget \in Nat
  /\ Faults \subseteq FaultKinds

VARIABLES
  \* frame_exports, one entry per column that matters here
  status, code, token, lease, generation, working, artifact,
  event,      \* frame_export_outbox: none, pending (published_at is NULL) or published
  sending,    \* the export whose locked event a publisher has sent, not committed
  ready,      \* broker: messages a worker may take
  waiting,    \* broker: messages waiting for another worker's lease to lapse
  limbo,      \* broker: unacknowledged messages of dead hosts
  rpc, wanted,                 \* API requests: where they are, the export they ask for
  requests,                    \* requests so far
  pc, export, retries,         \* worker processes: where they are, their message
  mine, stale, uploaded, lost, \* what they remember of the attempt
  objects,    \* object storage: the attempts whose archive is there
  budget,     \* faults still to come
  \* history: exports whose message was thrown away, attempts whose READY raised
  dropped, unsure

rowVars == <<status, code, token, lease, generation, working, artifact>>
eventVars == <<event, sending>>
brokerVars == <<ready, waiting, limbo>>
requestVars == <<rpc, wanted, requests>>
memory == <<mine, stale, uploaded, lost>>
workerVars == <<pc, export, retries, memory>>
exportVars == <<rowVars, eventVars, brokerVars, requestVars, workerVars, objects, budget,
                dropped, unsure>>

-----------------------------------------------------------------------------
(* Types *)

Status == {"ABSENT", "PREPARING", "READY", "FAILED"}
Ended == {"READY", "FAILED"}
Messages == Exports \X (0..MaxRetries)
Attempts == Exports \X (Nat \ {0})

\* A worker between _claim() and the end of create_export().
Holding == {"cleanup", "build", "upload", "verify", "finish", "invalid", "release"}
WorkerPC == {"idle", "busy", "discard", "drop", "retry", "done"} \cup Holding

\* Besides the ranges: a row has a token and a lease together, only while it is
\* PREPARING, and the token is the one of its last attempt.
RowTypeOK ==
  /\ status \in [Exports -> Status]
  /\ code \in [Exports -> {"none", "EXPORT_INVALID", "EXPORT_RETRY_EXHAUSTED"}]
  /\ token \in [Exports -> Nat] /\ generation \in [Exports -> Nat]
  /\ lease \in [Exports -> {"none", "live", "expired"}]
  /\ working \in [Exports -> Nat] /\ artifact \in [Exports -> Nat]
  /\ \A e \in Exports : /\ lease[e] = "none" <=> token[e] = 0
                        /\ token[e] # 0 => status[e] = "PREPARING" /\ token[e] = generation[e]
                        /\ working[e] = token[e]
                        /\ status[e] = "FAILED" <=> code[e] # "none"

\* A request in progress knows its export.
QueueTypeOK ==
  /\ event \in [Exports -> {"none", "pending", "published"}]
  /\ sending \in [Publishers -> Exports \cup {NoExport}]
  /\ ready \in [Messages -> Nat] /\ waiting \in [Messages -> Nat]
  /\ limbo \in [Messages -> Nat]
  /\ rpc \in [Requesters -> {"idle", "event", "keep", "reset"}]
  /\ wanted \in [Requesters -> Exports \cup {NoExport}]
  /\ \A r \in Requesters : rpc[r] = "idle" <=> wanted[r] = NoExport
  /\ requests \in 0..MaxRequests

\* A busy worker has an export, and an attempt from its claim to the end of finally.
WorkerTypeOK ==
  /\ pc \in [Workers -> WorkerPC]
  /\ export \in [Workers -> Exports \cup {NoExport}]
  /\ retries \in [Workers -> 0..MaxRetries]
  /\ mine \in [Workers -> Nat] /\ stale \in [Workers -> Nat]
  /\ uploaded \in [Workers -> BOOLEAN] /\ lost \in [Workers -> BOOLEAN]
  /\ \A w \in Workers : /\ pc[w] = "idle" <=> export[w] = NoExport
                        /\ mine[w] # 0 <=> pc[w] \in Holding \cup {"discard", "drop"}

TypeOK ==
  /\ RowTypeOK /\ QueueTypeOK /\ WorkerTypeOK
  /\ objects \subseteq Attempts /\ unsure \subseteq Attempts
  /\ dropped \in [Exports -> BOOLEAN]
  /\ budget \in Nat

Init ==
  /\ status = [e \in Exports |-> "ABSENT"]
  /\ code = [e \in Exports |-> "none"]
  /\ token = [e \in Exports |-> 0] /\ generation = [e \in Exports |-> 0]
  /\ lease = [e \in Exports |-> "none"]
  /\ working = [e \in Exports |-> 0] /\ artifact = [e \in Exports |-> 0]
  /\ event = [e \in Exports |-> "none"]
  /\ sending = [p \in Publishers |-> NoExport]
  /\ ready = [m \in Messages |-> 0] /\ waiting = [m \in Messages |-> 0]
  /\ limbo = [m \in Messages |-> 0]
  /\ rpc = [r \in Requesters |-> "idle"]
  /\ wanted = [r \in Requesters |-> NoExport]
  /\ requests = 0
  /\ pc = [w \in Workers |-> "idle"]
  /\ export = [w \in Workers |-> NoExport]
  /\ retries = [w \in Workers |-> 0]
  /\ mine = [w \in Workers |-> 0] /\ stale = [w \in Workers |-> 0]
  /\ uploaded = [w \in Workers |-> FALSE] /\ lost = [w \in Workers |-> FALSE]
  /\ objects = {} /\ unsure = {}
  /\ dropped = [e \in Exports |-> FALSE]
  /\ budget = FaultBudget

-----------------------------------------------------------------------------
(* Helpers *)

Spend(fault) == fault \in Faults /\ budget > 0 /\ budget' = budget - 1
Calm == budget' = budget

Put(queue, m) == [queue EXCEPT ![m] = @ + 1]
Take(queue, m) == [queue EXCEPT ![m] = @ - 1]
Message(w) == <<export[w], retries[w]>>
Mine(w) == <<export[w], mine[w]>>

Goto(w, p) == pc' = [pc EXCEPT ![w] = p] /\ UNCHANGED <<export, retries, memory>>

ForgetAttempt(w) ==
  /\ mine' = [mine EXCEPT ![w] = 0]
  /\ stale' = [stale EXCEPT ![w] = 0]
  /\ uploaded' = [uploaded EXCEPT ![w] = FALSE]
  /\ lost' = [lost EXCEPT ![w] = FALSE]

Settle(w, p) ==
  /\ pc' = [pc EXCEPT ![w] = p]
  /\ ForgetAttempt(w)
  /\ UNCHANGED <<export, retries>>

Idle(w) ==
  /\ pc' = [pc EXCEPT ![w] = "idle"]
  /\ export' = [export EXCEPT ![w] = NoExport]
  /\ retries' = [retries EXCEPT ![w] = 0]
  /\ ForgetAttempt(w)

Drop(w) == dropped' = [dropped EXCEPT ![export[w]] = TRUE]

\* Mutation: the statements of an attempt are fenced by the status alone.
OwnsUnfenced(w) == status[export[w]] = "PREPARING"
\* The WHERE clause of _owned().
Owns(w) ==
  /\ status[export[w]] = "PREPARING"
  /\ token[export[w]] = mine[w] /\ generation[export[w]] = mine[w]

\* A request has written the row and not committed: every statement on it waits.
Locked(e) == \E r \in Requesters : wanted[r] = e /\ rpc[r] \in {"keep", "reset"}

OwnerAlive(e) == \E w \in Workers : export[w] = e /\ pc[w] \in Holding /\ mine[w] = token[e]

\* Mutation: the token of a released row is left behind.
UnleaseKeepsToken(e) ==
  /\ lease' = [lease EXCEPT ![e] = "none"]
  /\ working' = [working EXCEPT ![e] = 0]
  /\ UNCHANGED <<token, generation>>
\* The attempt lets go of the row.
Unlease(e) ==
  /\ token' = [token EXCEPT ![e] = 0]
  /\ lease' = [lease EXCEPT ![e] = "none"]
  /\ working' = [working EXCEPT ![e] = 0]
  /\ UNCHANGED generation

FailRow(e, c) ==
  /\ Unlease(e)
  /\ status' = [status EXCEPT ![e] = "FAILED"]
  /\ code' = [code EXCEPT ![e] = c]
  /\ UNCHANGED artifact

ReadyRow(e, g) ==
  /\ Unlease(e)
  /\ status' = [status EXCEPT ![e] = "READY"]
  /\ code' = [code EXCEPT ![e] = "none"]
  /\ artifact' = [artifact EXCEPT ![e] = g]

ReleaseRow(e) == Unlease(e) /\ UNCHANGED <<status, code, artifact>>

SetLease(e, l) ==
  /\ lease' = [lease EXCEPT ![e] = l]
  /\ UNCHANGED <<status, code, token, generation, working, artifact>>

-----------------------------------------------------------------------------
(* Requests: FrameExportService.create *)

Revivable(e) == status[e] = "FAILED" /\ code[e] # "EXPORT_INVALID"

Answered(r) ==
  /\ rpc' = [rpc EXCEPT ![r] = "idle"]
  /\ wanted' = [wanted EXCEPT ![r] = NoExport]
  /\ UNCHANGED requests

\* The first request of a selection inserts row and event in one transaction.  Of two
\* that both read no row the unique constraint lets one insert; the other is answered
\* with that row, as is every request that finds an export it need not start: neither
\* changes anything.
RequestInsert(e) ==
  /\ status[e] = "ABSENT"
  /\ requests < MaxRequests
  /\ requests' = requests + 1
  /\ status' = [status EXCEPT ![e] = "PREPARING"]
  /\ event' = [event EXCEPT ![e] = "pending"]
  /\ Calm
  /\ UNCHANGED <<code, token, lease, generation, working, artifact, sending, brokerVars, rpc,
                 wanted, workerVars, objects, dropped, unsure>>

\* The SELECT of the row, which locks nothing.
RequestRead(r) ==
  /\ rpc[r] = "idle"
  /\ requests < MaxRequests
  /\ requests' = requests + 1
  /\ \E e \in Exports : /\ Revivable(e)
                        /\ wanted' = [wanted EXCEPT ![r] = e]
  /\ rpc' = [rpc EXCEPT ![r] = "event"]
  /\ Calm
  /\ UNCHANGED <<rowVars, eventVars, brokerVars, workerVars, objects, dropped, unsure>>

\* The SELECT of the event, before which the session flushes the row: its UPDATE is
\* not visible before the commit, but locks the row.
RequestReadEvent(r) ==
  /\ rpc[r] = "event"
  /\ ~Locked(wanted[r])
  /\ rpc' = [rpc EXCEPT ![r] = IF event[wanted[r]] = "published" THEN "reset" ELSE "keep"]
  /\ Calm
  /\ UNCHANGED <<rowVars, eventVars, brokerVars, wanted, requests, workerVars, objects,
                 dropped, unsure>>

\* What the request read is no longer so.
Stale(r) ==
  \/ status[wanted[r]] # "FAILED"
  \/ (event[wanted[r]] = "published") # (rpc[r] = "reset")

\* Mutation: the event of a restarted export is not made due again.
ReissuesNever(r) == FALSE
Reissues(r) == rpc[r] = "reset"

\* The last flush and the commit.  A flush writes the columns that differ from what
\* was read: published_at only when it was set.  It waits for a publisher that has
\* locked the event.
RequestCommit(r) ==
  /\ rpc[r] \in {"reset", "keep"}
  /\ \A p \in Publishers : sending[p] # wanted[r]
  /\ IF Stale(r) THEN Spend("stale_request") ELSE Calm
  /\ status' = [status EXCEPT ![wanted[r]] = "PREPARING"]
  /\ code' = [code EXCEPT ![wanted[r]] = "none"]
  /\ event' = [event EXCEPT ![wanted[r]] = IF Reissues(r) THEN "pending" ELSE @]
  /\ dropped' = [dropped EXCEPT ![wanted[r]] =
                   rpc[r] = "keep" /\ event[wanted[r]] = "published"]
  /\ Answered(r)
  /\ UNCHANGED <<token, lease, generation, working, artifact, sending, brokerVars, workerVars,
                 objects, unsure>>

\* The client goes away or a statement raises: the transaction is rolled back.
RequestAbort(r) ==
  /\ rpc[r] # "idle"
  /\ Answered(r)
  /\ Calm
  /\ UNCHANGED <<rowVars, eventVars, brokerVars, workerVars, objects, dropped, unsure>>

-----------------------------------------------------------------------------
(* The outbox: _publish_one_export *)

PublishSend(p) ==
  /\ sending[p] = NoExport
  /\ \E e \in Exports :
       /\ event[e] = "pending"
       /\ \A q \in Publishers : sending[q] # e          \* FOR UPDATE SKIP LOCKED
       /\ sending' = [sending EXCEPT ![p] = e]
       /\ ready' = Put(ready, <<e, 0>>)
  /\ Calm
  /\ UNCHANGED <<rowVars, event, waiting, limbo, requestVars, workerVars, objects, dropped,
                 unsure>>

PublishEnd(p) ==
  /\ sending[p] # NoExport
  /\ \/ /\ event' = [event EXCEPT ![sending[p]] = "published"]
        /\ Calm
     \/ UNCHANGED event /\ Spend("rollback")
  /\ sending' = [sending EXCEPT ![p] = NoExport]
  /\ UNCHANGED <<rowVars, brokerVars, requestVars, workerVars, objects, dropped, unsure>>

-----------------------------------------------------------------------------
(* The attempt: create_export *)

\* Mutation: the lease of another worker is not respected.
BusyNever(e) == FALSE
Busy(e) == lease[e] = "live"

\* _claim(), which holds the row's lock from its SELECT to its UPDATE.
Claim(w, e) ==
  \/ /\ status[e] # "PREPARING"
     /\ pc' = [pc EXCEPT ![w] = "done"]
     /\ UNCHANGED <<rowVars, memory>>
  \/ /\ status[e] = "PREPARING" /\ Busy(e)
     /\ pc' = [pc EXCEPT ![w] = "busy"]
     /\ UNCHANGED <<rowVars, memory>>
  \/ /\ status[e] = "PREPARING" /\ ~Busy(e)
     /\ generation' = [generation EXCEPT ![e] = @ + 1]
     /\ token' = [token EXCEPT ![e] = generation[e] + 1]
     /\ working' = [working EXCEPT ![e] = generation[e] + 1]
     /\ lease' = [lease EXCEPT ![e] = "live"]
     /\ mine' = [mine EXCEPT ![w] = generation[e] + 1]
     /\ stale' = [stale EXCEPT ![w] = working[e]]
     /\ pc' = [pc EXCEPT ![w] = "cleanup"]
     /\ UNCHANGED <<status, code, artifact, uploaded, lost>>

\* A worker takes a message and claims its export: until then it knows nothing.  A
\* claim that raises leaves no attempt to release.
Deliver(w, m) ==
  /\ pc[w] = "idle"
  /\ ready[m] > 0 /\ ~Locked(m[1])
  /\ ready' = Take(ready, m)
  /\ export' = [export EXCEPT ![w] = m[1]]
  /\ retries' = [retries EXCEPT ![w] = m[2]]
  /\ \/ Claim(w, m[1]) /\ Calm
     \/ /\ Spend("transient")
        /\ pc' = [pc EXCEPT ![w] = "retry"]
        /\ UNCHANGED <<rowVars, memory>>
  /\ UNCHANGED <<eventVars, waiting, limbo, requestVars, objects, dropped, unsure>>

\* _delete_attempt(): best effort, errors are swallowed.
Delete(attempt) ==
  \/ objects' = objects \ {attempt} /\ Calm
  \/ objects' = objects /\ attempt \in objects /\ Spend("delete_error")

CleanUp(w) ==
  /\ pc[w] = "cleanup"
  /\ Delete(<<export[w], stale[w]>>)
  /\ Goto(w, "build")
  /\ UNCHANGED <<rowVars, eventVars, brokerVars, requestVars, dropped, unsure>>

\* Read, verify and pack the frames; the last thing is a heartbeat.
Build(w) ==
  /\ pc[w] = "build" /\ ~Locked(export[w])
  /\ IF Owns(w)
       THEN SetLease(export[w], "live") /\ Goto(w, "upload")
       ELSE UNCHANGED rowVars /\ Goto(w, "release")             \* ExportLeaseLost
  /\ Calm
  /\ UNCHANGED <<eventVars, brokerVars, requestVars, objects, dropped, unsure>>

\* The heartbeats in between, late or not: they find the lease their own or fail,
\* while packing at once, while uploading through the thread's flag.
Heartbeat(w) ==
  /\ ~Locked(export[w])
  /\ \/ /\ pc[w] \in {"build", "upload"} /\ ~lost[w] /\ Owns(w)
        /\ lease[export[w]] = "expired"
        /\ SetLease(export[w], "live")
        /\ UNCHANGED workerVars
     \/ /\ pc[w] = "build" /\ ~Owns(w)
        /\ Goto(w, "release")
        /\ UNCHANGED rowVars
     \/ /\ pc[w] = "upload" /\ ~lost[w] /\ ~Owns(w)
        /\ lost' = [lost EXCEPT ![w] = TRUE]
        /\ UNCHANGED <<rowVars, pc, export, retries, mine, stale, uploaded>>
  /\ Calm
  /\ UNCHANGED <<eventVars, brokerVars, requestVars, objects, dropped, unsure>>

Upload(w) ==
  /\ pc[w] = "upload"
  /\ uploaded' = [uploaded EXCEPT ![w] = TRUE]
  /\ \/ /\ objects' = objects \cup {Mine(w)}
        /\ pc' = [pc EXCEPT ![w] = "verify"]
        /\ Calm
     \/ /\ Spend("transient")
        /\ objects' \in {objects, objects \cup {Mine(w)}}
        /\ pc' = [pc EXCEPT ![w] = "release"]
  /\ UNCHANGED <<rowVars, eventVars, brokerVars, requestVars, export, retries, mine, stale,
                 lost, dropped, unsure>>

\* The heartbeat's flag, then the HEAD request.
Verify(w) ==
  /\ pc[w] = "verify"
  /\ Goto(w, IF ~lost[w] /\ Mine(w) \in objects THEN "finish" ELSE "release")
  /\ Calm
  /\ UNCHANGED <<rowVars, eventVars, brokerVars, requestVars, objects, dropped, unsure>>

Finish(w) ==
  /\ pc[w] = "finish" /\ ~Locked(export[w])
  /\ \/ /\ Owns(w)
        /\ ReadyRow(export[w], mine[w])
        /\ Settle(w, "done")                      \* uploaded = False
        /\ UNCHANGED unsure
        /\ Calm
     \/ /\ Owns(w)                                \* the commit raises all the same
        /\ Spend("ambiguous")
        /\ ReadyRow(export[w], mine[w])
        /\ unsure' = unsure \cup {Mine(w)}
        /\ Goto(w, "release")
     \/ /\ ~Owns(w)
        /\ Goto(w, "release")
        /\ UNCHANGED <<rowVars, unsure>>
        /\ Calm
  /\ UNCHANGED <<eventVars, brokerVars, requestVars, objects, dropped>>

\* A retryable error anywhere else in the try block.
AttemptFails(w) ==
  /\ pc[w] \in {"build", "verify", "finish"}
  /\ Spend("transient")
  /\ Goto(w, "release")
  /\ UNCHANGED <<rowVars, eventVars, brokerVars, requestVars, objects, dropped, unsure>>

AttemptInvalid(w) ==
  /\ pc[w] = "build"
  /\ Spend("invalid")
  /\ Goto(w, "invalid")
  /\ UNCHANGED <<rowVars, eventVars, brokerVars, requestVars, objects, dropped, unsure>>

\* Mutation: the validation error gives the lease back like any other.
MarkInvalidReleases(w) == IF Owns(w) THEN ReleaseRow(export[w]) ELSE UNCHANGED rowVars
MarkInvalid(w) ==
  IF Owns(w) THEN FailRow(export[w], "EXPORT_INVALID") ELSE UNCHANGED rowVars

\* except PermanentExportError, which is raised only before the upload: the task is
\* rejected for good.
FailInvalid(w) ==
  /\ pc[w] = "invalid" /\ ~Locked(export[w])
  /\ MarkInvalid(w)
  /\ Settle(w, "done")
  /\ Calm
  /\ UNCHANGED <<eventVars, brokerVars, requestVars, objects, dropped, unsure>>

\* The other handlers: the lease is given back to whoever retries.
Release(w) ==
  /\ pc[w] = "release" /\ ~Locked(export[w])
  /\ IF Owns(w) THEN ReleaseRow(export[w]) ELSE UNCHANGED rowVars
  /\ Goto(w, "discard")
  /\ Calm
  /\ UNCHANGED <<eventVars, brokerVars, requestVars, objects, dropped, unsure>>

\* finally: what was uploaded and not published is removed.
Discard(w) ==
  /\ pc[w] \in {"discard", "drop"}
  /\ IF uploaded[w] THEN Delete(Mine(w)) ELSE UNCHANGED objects /\ Calm
  /\ Settle(w, IF pc[w] = "discard" THEN "retry" ELSE "done")
  /\ UNCHANGED <<rowVars, eventVars, brokerVars, requestVars, dropped, unsure>>

-----------------------------------------------------------------------------
(* The task around it: _execute_export_task *)

\* TransientExportError: a new message, soon.
Retry(w) ==
  /\ pc[w] = "retry" /\ retries[w] < MaxRetries
  /\ \/ ready' = Put(ready, <<export[w], retries[w] + 1>>) /\ Calm /\ UNCHANGED dropped
     \/ UNCHANGED ready /\ Spend("retry_send") /\ Drop(w)
  /\ Settle(w, "done")
  /\ UNCHANGED <<rowVars, eventVars, waiting, limbo, requestVars, objects, unsure>>

\* Mutation: an export whose retries are used up is failed, whoever works on it.
UnleasedAny(e) == TRUE
\* The WHERE clause of fail_unleased_export().
Unleased(e) == status[e] = "PREPARING" /\ (token[e] = 0 \/ lease[e] = "expired")

\* A row it does not reach is ended already, or under the live lease of another
\* attempt: if that one's worker is dead, no message is left.
Exhausted(w) ==
  /\ pc[w] = "retry" /\ retries[w] = MaxRetries /\ ~Locked(export[w])
  /\ \/ /\ Unleased(export[w])
        /\ FailRow(export[w], "EXPORT_RETRY_EXHAUSTED")
        /\ UNCHANGED dropped
     \/ /\ ~Unleased(export[w])
        /\ IF status[export[w]] = "PREPARING" THEN Drop(w) ELSE UNCHANGED dropped
        /\ UNCHANGED rowVars
  /\ Settle(w, "done")
  /\ Calm
  /\ UNCHANGED <<eventVars, brokerVars, requestVars, objects, unsure>>

\* ExportLeaseBusy: a message that outwaits the lease, out of the same budget of
\* retries; without any left the message is simply gone.
WaitForLease(w) ==
  /\ pc[w] = "busy"
  /\ \/ /\ retries[w] < MaxRetries
        /\ waiting' = Put(waiting, <<export[w], retries[w] + 1>>)
        /\ Calm
        /\ UNCHANGED dropped
     \/ /\ retries[w] < MaxRetries /\ Spend("retry_send")
        /\ Drop(w)
        /\ UNCHANGED waiting
     \/ /\ retries[w] = MaxRetries
        /\ Drop(w)
        /\ Calm
        /\ UNCHANGED waiting
  /\ Settle(w, "done")
  /\ UNCHANGED <<rowVars, eventVars, ready, limbo, requestVars, objects, unsure>>

SettleMessage(w) ==
  /\ pc[w] = "done"
  /\ Idle(w)
  /\ Calm
  /\ UNCHANGED <<rowVars, eventVars, brokerVars, requestVars, objects, dropped, unsure>>

\* A handler's own statement raises, or the soft time limit strikes in it: finally
\* still runs, but the task does not know the exception and its message is gone.
HandlerFails(w) ==
  /\ \/ pc[w] \in {"invalid", "release"} /\ Goto(w, "drop")
     \/ pc[w] = "retry" /\ retries[w] = MaxRetries /\ Settle(w, "done")
  /\ Spend("db_error")
  /\ Drop(w)
  /\ UNCHANGED <<rowVars, eventVars, brokerVars, requestVars, objects, unsure>>

-----------------------------------------------------------------------------
(* Clocks, crashes and the broker *)

LeaseExpires(e) ==
  /\ lease[e] = "live"
  /\ IF OwnerAlive(e) THEN Spend("stall") ELSE Calm
  /\ SetLease(e, "expired")
  /\ UNCHANGED <<eventVars, brokerVars, requestVars, workerVars, objects, dropped, unsure>>

\* Both a lease wait (its countdown is a lease and a little more) and the visibility
\* timeout outlast the lease of an owner that is dead by then, unless it died late.
Returns(m) ==
  /\ IF lease[m[1]] = "live" /\ ~OwnerAlive(m[1]) THEN Spend("late_crash") ELSE Calm
  /\ ready' = Put(ready, m)

WaitOver(m) ==
  /\ waiting[m] > 0
  /\ waiting' = Take(waiting, m)
  /\ Returns(m)
  /\ UNCHANGED <<rowVars, eventVars, limbo, requestVars, workerVars, objects, dropped, unsure>>

VisibilityTimeout(m) ==
  /\ limbo[m] > 0
  /\ limbo' = Take(limbo, m)
  /\ Returns(m)
  /\ UNCHANGED <<rowVars, eventVars, waiting, requestVars, workerVars, objects, dropped,
                 unsure>>

\* reject_on_worker_lost: the message is back at once.
WorkerLost(w) ==
  /\ pc[w] # "idle"
  /\ Spend("worker_lost")
  /\ ready' = Put(ready, Message(w))
  /\ Idle(w)
  /\ UNCHANGED <<rowVars, eventVars, waiting, limbo, requestVars, objects, dropped, unsure>>

HostCrash(w) ==
  /\ pc[w] # "idle"
  /\ Spend("host_crash")
  /\ limbo' = Put(limbo, Message(w))
  /\ Idle(w)
  /\ UNCHANGED <<rowVars, eventVars, ready, waiting, requestVars, objects, dropped, unsure>>

\* The child is killed and its message rejected.
HardTimeout(w) ==
  /\ pc[w] \in Holding \cup {"discard", "drop"}
  /\ Spend("hard_timeout")
  /\ Drop(w)
  /\ Idle(w)
  /\ UNCHANGED <<rowVars, eventVars, brokerVars, requestVars, objects, unsure>>

-----------------------------------------------------------------------------
(* The specification *)

Publishing == \E p \in Publishers : PublishSend(p) \/ PublishEnd(p)

RequestEnd(r) == RequestCommit(r) \/ RequestAbort(r)

WorkerStep(w) ==
  \/ CleanUp(w) \/ Build(w) \/ Upload(w) \/ Verify(w) \/ Finish(w)
  \/ FailInvalid(w) \/ Release(w) \/ Discard(w)
  \/ Retry(w) \/ Exhausted(w) \/ WaitForLease(w) \/ SettleMessage(w)

Disturbance(w) ==
  \/ AttemptFails(w) \/ AttemptInvalid(w) \/ HandlerFails(w)
  \/ WorkerLost(w) \/ HostCrash(w) \/ HardTimeout(w)

Next ==
  \/ Publishing
  \/ \E r \in Requesters : RequestRead(r) \/ RequestReadEvent(r) \/ RequestEnd(r)
  \/ \E w \in Workers, m \in Messages : Deliver(w, m)
  \/ \E w \in Workers : WorkerStep(w) \/ Heartbeat(w) \/ Disturbance(w)
  \/ \E e \in Exports : RequestInsert(e) \/ LeaseExpires(e)
  \/ \E m \in Messages : WaitOver(m) \/ VisibilityTimeout(m)

\* The publisher, the workers and the clocks go on, and a request that holds a lock
\* ends one way or the other; no fault, no new request and no heartbeat is fair.
Fairness ==
  /\ \A r \in Requesters : WF_exportVars(RequestEnd(r) /\ Calm)
  /\ WF_exportVars(Publishing /\ Calm)
  /\ WF_exportVars(\E w \in Workers, m \in Messages : Deliver(w, m) /\ Calm)
  /\ \A w \in Workers : WF_exportVars(WorkerStep(w) /\ Calm)
  /\ \A e \in Exports : WF_exportVars(LeaseExpires(e) /\ Calm)
  /\ \A m \in Messages : WF_exportVars((WaitOver(m) \/ VisibilityTimeout(m)) /\ Calm)

Spec == Init /\ [][Next]_exportVars
FairSpec == Spec /\ Fairness

-----------------------------------------------------------------------------
(* Properties *)

\* An export that is READY has the archive its row names, whatever cleanup of a
\* lapsed or failed attempt still runs; the one exception is an attempt whose
\* commit of READY raised, which removes its own archive (exports.py finally).
ReadyHasArtifact ==
  \A e \in Exports : status[e] = "READY" =>
    <<e, artifact[e]>> \in objects \cup unsure

\* While the lease of an attempt is live, the attempt is ended only by the worker
\* that made it: no claim, no exhausted retry and no request reaches its row.
OnlyHolderEndsLease ==
  [][\A e \in Exports : lease[e] = "live" /\ token'[e] # token[e] =>
       \E w \in Workers : /\ export[w] = e /\ mine[w] = token[e]
                          /\ pc[w] \in Holding /\ pc'[w] # pc[w]]_exportVars

\* Nothing but a request takes an export out of READY or FAILED: late attempts,
\* retries and cleanups leave its row alone.
EndedUntilRequested ==
  [][\A e \in Exports : status[e] \in Ended =>
       \/ /\ status'[e] = status[e] /\ code'[e] = code[e] /\ artifact'[e] = artifact[e]
          /\ token'[e] = token[e] /\ generation'[e] = generation[e]
       \/ \E r \in Requesters : wanted[r] = e /\ rpc[r] # "idle" /\ rpc'[r] = "idle"]_exportVars

Carried(e) ==
  \/ event[e] = "pending"
  \/ \E m \in Messages : m[1] = e /\ ready[m] + waiting[m] + limbo[m] > 0
  \/ \E w \in Workers : export[w] = e /\ pc[w] # "done"

\* An export in preparation always has an event, a message or a worker that will act
\* on it, unless its message was thrown away: by the hard limit, by a failing handler
\* or retry, by meeting a live lease with the last retry, or by a stale request.
NoExportStranded ==
  \A e \in Exports : status[e] = "PREPARING" => Carried(e) \/ dropped[e]

\* And then it ends: the archive is offered or the client may ask again.
EveryExportEnds ==
  \A e \in Exports : status[e] = "PREPARING" ~> status[e] \in Ended \/ dropped[e]

=============================================================================
