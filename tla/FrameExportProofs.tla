--------------------------- MODULE FrameExportProofs ---------------------------
(* Theorems of FrameExport, for every value of its constants. *)
EXTENDS FrameExport, TLAPS

USE ExportAssumption DEF Messages, Attempts

-----------------------------------------------------------------------------
(* The inductive invariant *)

\* No two workers hold one attempt, no attempt is yet to be counted, and what a worker
\* cleans up is older than its own attempt.
HolderInv ==
  \A w \in Workers : mine[w] # 0 =>
    /\ mine[w] <= generation[export[w]] /\ stale[w] < mine[w]
    /\ \A v \in Workers : export[v] = export[w] /\ mine[v] = mine[w] => v = w

\* A READY row names its last attempt; who still holds that attempt has lost its answer.
PublishedInv ==
  /\ \A e \in Exports : status[e] = "READY" => artifact[e] = generation[e]
  /\ \A w \in Workers :
       mine[w] # 0 /\ status[export[w]] = "READY" /\ artifact[export[w]] = mine[w] =>
         Mine(w) \in unsure

\* The archive of an attempt about to be published is there.
FinishInv == \A w \in Workers : pc[w] = "finish" /\ Owns(w) => Mine(w) \in objects

\* An export has an event from its insertion, pending as long as it is being sent, by one
\* publisher; and a request in progress found an export.
EventInv ==
  /\ \A e \in Exports : event[e] = "none" <=> status[e] = "ABSENT"
  /\ \A p \in Publishers : sending[p] # NoExport =>
       /\ event[sending[p]] = "pending"
       /\ \A q \in Publishers : sending[q] = sending[p] => p = q
  /\ \A r \in Requesters : rpc[r] # "idle" => status[wanted[r]] # "ABSENT"

\* An event that is not yet sent, a message, or a worker that will end the export, hand it
\* on, or note that it was thrown away.  An attempt that may fail for good counts only as
\* long as it owns the row.
Unsent(e) == event[e] = "pending" /\ \A p \in Publishers : sending[p] # e
Queued(e) == \E m \in Messages : m[1] = e /\ ready[m] + waiting[m] + limbo[m] > 0
Carries(w) ==
  \/ pc[w] \in {"busy", "retry", "upload", "verify", "finish", "release", "discard"}
  \/ pc[w] \in {"cleanup", "build", "invalid"} /\ Owns(w)

CarryInv ==
  \A e \in Exports : status[e] = "PREPARING" =>
    \/ dropped[e] \/ Unsent(e) \/ Queued(e)
    \/ \E w \in Workers : export[w] = e /\ Carries(w)

IInv ==
  /\ TypeOK /\ HolderInv /\ PublishedInv /\ FinishInv /\ EventInv /\ CarryInv
  /\ ReadyHasArtifact

-----------------------------------------------------------------------------
(* Type correctness *)

\* What every action does but one or two: the disjuncts of Next, group by group.
Requesting(r) == RequestRead(r) \/ RequestReadEvent(r) \/ RequestAbort(r)

LEMMA BudgetType ==
  ASSUME budget \in Nat, NEW f, Calm \/ Spend(f)
  PROVE  budget' \in Nat
BY DEF Calm, Spend

\* A busy worker has an export and a message.
LEMMA BusyWorker ==
  ASSUME WorkerTypeOK, NEW w \in Workers, pc[w] # "idle"
  PROVE  /\ export[w] \in Exports /\ Message(w) \in Messages
         /\ mine[w] # 0 => Mine(w) \in Attempts
BY DEF WorkerTypeOK, Message, Mine

(* Rows *)

LEMMA FailRowType ==
  ASSUME RowTypeOK, NEW e \in Exports, NEW c \in {"EXPORT_INVALID", "EXPORT_RETRY_EXHAUSTED"},
         FailRow(e, c)
  PROVE  RowTypeOK'
BY DEF RowTypeOK, FailRow, Unlease, Status

LEMMA ReadyRowType ==
  ASSUME RowTypeOK, NEW e \in Exports, NEW g \in Nat, ReadyRow(e, g)
  PROVE  RowTypeOK'
BY DEF RowTypeOK, ReadyRow, Unlease, Status

LEMMA ReleaseRowType ==
  ASSUME RowTypeOK, NEW e \in Exports, ReleaseRow(e)
  PROVE  RowTypeOK'
BY DEF RowTypeOK, ReleaseRow, Unlease, Status

LEMMA SetLeaseType ==
  ASSUME RowTypeOK, NEW e \in Exports, NEW l \in {"live", "expired"}, token[e] # 0, SetLease(e, l)
  PROVE  RowTypeOK'
BY DEF RowTypeOK, SetLease

LEMMA ClaimType ==
  ASSUME RowTypeOK, NEW w \in Workers, NEW e \in Exports, Claim(w, e)
  PROVE  RowTypeOK'
<1>1. CASE UNCHANGED rowVars
  BY <1>1 DEF RowTypeOK, rowVars
<1>2. CASE ~UNCHANGED rowVars
  <2>1. /\ status[e] = "PREPARING"
        /\ generation' = [generation EXCEPT ![e] = @ + 1]
        /\ token' = [token EXCEPT ![e] = generation[e] + 1]
        /\ working' = [working EXCEPT ![e] = generation[e] + 1]
        /\ lease' = [lease EXCEPT ![e] = "live"]
        /\ UNCHANGED <<status, code, artifact>>
    BY <1>2 DEF Claim
  <2>2. generation[e] + 1 \in Nat \ {0}
    BY DEF RowTypeOK
  <2>. QED BY <2>1, <2>2 DEF RowTypeOK
<1>. QED BY <1>1, <1>2

LEMMA RowTypes ==
  ASSUME TypeOK, Next
  PROVE  RowTypeOK'
<1>. RowTypeOK /\ WorkerTypeOK /\ QueueTypeOK
  BY DEF TypeOK
<1>1. CASE UNCHANGED rowVars
  BY <1>1 DEF RowTypeOK, rowVars
<1>2. ASSUME NEW e \in Exports, RequestInsert(e)
      PROVE  RowTypeOK'
  BY <1>2 DEF RowTypeOK, RequestInsert, Status
<1>3. ASSUME NEW r \in Requesters, RequestCommit(r)
      PROVE  RowTypeOK'
  BY <1>3 DEF RowTypeOK, RequestCommit, Status
<1>4. ASSUME NEW w \in Workers, NEW m \in Messages, Deliver(w, m)
      PROVE  RowTypeOK'
  BY <1>4, <1>1, ClaimType DEF Deliver
<1>5. ASSUME NEW w \in Workers, Build(w) \/ Heartbeat(w)
      PROVE  RowTypeOK'
  <2>1. CASE SetLease(export[w], "live") /\ Owns(w) /\ pc[w] \in {"build", "upload"}
    <3>1. export[w] \in Exports /\ token[export[w]] # 0
      BY <2>1, BusyWorker DEF WorkerTypeOK, Owns, Holding
    <3>. QED BY <2>1, <3>1, SetLeaseType
  <2>. QED BY <1>1, <1>5, <2>1 DEF Build, Heartbeat
<1>6. ASSUME NEW w \in Workers, Finish(w) \/ FailInvalid(w) \/ Release(w) \/ Exhausted(w)
      PROVE  RowTypeOK'
  <2>1. export[w] \in Exports /\ mine[w] \in Nat
    BY <1>6, BusyWorker DEF WorkerTypeOK, Finish, FailInvalid, Release, Exhausted
  <2>2. CASE Finish(w)
    BY <1>1, <2>1, <2>2, ReadyRowType DEF Finish
  <2>3. CASE FailInvalid(w)
    BY <1>1, <2>1, <2>3, FailRowType DEF FailInvalid, MarkInvalid
  <2>4. CASE Release(w)
    BY <1>1, <2>1, <2>4, ReleaseRowType DEF Release
  <2>5. CASE Exhausted(w)
    BY <1>1, <2>1, <2>5, FailRowType DEF Exhausted
  <2>. QED BY <1>6, <2>2, <2>3, <2>4, <2>5
<1>7. ASSUME NEW e \in Exports, LeaseExpires(e)
      PROVE  RowTypeOK'
  BY <1>7, SetLeaseType DEF LeaseExpires, RowTypeOK
<1>8. ASSUME NEW w \in Workers,
             \/ CleanUp(w) \/ Upload(w) \/ Verify(w) \/ Discard(w)
             \/ Retry(w) \/ WaitForLease(w) \/ SettleMessage(w) \/ Disturbance(w)
      PROVE  UNCHANGED rowVars
  BY <1>8 DEF CleanUp, Upload, Verify, Discard, Retry, WaitForLease, SettleMessage, Disturbance,
    AttemptFails, AttemptInvalid, HandlerFails, WorkerLost, HostCrash, HardTimeout
<1>9. ASSUME NEW r \in Requesters, Requesting(r)
      PROVE  UNCHANGED rowVars
  BY <1>9 DEF Requesting, RequestRead, RequestReadEvent, RequestAbort
<1>10. ASSUME Publishing \/ \E m \in Messages : WaitOver(m) \/ VisibilityTimeout(m)
       PROVE  UNCHANGED rowVars
  BY <1>10 DEF Publishing, PublishSend, PublishEnd, WaitOver, VisibilityTimeout
<1>. QED
  BY <1>1, <1>2, <1>3, <1>4, <1>5, <1>6, <1>7, <1>8, <1>9, <1>10
  DEF Next, WorkerStep, RequestEnd, Requesting

(* Workers *)

LEMMA GotoType ==
  ASSUME WorkerTypeOK, NEW w \in Workers, NEW p \in Holding \cup {"discard", "drop"},
         mine[w] # 0, Goto(w, p)
  PROVE  WorkerTypeOK'
BY DEF WorkerTypeOK, Goto, memory, WorkerPC, Holding

LEMMA SettleType ==
  ASSUME WorkerTypeOK, NEW w \in Workers, NEW p \in {"retry", "done"}, pc[w] # "idle",
         Settle(w, p)
  PROVE  WorkerTypeOK'
BY DEF WorkerTypeOK, Settle, ForgetAttempt, WorkerPC, Holding

LEMMA IdleType ==
  ASSUME WorkerTypeOK, NEW w \in Workers, Idle(w)
  PROVE  WorkerTypeOK'
BY DEF WorkerTypeOK, Idle, ForgetAttempt, WorkerPC, Holding

LEMMA DeliverType ==
  ASSUME WorkerTypeOK, RowTypeOK, NEW w \in Workers, NEW m \in Messages, Deliver(w, m)
  PROVE  WorkerTypeOK'
<1>1. /\ export' = [export EXCEPT ![w] = m[1]] /\ retries' = [retries EXCEPT ![w] = m[2]]
      /\ UNCHANGED <<uploaded, lost>>
      /\ m[1] \in Exports /\ m[2] \in 0..MaxRetries /\ m[1] # NoExport
      /\ pc[w] = "idle" /\ mine[w] = 0
  BY DEF Deliver, Claim, memory, WorkerTypeOK, Holding
<1>2. \/ /\ pc' = [pc EXCEPT ![w] = "cleanup"]
         /\ mine' = [mine EXCEPT ![w] = generation[m[1]] + 1]
         /\ stale' = [stale EXCEPT ![w] = working[m[1]]]
      \/ /\ \E p \in {"done", "busy", "retry"} : pc' = [pc EXCEPT ![w] = p]
         /\ UNCHANGED <<mine, stale>>
  BY DEF Deliver, Claim, memory
<1>3. generation[m[1]] + 1 \in Nat \ {0} /\ working[m[1]] \in Nat
  BY <1>1 DEF RowTypeOK
<1>. QED BY <1>1, <1>2, <1>3 DEF WorkerTypeOK, WorkerPC, Holding

LEMMA WorkerTypes ==
  ASSUME TypeOK, Next
  PROVE  WorkerTypeOK'
<1>. RowTypeOK /\ WorkerTypeOK
  BY DEF TypeOK
<1>1. CASE UNCHANGED workerVars
  BY <1>1 DEF WorkerTypeOK, workerVars, memory
<1>2. ASSUME NEW w \in Workers,
             \/ CleanUp(w) \/ Build(w) \/ Verify(w) \/ Release(w)
             \/ AttemptFails(w) \/ AttemptInvalid(w)
      PROVE  WorkerTypeOK'
  BY <1>2, GotoType
  DEF WorkerTypeOK, CleanUp, Build, Verify, Release, AttemptFails, AttemptInvalid, Holding
<1>3. ASSUME NEW w \in Workers, Heartbeat(w)
      PROVE  WorkerTypeOK'
  <2>1. CASE Goto(w, "release") /\ pc[w] = "build"
    BY <2>1, GotoType DEF WorkerTypeOK, Holding
  <2>2. CASE /\ lost' = [lost EXCEPT ![w] = TRUE]
             /\ UNCHANGED <<pc, export, retries, mine, stale, uploaded>>
    BY <2>2 DEF WorkerTypeOK
  <2>. QED BY <1>1, <1>3, <2>1, <2>2 DEF Heartbeat
<1>4. ASSUME NEW w \in Workers, Upload(w)
      PROVE  WorkerTypeOK'
  BY <1>4 DEF WorkerTypeOK, Upload, WorkerPC, Holding
<1>5. ASSUME NEW w \in Workers, Finish(w)
      PROVE  WorkerTypeOK'
  BY <1>5, GotoType, SettleType DEF WorkerTypeOK, Finish, Holding
<1>6. ASSUME NEW w \in Workers,
             FailInvalid(w) \/ Discard(w) \/ Retry(w) \/ Exhausted(w) \/ WaitForLease(w)
      PROVE  WorkerTypeOK'
  BY <1>6, SettleType DEF FailInvalid, Discard, Retry, Exhausted, WaitForLease
<1>7. ASSUME NEW w \in Workers, HandlerFails(w)
      PROVE  WorkerTypeOK'
  BY <1>7, GotoType, SettleType DEF WorkerTypeOK, HandlerFails, Holding
<1>8. ASSUME NEW w \in Workers, SettleMessage(w) \/ WorkerLost(w) \/ HostCrash(w) \/ HardTimeout(w)
      PROVE  WorkerTypeOK'
  BY <1>8, IdleType DEF SettleMessage, WorkerLost, HostCrash, HardTimeout
<1>9. ASSUME NEW w \in Workers, NEW m \in Messages, Deliver(w, m)
      PROVE  WorkerTypeOK'
  BY <1>9, DeliverType
<1>10. ASSUME NEW r \in Requesters, Requesting(r) \/ RequestCommit(r)
       PROVE  UNCHANGED workerVars
  BY <1>10 DEF Requesting, RequestRead, RequestReadEvent, RequestAbort, RequestCommit
<1>11. ASSUME \/ Publishing \/ \E m \in Messages : WaitOver(m) \/ VisibilityTimeout(m)
              \/ \E e \in Exports : RequestInsert(e) \/ LeaseExpires(e)
       PROVE  UNCHANGED workerVars
  BY <1>11 DEF Publishing, PublishSend, PublishEnd, WaitOver, VisibilityTimeout, RequestInsert,
    LeaseExpires
<1>. QED
  BY <1>1, <1>2, <1>3, <1>4, <1>5, <1>6, <1>7, <1>8, <1>9, <1>10, <1>11
  DEF Next, WorkerStep, Disturbance, RequestEnd, Requesting

(* Events, messages and requests *)

LEMMA QueueType ==
  ASSUME NEW queue \in [Messages -> Nat], NEW m \in Messages
  PROVE  /\ Put(queue, m) \in [Messages -> Nat]
         /\ queue[m] > 0 => Take(queue, m) \in [Messages -> Nat]
BY DEF Put, Take

LEMMA QueueTypes ==
  ASSUME TypeOK, Next
  PROVE  QueueTypeOK'
<1>. WorkerTypeOK /\ QueueTypeOK
  BY DEF TypeOK
<1>1. CASE UNCHANGED <<eventVars, brokerVars, requestVars>>
  BY <1>1 DEF QueueTypeOK, eventVars, brokerVars, requestVars
<1>2. ASSUME NEW e \in Exports, RequestInsert(e)
      PROVE  QueueTypeOK'
  BY <1>2 DEF QueueTypeOK, RequestInsert, brokerVars
<1>3. ASSUME NEW r \in Requesters, Requesting(r) \/ RequestCommit(r)
      PROVE  QueueTypeOK'
  <2>1. CASE RequestRead(r)
    BY <2>1 DEF QueueTypeOK, RequestRead, eventVars, brokerVars
  <2>2. CASE RequestReadEvent(r)
    BY <2>2 DEF QueueTypeOK, RequestReadEvent, eventVars, brokerVars
  <2>3. CASE RequestAbort(r)
    BY <2>3 DEF QueueTypeOK, RequestAbort, Answered, eventVars, brokerVars
  <2>4. CASE RequestCommit(r)
    BY <2>4 DEF QueueTypeOK, RequestCommit, Answered, brokerVars
  <2>. QED BY <1>3, <2>1, <2>2, <2>3, <2>4 DEF Requesting
<1>4. ASSUME NEW p \in Publishers, PublishSend(p)
      PROVE  QueueTypeOK'
  <2>1. PICK e \in Exports : /\ sending' = [sending EXCEPT ![p] = e]
                             /\ ready' = Put(ready, <<e, 0>>)
    BY <1>4 DEF PublishSend
  <2>2. <<e, 0>> \in Messages
    OBVIOUS
  <2>3. ready' \in [Messages -> Nat]
    BY <2>1, <2>2, QueueType DEF QueueTypeOK
  <2>. QED BY <1>4, <2>1, <2>3 DEF QueueTypeOK, PublishSend, requestVars
<1>5. ASSUME NEW p \in Publishers, PublishEnd(p)
      PROVE  QueueTypeOK'
  BY <1>5 DEF QueueTypeOK, PublishEnd, brokerVars, requestVars
<1>6. ASSUME NEW w \in Workers, NEW m \in Messages, Deliver(w, m)
      PROVE  QueueTypeOK'
  BY <1>6, QueueType DEF QueueTypeOK, Deliver, eventVars, requestVars
<1>7. ASSUME NEW w \in Workers, Retry(w) \/ WaitForLease(w)
      PROVE  QueueTypeOK'
  <2>1. export[w] \in Exports
    BY <1>7, BusyWorker DEF Retry, WaitForLease
  <2>. DEFINE m == <<export[w], retries[w] + 1>>
  <2>2. retries[w] < MaxRetries => m \in Messages
    BY <2>1 DEF WorkerTypeOK
  <2>3. CASE Retry(w)
    <3>1. ready' \in [Messages -> Nat]
      <4>1. CASE ready' = Put(ready, m)
        BY <2>2, <2>3, <4>1, QueueType DEF QueueTypeOK, Retry
      <4>. QED BY <2>3, <4>1 DEF QueueTypeOK, Retry
    <3>. QED BY <2>3, <3>1 DEF QueueTypeOK, Retry, eventVars, requestVars
  <2>4. CASE WaitForLease(w)
    <3>1. waiting' \in [Messages -> Nat]
      <4>1. CASE waiting' = Put(waiting, m) /\ retries[w] < MaxRetries
        BY <2>2, <2>4, <4>1, QueueType DEF QueueTypeOK, WaitForLease
      <4>. QED BY <2>4, <4>1 DEF QueueTypeOK, WaitForLease
    <3>. QED BY <2>4, <3>1 DEF QueueTypeOK, WaitForLease, eventVars, requestVars
  <2>. QED BY <1>7, <2>3, <2>4
<1>8. ASSUME NEW w \in Workers, WorkerLost(w) \/ HostCrash(w)
      PROVE  QueueTypeOK'
  <2>1. Message(w) \in Messages
    BY <1>8, BusyWorker DEF WorkerLost, HostCrash
  <2>2. CASE WorkerLost(w)
    BY <2>1, <2>2, QueueType DEF QueueTypeOK, WorkerLost, eventVars, requestVars
  <2>3. CASE HostCrash(w)
    BY <2>1, <2>3, QueueType DEF QueueTypeOK, HostCrash, eventVars, requestVars
  <2>. QED BY <1>8, <2>2, <2>3
<1>9. ASSUME NEW m \in Messages, WaitOver(m) \/ VisibilityTimeout(m)
      PROVE  QueueTypeOK'
  <2>1. CASE WaitOver(m)
    BY <2>1, QueueType DEF QueueTypeOK, WaitOver, Returns, eventVars, requestVars
  <2>2. CASE VisibilityTimeout(m)
    BY <2>2, QueueType DEF QueueTypeOK, VisibilityTimeout, Returns, eventVars, requestVars
  <2>. QED BY <1>9, <2>1, <2>2
<1>10. ASSUME NEW w \in Workers,
              \/ CleanUp(w) \/ Build(w) \/ Upload(w) \/ Verify(w) \/ Finish(w) \/ FailInvalid(w)
              \/ Release(w) \/ Discard(w) \/ Exhausted(w) \/ SettleMessage(w) \/ Heartbeat(w)
              \/ AttemptFails(w) \/ AttemptInvalid(w) \/ HandlerFails(w) \/ HardTimeout(w)
       PROVE  UNCHANGED <<eventVars, brokerVars, requestVars>>
  BY <1>10 DEF CleanUp, Build, Upload, Verify, Finish, FailInvalid, Release, Discard, Exhausted,
    SettleMessage, Heartbeat, AttemptFails, AttemptInvalid, HandlerFails, HardTimeout
<1>11. ASSUME NEW e \in Exports, LeaseExpires(e)
       PROVE  UNCHANGED <<eventVars, brokerVars, requestVars>>
  BY <1>11 DEF LeaseExpires
<1>. QED
  BY <1>1, <1>2, <1>3, <1>4, <1>5, <1>6, <1>7, <1>8, <1>9, <1>10, <1>11
  DEF Next, Publishing, WorkerStep, Disturbance, RequestEnd, Requesting

(* Everything else *)

\* An attempt's archive is stored by its own worker; it is deleted by one that cleans up
\* after an older attempt, or by its own that gives up.
Deletes(w, a) ==
  \/ pc[w] = "cleanup" /\ a = <<export[w], stale[w]>>
  \/ pc[w] \in {"discard", "drop"} /\ a = Mine(w)

LEMMA ObjectSteps ==
  ASSUME TypeOK, Next
  PROVE  /\ objects' \subseteq Attempts
         /\ \A a \in objects \ objects' : \E w \in Workers : mine[w] # 0 /\ Deletes(w, a)
         /\ unsure \subseteq unsure' /\ unsure' \subseteq Attempts
<1>. WorkerTypeOK /\ objects \subseteq Attempts /\ unsure \subseteq Attempts
  BY DEF TypeOK
<1>1. CASE UNCHANGED <<objects, unsure>>
  BY <1>1
<1>2. ASSUME NEW w \in Workers, CleanUp(w)
      PROVE  /\ objects' \subseteq objects /\ UNCHANGED unsure
             /\ \A a \in objects \ objects' : mine[w] # 0 /\ Deletes(w, a)
  BY <1>2 DEF CleanUp, Delete, Deletes, WorkerTypeOK, Holding
<1>3. ASSUME NEW w \in Workers, Discard(w)
      PROVE  /\ objects' \subseteq objects /\ UNCHANGED unsure
             /\ \A a \in objects \ objects' : mine[w] # 0 /\ Deletes(w, a)
  BY <1>3 DEF Discard, Delete, Deletes, WorkerTypeOK
<1>4. ASSUME NEW w \in Workers, Upload(w) \/ Finish(w)
      PROVE  /\ objects \subseteq objects' /\ objects' \subseteq objects \cup {Mine(w)}
             /\ unsure \subseteq unsure' /\ unsure' \subseteq unsure \cup {Mine(w)}
             /\ Mine(w) \in Attempts
  <2>1. Mine(w) \in Attempts
    BY <1>4, BusyWorker DEF Upload, Finish, WorkerTypeOK, Holding
  <2>2. CASE Upload(w)
    BY <2>1, <2>2 DEF Upload
  <2>3. CASE Finish(w)
    BY <2>1, <2>3 DEF Finish
  <2>. QED BY <1>4, <2>1, <2>2, <2>3
<1>5. ASSUME NEW w \in Workers,
             \/ Build(w) \/ Verify(w) \/ FailInvalid(w) \/ Release(w) \/ Retry(w) \/ Exhausted(w)
             \/ WaitForLease(w) \/ SettleMessage(w) \/ Heartbeat(w) \/ Disturbance(w)
      PROVE  UNCHANGED <<objects, unsure>>
  BY <1>5 DEF Build, Verify, FailInvalid, Release, Retry, Exhausted, WaitForLease, SettleMessage,
    Heartbeat, Disturbance, AttemptFails, AttemptInvalid, HandlerFails, WorkerLost, HostCrash,
    HardTimeout
<1>6. ASSUME NEW r \in Requesters, Requesting(r) \/ RequestCommit(r)
      PROVE  UNCHANGED <<objects, unsure>>
  BY <1>6 DEF Requesting, RequestRead, RequestReadEvent, RequestAbort, RequestCommit
<1>7. ASSUME \/ Publishing \/ \E m \in Messages : WaitOver(m) \/ VisibilityTimeout(m)
             \/ \E e \in Exports : RequestInsert(e) \/ LeaseExpires(e)
             \/ \E w \in Workers, m \in Messages : Deliver(w, m)
      PROVE  UNCHANGED <<objects, unsure>>
  BY <1>7 DEF Publishing, PublishSend, PublishEnd, WaitOver, VisibilityTimeout, RequestInsert,
    LeaseExpires, Deliver
<1>. QED
  BY <1>1, <1>2, <1>3, <1>4, <1>5, <1>6, <1>7 DEF Next, WorkerStep, RequestEnd, Requesting

LEMMA OtherTypes ==
  ASSUME TypeOK, Next
  PROVE  dropped' \in [Exports -> BOOLEAN] /\ budget' \in Nat
<1>. dropped \in [Exports -> BOOLEAN] /\ budget \in Nat
  BY DEF TypeOK
<1>1. ASSUME NEW w \in Workers,
             \/ CleanUp(w) \/ Build(w) \/ Upload(w) \/ Verify(w) \/ Finish(w) \/ FailInvalid(w)
             \/ Release(w) \/ Discard(w) \/ SettleMessage(w) \/ Heartbeat(w)
             \/ AttemptFails(w) \/ AttemptInvalid(w) \/ WorkerLost(w) \/ HostCrash(w)
      PROVE  UNCHANGED dropped /\ (Calm \/ \E f \in FaultKinds : Spend(f))
  BY <1>1 DEF CleanUp, Build, Upload, Verify, Finish, FailInvalid, Release, Discard, SettleMessage,
    Heartbeat, AttemptFails, AttemptInvalid, WorkerLost, HostCrash, Delete, FaultKinds
<1>2. ASSUME NEW w \in Workers,
             Retry(w) \/ Exhausted(w) \/ WaitForLease(w) \/ HandlerFails(w) \/ HardTimeout(w)
      PROVE  (UNCHANGED dropped \/ Drop(w)) /\ (Calm \/ \E f \in FaultKinds : Spend(f))
  BY <1>2 DEF Retry, Exhausted, WaitForLease, HandlerFails, HardTimeout, FaultKinds
<1>3. ASSUME NEW w \in Workers, NEW m \in Messages, Deliver(w, m)
      PROVE  UNCHANGED dropped /\ (Calm \/ \E f \in FaultKinds : Spend(f))
  BY <1>3 DEF Deliver, FaultKinds
<1>4. ASSUME NEW r \in Requesters, Requesting(r)
      PROVE  UNCHANGED dropped /\ Calm
  BY <1>4 DEF Requesting, RequestRead, RequestReadEvent, RequestAbort
<1>5. ASSUME NEW r \in Requesters, RequestCommit(r)
      PROVE  /\ dropped' \in [Exports -> BOOLEAN]
             /\ Calm \/ \E f \in FaultKinds : Spend(f)
  BY <1>5 DEF RequestCommit, FaultKinds
<1>6. ASSUME \/ Publishing \/ \E m \in Messages : WaitOver(m) \/ VisibilityTimeout(m)
             \/ \E e \in Exports : RequestInsert(e) \/ LeaseExpires(e)
      PROVE  UNCHANGED dropped /\ (Calm \/ \E f \in FaultKinds : Spend(f))
  BY <1>6 DEF Publishing, PublishSend, PublishEnd, WaitOver, VisibilityTimeout, Returns,
    RequestInsert, LeaseExpires, FaultKinds
<1>7. dropped' \in [Exports -> BOOLEAN]
  BY <1>1, <1>2, <1>3, <1>4, <1>5, <1>6
  DEF Next, WorkerStep, Disturbance, RequestEnd, Requesting, Drop
<1>8. Calm \/ \E f \in FaultKinds : Spend(f)
  BY <1>1, <1>2, <1>3, <1>4, <1>5, <1>6 DEF Next, WorkerStep, Disturbance, RequestEnd, Requesting
<1>. QED BY <1>7, <1>8, BudgetType

LEMMA InitTypes == Init => TypeOK
BY DEF Init, TypeOK, RowTypeOK, QueueTypeOK, WorkerTypeOK, Status, WorkerPC, Holding

LEMMA NextTypes ==
  ASSUME TypeOK, [Next]_exportVars
  PROVE  TypeOK'
<1>1. CASE Next
  BY <1>1, RowTypes, WorkerTypes, QueueTypes, ObjectSteps, OtherTypes DEF TypeOK
<1>2. CASE UNCHANGED exportVars
  BY <1>2 DEF TypeOK, RowTypeOK, QueueTypeOK, WorkerTypeOK, exportVars, rowVars, eventVars,
    brokerVars, requestVars, workerVars, memory
<1>. QED BY <1>1, <1>2

\* Whatever races and fails, a row has a lease and a token together and only while it is
\* PREPARING, and a worker knows its export and its attempt.
THEOREM SpecTypeOK == Spec => []TypeOK
BY InitTypes, NextTypes, PTL DEF Spec

-----------------------------------------------------------------------------
(* What a step does to a row *)

Kept(e) ==
  /\ status'[e] = status[e] /\ code'[e] = code[e] /\ artifact'[e] = artifact[e]
  /\ token'[e] = token[e] /\ generation'[e] = generation[e]

SameAttempt(e) ==
  token'[e] = token[e] /\ generation'[e] = generation[e] /\ artifact'[e] = artifact[e]

Inserted(e) ==
  /\ RequestInsert(e)
  /\ status[e] = "ABSENT" /\ status'[e] = "PREPARING" /\ SameAttempt(e)

Restarted(e, r) ==
  /\ RequestCommit(r)
  /\ wanted[r] = e /\ rpc[r] \in {"reset", "keep"} /\ rpc'[r] = "idle"
  /\ status'[e] = "PREPARING" /\ SameAttempt(e)

Claimed(e, w) ==
  /\ \E m \in Messages : m[1] = e /\ Deliver(w, m)
  /\ mine[w] = 0 /\ export'[w] = e /\ pc'[w] = "cleanup"
  /\ status[e] = "PREPARING" /\ status'[e] = "PREPARING" /\ lease[e] # "live"
  /\ generation'[e] = generation[e] + 1
  /\ token'[e] = generation'[e] /\ mine'[w] = generation'[e] /\ stale'[w] = working[e]

EndedByOwner(e, w) ==
  /\ export[w] = e /\ Owns(w) /\ mine[w] # 0
  /\ token'[e] = 0 /\ generation'[e] = generation[e]
  /\ \/ /\ Finish(w) /\ pc[w] = "finish"
        /\ status'[e] = "READY" /\ artifact'[e] = mine[w]
        /\ \/ mine'[w] = 0 /\ pc'[w] = "done"
           \/ Mine(w) \in unsure' /\ pc'[w] = "release"
     \/ /\ FailInvalid(w) /\ pc[w] = "invalid" /\ pc'[w] = "done"
        /\ status'[e] = "FAILED" /\ artifact'[e] = artifact[e]
     \/ /\ Release(w) /\ pc[w] = "release" /\ pc'[w] = "discard"
        /\ status'[e] = "PREPARING" /\ artifact'[e] = artifact[e]

GivenUp(e, w) ==
  /\ Exhausted(w) /\ export[w] = e
  /\ Unleased(e) /\ status'[e] = "FAILED" /\ artifact'[e] = artifact[e]
  /\ token'[e] = 0 /\ generation'[e] = generation[e]

RowChange(e) ==
  \/ Kept(e)
  \/ Inserted(e)
  \/ \E r \in Requesters : Restarted(e, r)
  \/ \E w \in Workers : Claimed(e, w)
  \/ \E w \in Workers : EndedByOwner(e, w)
  \/ \E w \in Workers : GivenUp(e, w)

LEMMA RowChanges ==
  ASSUME TypeOK, Next, NEW e \in Exports
  PROVE  RowChange(e)
<1>. RowTypeOK /\ WorkerTypeOK
  BY DEF TypeOK
<1>1. CASE UNCHANGED rowVars
  BY <1>1 DEF RowChange, Kept, rowVars
<1>2. ASSUME NEW f \in Exports, RequestInsert(f)
      PROVE  RowChange(e)
  BY <1>2 DEF RowTypeOK, RequestInsert, RowChange, Kept, Inserted, SameAttempt
<1>3. ASSUME NEW r \in Requesters, RequestCommit(r)
      PROVE  RowChange(e)
  <2>1. rpc'[r] = "idle"
    BY <1>3 DEF RequestCommit, Answered, TypeOK, QueueTypeOK
  <2>2. CASE wanted[r] = e
    <3>1. Restarted(e, r)
      BY <1>3, <2>1, <2>2 DEF RowTypeOK, RequestCommit, Restarted, SameAttempt
    <3>. QED BY <3>1 DEF RowChange
  <2>3. CASE wanted[r] # e
    BY <1>3, <2>3 DEF RowTypeOK, RequestCommit, RowChange, Kept
  <2>. QED BY <2>2, <2>3
<1>4. ASSUME NEW w \in Workers, NEW m \in Messages, Deliver(w, m), ~UNCHANGED rowVars
      PROVE  RowChange(e)
  <2>1. /\ status[m[1]] = "PREPARING" /\ lease[m[1]] # "live"
        /\ generation' = [generation EXCEPT ![m[1]] = @ + 1]
        /\ token' = [token EXCEPT ![m[1]] = generation[m[1]] + 1]
        /\ mine' = [mine EXCEPT ![w] = generation[m[1]] + 1]
        /\ stale' = [stale EXCEPT ![w] = working[m[1]]]
        /\ pc' = [pc EXCEPT ![w] = "cleanup"]
        /\ export' = [export EXCEPT ![w] = m[1]]
        /\ UNCHANGED <<status, code, artifact>>
    BY <1>4 DEF Deliver, Claim, Busy
  <2>2. CASE m[1] = e
    <3>1. mine[w] = 0
      BY <1>4 DEF WorkerTypeOK, Deliver, Holding
    <3>2. Claimed(e, w)
      BY <1>4, <2>1, <2>2, <3>1 DEF RowTypeOK, WorkerTypeOK, Claimed
    <3>. QED BY <3>2 DEF RowChange
  <2>3. CASE m[1] # e
    BY <2>1, <2>3 DEF RowTypeOK, RowChange, Kept
  <2>. QED BY <2>2, <2>3
<1>5. ASSUME NEW w \in Workers, Build(w) \/ Heartbeat(w)
      PROVE  RowChange(e)
  BY <1>5 DEF Build, Heartbeat, SetLease, RowChange, Kept, rowVars
<1>6. ASSUME NEW w \in Workers, Finish(w) \/ FailInvalid(w) \/ Release(w), ~UNCHANGED rowVars
      PROVE  RowChange(e)
  <2>1. /\ Owns(w) /\ mine[w] # 0 /\ export[w] \in Exports /\ pc[w] # "idle"
    BY <1>6, BusyWorker DEF Finish, FailInvalid, MarkInvalid, Release, WorkerTypeOK, Holding
  <2>2. CASE export[w] # e
    BY <1>6, <2>1, <2>2 DEF RowTypeOK, Finish, FailInvalid, MarkInvalid, Release, ReadyRow, FailRow,
      ReleaseRow, Unlease, RowChange, Kept, rowVars
  <2>3. CASE export[w] = e /\ Finish(w)
    <3>1. ReadyRow(e, mine[w]) /\ pc[w] = "finish"
      BY <1>6, <2>3 DEF Finish
    <3>2. (Settle(w, "done")) \/ (Goto(w, "release") /\ Mine(w) \in unsure')
      BY <1>6, <2>3 DEF Finish
    <3>3. EndedByOwner(e, w)
      BY <2>1, <2>3, <3>1, <3>2 DEF RowTypeOK, WorkerTypeOK, ReadyRow, Unlease, Settle,
        ForgetAttempt, Goto, EndedByOwner
    <3>. QED BY <3>3 DEF RowChange
  <2>4. CASE export[w] = e /\ FailInvalid(w)
    <3>1. EndedByOwner(e, w)
      BY <2>1, <2>4 DEF RowTypeOK, WorkerTypeOK, FailInvalid, MarkInvalid, FailRow, Unlease, Settle,
        EndedByOwner
    <3>. QED BY <3>1 DEF RowChange
  <2>5. CASE export[w] = e /\ Release(w)
    <3>1. EndedByOwner(e, w)
      BY <2>1, <2>5 DEF RowTypeOK, WorkerTypeOK, Release, ReleaseRow, Unlease, Goto, Owns,
        EndedByOwner
    <3>. QED BY <3>1 DEF RowChange
  <2>. QED BY <1>6, <2>2, <2>3, <2>4, <2>5
<1>7. ASSUME NEW w \in Workers, Exhausted(w), ~UNCHANGED rowVars
      PROVE  RowChange(e)
  <2>1. Unleased(export[w]) /\ FailRow(export[w], "EXPORT_RETRY_EXHAUSTED")
    BY <1>7 DEF Exhausted
  <2>2. CASE export[w] = e
    <3>1. GivenUp(e, w)
      BY <1>7, <2>1, <2>2 DEF RowTypeOK, FailRow, Unlease, GivenUp
    <3>. QED BY <3>1 DEF RowChange
  <2>3. CASE export[w] # e
    BY <2>1, <2>3 DEF RowTypeOK, FailRow, Unlease, RowChange, Kept
  <2>. QED BY <2>2, <2>3
<1>8. ASSUME NEW f \in Exports, LeaseExpires(f)
      PROVE  RowChange(e)
  BY <1>8 DEF LeaseExpires, SetLease, RowChange, Kept
<1>9. ASSUME NEW w \in Workers,
             \/ CleanUp(w) \/ Upload(w) \/ Verify(w) \/ Discard(w)
             \/ Retry(w) \/ WaitForLease(w) \/ SettleMessage(w) \/ Disturbance(w)
      PROVE  UNCHANGED rowVars
  BY <1>9 DEF CleanUp, Upload, Verify, Discard, Retry, WaitForLease, SettleMessage, Disturbance,
    AttemptFails, AttemptInvalid, HandlerFails, WorkerLost, HostCrash, HardTimeout
<1>10. ASSUME NEW r \in Requesters, Requesting(r)
       PROVE  UNCHANGED rowVars
  BY <1>10 DEF Requesting, RequestRead, RequestReadEvent, RequestAbort
<1>11. ASSUME Publishing \/ \E m \in Messages : WaitOver(m) \/ VisibilityTimeout(m)
       PROVE  UNCHANGED rowVars
  BY <1>11 DEF Publishing, PublishSend, PublishEnd, WaitOver, VisibilityTimeout
<1>. QED
  BY <1>1, <1>2, <1>3, <1>4, <1>5, <1>6, <1>7, <1>8, <1>9, <1>10, <1>11
  DEF Next, WorkerStep, RequestEnd, Requesting

\* A worker keeps its attempt, has none afterwards, or draws the next one of its export,
\* which nobody else does then.
LEMMA AttemptSteps ==
  ASSUME TypeOK, Next, NEW w \in Workers, mine'[w] # 0
  PROVE  \/ mine'[w] = mine[w] /\ export'[w] = export[w] /\ stale'[w] = stale[w]
         \/ /\ export'[w] \in Exports /\ Claimed(export'[w], w)
            /\ \A v \in Workers \ {w} : mine'[v] = mine[v] /\ export'[v] = export[v]
<1>. RowTypeOK /\ WorkerTypeOK
  BY DEF TypeOK
<1>1. CASE UNCHANGED workerVars
  BY <1>1 DEF workerVars, memory
<1>2. ASSUME NEW v \in Workers,
             \/ CleanUp(v) \/ Build(v) \/ Verify(v) \/ Release(v) \/ Upload(v) \/ Heartbeat(v)
             \/ AttemptFails(v) \/ AttemptInvalid(v)
      PROVE  UNCHANGED <<mine, export, stale>>
  BY <1>2 DEF CleanUp, Build, Verify, Release, Upload, Heartbeat, AttemptFails, AttemptInvalid,
    Goto, memory, workerVars
<1>3. ASSUME NEW v \in Workers, NEW p \in WorkerPC, Settle(v, p) \/ Idle(v)
      PROVE  mine'[w] = mine[w] /\ export'[w] = export[w] /\ stale'[w] = stale[w]
  BY <1>3 DEF Settle, Idle, ForgetAttempt, WorkerTypeOK
<1>4. ASSUME NEW v \in Workers,
             \/ Finish(v) \/ FailInvalid(v) \/ Discard(v) \/ Retry(v) \/ Exhausted(v)
             \/ WaitForLease(v) \/ SettleMessage(v)
             \/ HandlerFails(v) \/ WorkerLost(v) \/ HostCrash(v) \/ HardTimeout(v)
      PROVE  \/ UNCHANGED <<mine, export, stale>>
             \/ \E p \in WorkerPC : Settle(v, p) \/ Idle(v)
  BY <1>4 DEF Finish, FailInvalid, Discard, Retry, Exhausted, WaitForLease, SettleMessage,
    HandlerFails, WorkerLost, HostCrash, HardTimeout, Goto, memory, WorkerPC
<1>5. ASSUME NEW v \in Workers, NEW m \in Messages, Deliver(v, m)
      PROVE  \/ mine'[w] = mine[w] /\ export'[w] = export[w] /\ stale'[w] = stale[w]
             \/ /\ export'[w] \in Exports /\ Claimed(export'[w], w)
                /\ \A u \in Workers \ {w} : mine'[u] = mine[u] /\ export'[u] = export[u]
  <2>1. pc[v] = "idle" /\ mine[v] = 0 /\ m[1] \in Exports
    BY <1>5 DEF Deliver, WorkerTypeOK, Holding
  <2>2. export' = [export EXCEPT ![v] = m[1]]
    BY <1>5 DEF Deliver
  <2>3. CASE UNCHANGED <<mine, stale>>
    BY <2>1, <2>2, <2>3 DEF WorkerTypeOK
  <2>4. CASE ~UNCHANGED <<mine, stale>>
    <3>1. /\ status[m[1]] = "PREPARING" /\ lease[m[1]] # "live"
          /\ generation' = [generation EXCEPT ![m[1]] = @ + 1]
          /\ token' = [token EXCEPT ![m[1]] = generation[m[1]] + 1]
          /\ mine' = [mine EXCEPT ![v] = generation[m[1]] + 1]
          /\ stale' = [stale EXCEPT ![v] = working[m[1]]]
          /\ pc' = [pc EXCEPT ![v] = "cleanup"]
          /\ UNCHANGED <<status, code, artifact>>
      BY <1>5, <2>4 DEF Deliver, Claim, Busy, memory
    <3>2. CASE v = w
      <4>1. Claimed(m[1], w) /\ export'[w] = m[1]
        BY <1>5, <2>1, <2>2, <3>1, <3>2 DEF Claimed, RowTypeOK, WorkerTypeOK
      <4>. QED BY <2>1, <2>2, <3>1, <3>2, <4>1 DEF WorkerTypeOK
    <3>3. CASE v # w
      BY <2>2, <3>1, <3>3 DEF WorkerTypeOK
    <3>. QED BY <3>2, <3>3
  <2>. QED BY <2>3, <2>4
<1>6. ASSUME NEW r \in Requesters, Requesting(r) \/ RequestCommit(r)
      PROVE  UNCHANGED workerVars
  BY <1>6 DEF Requesting, RequestRead, RequestReadEvent, RequestAbort, RequestCommit
<1>7. ASSUME \/ Publishing \/ \E m \in Messages : WaitOver(m) \/ VisibilityTimeout(m)
             \/ \E e \in Exports : RequestInsert(e) \/ LeaseExpires(e)
      PROVE  UNCHANGED workerVars
  BY <1>7 DEF Publishing, PublishSend, PublishEnd, WaitOver, VisibilityTimeout, RequestInsert,
    LeaseExpires
<1>. QED
  BY <1>1, <1>2, <1>3, <1>4, <1>5, <1>6, <1>7
  DEF Next, WorkerStep, Disturbance, RequestEnd, Requesting

-----------------------------------------------------------------------------
(* The safety of attempts *)

LEMMA GenerationsGrow ==
  ASSUME RowTypeOK, NEW e \in Exports, RowChange(e)
  PROVE  generation'[e] \in Nat /\ generation'[e] >= generation[e]
BY DEF RowTypeOK, RowChange, Kept, Inserted, Restarted, SameAttempt, Claimed, EndedByOwner, GivenUp

LEMMA HolderExport ==
  ASSUME WorkerTypeOK, NEW w \in Workers, mine[w] # 0
  PROVE  export[w] \in Exports /\ mine[w] \in Nat \ {0} /\ stale[w] \in Nat
BY DEF WorkerTypeOK, Holding

LEMMA HolderStep ==
  ASSUME TypeOK, HolderInv, Next
  PROVE  HolderInv'
<1>. RowTypeOK /\ WorkerTypeOK
  BY DEF TypeOK
<1>. SUFFICES ASSUME NEW w \in Workers, mine'[w] # 0
              PROVE  /\ mine'[w] <= generation'[export'[w]] /\ stale'[w] < mine'[w]
                     /\ \A v \in Workers :
                          export'[v] = export'[w] /\ mine'[v] = mine'[w] => v = w
  BY DEF HolderInv
<1>1. CASE mine'[w] = mine[w] /\ export'[w] = export[w] /\ stale'[w] = stale[w]
  <2>1. export[w] \in Exports /\ mine[w] \in Nat
    BY <1>1, HolderExport
  <2>2. generation'[export[w]] >= generation[export[w]] /\ generation'[export[w]] \in Nat
    BY <2>1, RowChanges, GenerationsGrow
  <2>3. mine[w] <= generation[export[w]] /\ stale[w] < mine[w]
    BY <1>1 DEF HolderInv
  <2>4. ASSUME NEW v \in Workers, export'[v] = export'[w], mine'[v] = mine'[w]
        PROVE  v = w
    <3>1. CASE mine'[v] = mine[v] /\ export'[v] = export[v]
      BY <1>1, <2>4, <3>1 DEF HolderInv
    <3>2. CASE Claimed(export'[v], v)
      BY <1>1, <2>1, <2>3, <2>4, <3>2 DEF Claimed, RowTypeOK
    <3>. QED BY <2>4, <3>1, <3>2, AttemptSteps
  <2>. QED BY <1>1, <2>1, <2>2, <2>3, <2>4 DEF RowTypeOK
<1>2. CASE /\ export'[w] \in Exports /\ Claimed(export'[w], w)
           /\ \A v \in Workers \ {w} : mine'[v] = mine[v] /\ export'[v] = export[v]
  <2>. DEFINE e == export'[w]
  <2>1. /\ mine'[w] = generation[e] + 1 /\ generation'[e] = generation[e] + 1
        /\ stale'[w] = working[e] /\ working[e] <= generation[e] /\ generation[e] \in Nat
        /\ working[e] \in Nat
    BY <1>2 DEF Claimed, RowTypeOK
  <2>2. ASSUME NEW v \in Workers, export'[v] = e, mine'[v] = mine'[w], v # w
        PROVE  FALSE
    BY <1>2, <2>1, <2>2 DEF HolderInv
  <2>. QED BY <2>1, <2>2
<1>. QED BY <1>1, <1>2, AttemptSteps

LEMMA PublishedStep ==
  ASSUME TypeOK, HolderInv, PublishedInv, Next
  PROVE  PublishedInv'
<1>. RowTypeOK /\ WorkerTypeOK
  BY DEF TypeOK
<1>1. ASSUME NEW e \in Exports, status'[e] = "READY"
      PROVE  artifact'[e] = generation'[e]
  BY <1>1, RowChanges DEF RowChange, Kept, Inserted, Restarted, Claimed, EndedByOwner, GivenUp,
    Owns, PublishedInv
<1>2. ASSUME NEW w \in Workers, mine'[w] # 0, status'[export'[w]] = "READY",
             artifact'[export'[w]] = mine'[w]
      PROVE  (Mine(w) \in unsure)'
  <2>1. CASE mine'[w] = mine[w] /\ export'[w] = export[w]
    <3>. DEFINE e == export[w]
    <3>1. e \in Exports /\ mine[w] # 0
      BY <1>2, <2>1, HolderExport
    <3>2. CASE status[e] = "READY" /\ artifact[e] = mine[w]
      BY <2>1, <3>1, <3>2, ObjectSteps DEF PublishedInv, Mine
    <3>3. CASE ~(status[e] = "READY" /\ artifact[e] = mine[w])
      <4>1. PICK v \in Workers : EndedByOwner(e, v) /\ status'[e] = "READY"
        BY <1>2, <2>1, <3>1, <3>3, RowChanges DEF RowChange, Kept, Inserted, Restarted, Claimed,
          GivenUp
      <4>2. v = w
        BY <1>2, <2>1, <3>1, <4>1 DEF EndedByOwner, HolderInv
      <4>. QED BY <1>2, <2>1, <4>1, <4>2 DEF EndedByOwner, Mine
    <3>. QED BY <3>2, <3>3
  <2>2. CASE export'[w] \in Exports /\ Claimed(export'[w], w)
    BY <1>2, <2>2 DEF Claimed
  <2>. QED BY <1>2, <2>1, <2>2, AttemptSteps
<1>. QED BY <1>1, <1>2 DEF PublishedInv

\* A published archive is deleted only by the attempt that has lost its answer.
LEMMA ReadyStep ==
  ASSUME TypeOK, HolderInv, PublishedInv, FinishInv, ReadyHasArtifact, Next
  PROVE  ReadyHasArtifact'
<1>. RowTypeOK /\ WorkerTypeOK
  BY DEF TypeOK
<1>. SUFFICES ASSUME NEW e \in Exports, status'[e] = "READY"
              PROVE  <<e, artifact'[e]>> \in objects' \cup unsure'
  BY DEF ReadyHasArtifact
<1>. DEFINE a == <<e, artifact'[e]>>
<1>1. a \in objects \cup unsure
  <2>1. CASE Kept(e)
    BY <2>1 DEF Kept, ReadyHasArtifact
  <2>2. ASSUME NEW w \in Workers, EndedByOwner(e, w)
        PROVE  a \in objects
    BY <2>2 DEF EndedByOwner, FinishInv, Mine
  <2>. QED BY <2>1, <2>2, RowChanges DEF RowChange, Inserted, Restarted, Claimed, GivenUp
<1>2. ASSUME NEW w \in Workers, mine[w] # 0, Deletes(w, a)
      PROVE  a \in unsure
  <2>1. export[w] = e /\ mine[w] <= generation[e] /\ stale[w] < mine[w]
    BY <1>2 DEF Deletes, Mine, HolderInv
  <2>2. mine[w] \in Nat /\ stale[w] \in Nat /\ generation[e] \in Nat
    BY DEF WorkerTypeOK, RowTypeOK
  <2>3. CASE Kept(e)
    <3>1. status[e] = "READY" /\ artifact'[e] = generation[e] /\ artifact'[e] = artifact[e]
      BY <2>3 DEF Kept, PublishedInv
    <3>2. a = Mine(w)
      BY <1>2, <2>1, <2>2, <3>1 DEF Deletes
    <3>. QED BY <1>2, <2>1, <3>1, <3>2 DEF PublishedInv, Mine
  <2>4. ASSUME NEW v \in Workers, EndedByOwner(e, v)
        PROVE  FALSE
    <3>1. /\ artifact'[e] = mine[v] /\ mine[v] = generation[e] /\ pc[v] = "finish"
          /\ export[v] = e /\ mine[v] # 0
      BY <2>4 DEF EndedByOwner, Owns
    <3>2. CASE pc[w] = "cleanup" /\ a = <<export[w], stale[w]>>
      BY <2>1, <2>2, <3>1, <3>2
    <3>3. CASE pc[w] \in {"discard", "drop"} /\ a = Mine(w)
      BY <2>1, <3>1, <3>3 DEF Mine, HolderInv
    <3>. QED BY <1>2, <3>2, <3>3 DEF Deletes
  <2>. QED BY <2>3, <2>4, RowChanges DEF RowChange, Inserted, Restarted, Claimed, GivenUp
<1>. QED BY <1>1, <1>2, ObjectSteps

\* Only a worker's own steps change what it does and remembers.
LEMMA OwnSteps ==
  ASSUME TypeOK, Next, NEW w \in Workers
  PROVE  \/ /\ pc'[w] = pc[w] /\ export'[w] = export[w] /\ retries'[w] = retries[w]
            /\ mine'[w] = mine[w]
         \/ \E m \in Messages : Deliver(w, m)
         \/ WorkerStep(w) \/ Heartbeat(w) \/ Disturbance(w)
<1>. WorkerTypeOK
  BY DEF TypeOK
<1>1. CASE UNCHANGED workerVars
  BY <1>1 DEF workerVars, memory
<1>2. ASSUME NEW v \in Workers, v # w, NEW p \in WorkerPC, Goto(v, p) \/ Settle(v, p) \/ Idle(v)
      PROVE  /\ pc'[w] = pc[w] /\ export'[w] = export[w] /\ retries'[w] = retries[w]
             /\ mine'[w] = mine[w]
  BY <1>2 DEF Goto, Settle, Idle, ForgetAttempt, memory, WorkerTypeOK
<1>3. ASSUME NEW v \in Workers, v # w, WorkerStep(v) \/ Heartbeat(v) \/ Disturbance(v)
      PROVE  /\ pc'[w] = pc[w] /\ export'[w] = export[w] /\ retries'[w] = retries[w]
             /\ mine'[w] = mine[w]
  <2>1. CASE Upload(v) \/ Heartbeat(v)
    BY <1>3, <2>1 DEF Upload, Heartbeat, Goto, workerVars, memory, WorkerTypeOK
  <2>2. CASE ~Upload(v) /\ ~Heartbeat(v)
    <3>1. \E p \in WorkerPC : Goto(v, p) \/ Settle(v, p) \/ Idle(v)
      BY <1>3, <2>2 DEF WorkerStep, Disturbance, CleanUp, Build, Verify, Finish, FailInvalid,
        Release, Discard, Retry, Exhausted, WaitForLease, SettleMessage, AttemptFails,
        AttemptInvalid, HandlerFails, WorkerLost, HostCrash, HardTimeout, WorkerPC, Holding
    <3>. QED BY <1>2, <1>3, <3>1
  <2>. QED BY <2>1, <2>2
<1>4. ASSUME NEW v \in Workers, v # w, NEW m \in Messages, Deliver(v, m)
      PROVE  /\ pc'[w] = pc[w] /\ export'[w] = export[w] /\ retries'[w] = retries[w]
             /\ mine'[w] = mine[w]
  BY <1>4 DEF Deliver, Claim, memory, WorkerTypeOK
<1>5. ASSUME NEW r \in Requesters, Requesting(r) \/ RequestCommit(r)
      PROVE  UNCHANGED workerVars
  BY <1>5 DEF Requesting, RequestRead, RequestReadEvent, RequestAbort, RequestCommit
<1>6. ASSUME \/ Publishing \/ \E m \in Messages : WaitOver(m) \/ VisibilityTimeout(m)
             \/ \E e \in Exports : RequestInsert(e) \/ LeaseExpires(e)
      PROVE  UNCHANGED workerVars
  BY <1>6 DEF Publishing, PublishSend, PublishEnd, WaitOver, VisibilityTimeout, RequestInsert,
    LeaseExpires
<1>. QED BY <1>1, <1>3, <1>4, <1>5, <1>6 DEF Next, RequestEnd, Requesting

LEMMA FinishIsVerified ==
  ASSUME TypeOK, Next, NEW w \in Workers, pc'[w] = "finish"
  PROVE  pc[w] = "finish" \/ (pc[w] = "verify" /\ Mine(w) \in objects)
<1>. WorkerTypeOK
  BY DEF TypeOK
<1>1. ASSUME NEW m \in Messages, Deliver(w, m)
      PROVE  FALSE
  BY <1>1 DEF Deliver, Claim, WorkerTypeOK
<1>2. ASSUME Verify(w) \/ Heartbeat(w)
      PROVE  pc[w] = "finish" \/ (pc[w] = "verify" /\ Mine(w) \in objects)
  BY <1>2 DEF Verify, Heartbeat, Goto, workerVars, WorkerTypeOK
<1>3. ASSUME \/ CleanUp(w) \/ Build(w) \/ Upload(w) \/ Finish(w) \/ FailInvalid(w) \/ Release(w)
             \/ Discard(w) \/ Retry(w) \/ Exhausted(w) \/ WaitForLease(w) \/ SettleMessage(w)
             \/ Disturbance(w)
      PROVE  FALSE
  BY <1>3 DEF CleanUp, Build, Upload, Finish, FailInvalid, Release, Discard, Retry, Exhausted,
    WaitForLease, SettleMessage, Disturbance, AttemptFails, AttemptInvalid, HandlerFails,
    WorkerLost, HostCrash, HardTimeout, Goto, Settle, Idle, WorkerTypeOK
<1>. QED BY <1>1, <1>2, <1>3, OwnSteps DEF WorkerStep

\* What is about to be published was there when it was verified, and nobody deletes it.
LEMMA FinishStep ==
  ASSUME TypeOK, HolderInv, FinishInv, Next
  PROVE  FinishInv'
<1>. RowTypeOK /\ WorkerTypeOK
  BY DEF TypeOK
<1>. SUFFICES ASSUME NEW w \in Workers, pc'[w] = "finish", Owns(w)'
              PROVE  Mine(w)' \in objects'
  BY DEF FinishInv
<1>1. mine'[w] # 0
  BY WorkerTypes DEF WorkerTypeOK, Holding
<1>2. mine'[w] = mine[w] /\ export'[w] = export[w] /\ export[w] \in Exports
  BY <1>1, AttemptSteps, HolderExport DEF Claimed
<1>. DEFINE e == export[w]
<1>3. Owns(w)
  <2>1. token'[e] = mine[w] /\ generation'[e] = mine[w] /\ mine[w] <= generation[e]
        /\ mine[w] \in Nat /\ generation[e] \in Nat
    BY <1>1, <1>2 DEF Owns, HolderInv, WorkerTypeOK, RowTypeOK
  <2>2. token[e] = mine[w] /\ generation[e] = mine[w]
    BY <1>1, <1>2, <2>1, RowChanges DEF RowChange, Kept, Inserted, Restarted, SameAttempt, Claimed,
      EndedByOwner, GivenUp
  <2>. QED BY <1>1, <1>2, <2>2 DEF Owns, RowTypeOK
<1>4. Mine(w) \in objects /\ pc[w] \in {"finish", "verify"}
  BY <1>3, FinishIsVerified DEF FinishInv
<1>5. ASSUME NEW v \in Workers, mine[v] # 0, Deletes(v, Mine(w))
      PROVE  FALSE
  BY <1>1, <1>2, <1>3, <1>4, <1>5 DEF Deletes, Mine, HolderInv, Owns, WorkerTypeOK, RowTypeOK
<1>. QED BY <1>2, <1>4, <1>5, ObjectSteps DEF Mine

-----------------------------------------------------------------------------
(* An export is always carried *)

LEMMA EventStep ==
  ASSUME TypeOK, EventInv, Next
  PROVE  EventInv'
<1>. RowTypeOK /\ QueueTypeOK
  BY DEF TypeOK
<1>1. \A e \in Exports : status[e] # "ABSENT" => status'[e] # "ABSENT"
  BY RowChanges DEF RowChange, Kept, Inserted, Restarted, Claimed, EndedByOwner, GivenUp
<1>2. \A e \in Exports : status[e] = "ABSENT" /\ status'[e] # "ABSENT" =>
                           Inserted(e) \/ \E r \in Requesters : Restarted(e, r)
  BY RowChanges DEF RowChange, Kept, Claimed, EndedByOwner, GivenUp, Owns, Unleased
<1>3. CASE UNCHANGED <<eventVars, rpc, wanted>>
  <2>1. ASSUME NEW e \in Exports, status[e] = "ABSENT", status'[e] # "ABSENT"
        PROVE  FALSE
    BY <1>2, <1>3, <2>1 DEF Inserted, Restarted, RequestInsert, EventInv, QueueTypeOK, eventVars
  <2>. QED BY <1>1, <1>3, <2>1 DEF EventInv, QueueTypeOK, eventVars
<1>4. ASSUME NEW e \in Exports, RequestInsert(e)
      PROVE  EventInv'
  BY <1>4 DEF EventInv, RequestInsert, RowTypeOK, QueueTypeOK
<1>5. ASSUME NEW r \in Requesters, RequestCommit(r)
      PROVE  EventInv'
  <2>. DEFINE e == wanted[r]
  <2>1. e \in Exports /\ status[e] # "ABSENT" /\ event[e] # "none"
    BY <1>5 DEF RequestCommit, QueueTypeOK, EventInv
  <2>2. /\ status' = [status EXCEPT ![e] = "PREPARING"]
        /\ event' \in {event, [event EXCEPT ![e] = "pending"]}
        /\ rpc' = [rpc EXCEPT ![r] = "idle"]
        /\ wanted' = [wanted EXCEPT ![r] = NoExport]
        /\ UNCHANGED sending
        /\ \A p \in Publishers : sending[p] # e
    BY <1>5, <2>1 DEF RequestCommit, Answered, QueueTypeOK
  <2>. QED BY <2>1, <2>2 DEF EventInv, RowTypeOK, QueueTypeOK
<1>6. ASSUME NEW r \in Requesters, Requesting(r)
      PROVE  EventInv'
  <2>1. UNCHANGED <<status, event, sending>>
    BY <1>6 DEF Requesting, RequestRead, RequestReadEvent, RequestAbort, rowVars, eventVars
  <2>2. \A q \in Requesters : rpc'[q] # "idle" => status[wanted'[q]] # "ABSENT"
    BY <1>6 DEF Requesting, RequestRead, RequestReadEvent, RequestAbort, Answered, Revivable,
      EventInv, QueueTypeOK
  <2>. QED BY <2>1, <2>2 DEF EventInv
<1>7. ASSUME NEW p \in Publishers, PublishSend(p)
      PROVE  EventInv'
  BY <1>7 DEF EventInv, PublishSend, QueueTypeOK, rowVars, requestVars
<1>8. ASSUME NEW p \in Publishers, PublishEnd(p)
      PROVE  EventInv'
  <2>1. /\ UNCHANGED <<status, rpc, wanted>>
        /\ sending' = [sending EXCEPT ![p] = NoExport]
        /\ event' \in {event, [event EXCEPT ![sending[p]] = "published"]}
        /\ sending[p] \in Exports /\ event[sending[p]] = "pending"
    BY <1>8 DEF PublishEnd, rowVars, requestVars, QueueTypeOK, EventInv
  <2>. QED BY <2>1 DEF EventInv, QueueTypeOK
<1>9. ASSUME \/ \E w \in Workers, m \in Messages : Deliver(w, m)
             \/ \E w \in Workers : WorkerStep(w) \/ Heartbeat(w) \/ Disturbance(w)
             \/ \E e \in Exports : LeaseExpires(e)
             \/ \E m \in Messages : WaitOver(m) \/ VisibilityTimeout(m)
      PROVE  UNCHANGED <<eventVars, rpc, wanted>>
  BY <1>9 DEF Deliver, WorkerStep, Heartbeat, Disturbance, LeaseExpires, WaitOver,
    VisibilityTimeout, CleanUp, Build, Upload, Verify, Finish, FailInvalid, Release, Discard, Retry,
    Exhausted, WaitForLease, SettleMessage, AttemptFails, AttemptInvalid, HandlerFails, WorkerLost,
    HostCrash, HardTimeout, eventVars, requestVars
<1>. QED
  BY <1>3, <1>4, <1>5, <1>6, <1>7, <1>8, <1>9 DEF Next, Publishing, RequestEnd, Requesting

\* What a worker that carries an export does next carries it on.
Carried1(e) ==
  dropped[e] \/ Unsent(e) \/ Queued(e) \/ \E w \in Workers : export[w] = e /\ Carries(w)

LEMMA PutQueues ==
  ASSUME QueueTypeOK, QueueTypeOK', NEW m \in Messages, NEW e, m[1] = e,
         \/ ready' = Put(ready, m) \/ waiting' = Put(waiting, m) \/ limbo' = Put(limbo, m)
  PROVE  Queued(e)'
<1>1. ready'[m] > 0 \/ waiting'[m] > 0 \/ limbo'[m] > 0
  BY DEF Put, QueueTypeOK
<1>2. ready'[m] \in Nat /\ waiting'[m] \in Nat /\ limbo'[m] \in Nat
  BY DEF QueueTypeOK
<1>. QED BY <1>1, <1>2 DEF Queued

LEMMA WorkerCarriesOn ==
  ASSUME TypeOK, TypeOK', NEW w \in Workers, NEW e \in Exports, export[w] = e, Carries(w),
         WorkerStep(w) \/ Heartbeat(w) \/ Disturbance(w),
         status[e] = "PREPARING", status'[e] = "PREPARING"
  PROVE  Carried1(e)'
<1>. /\ WorkerTypeOK /\ RowTypeOK /\ QueueTypeOK /\ QueueTypeOK' /\ WorkerTypeOK'
     /\ dropped \in [Exports -> BOOLEAN]
  BY DEF TypeOK
<1>1. ASSUME NEW p \in {"upload", "verify", "finish", "release", "discard", "retry"},
             export'[w] = e, pc'[w] = p
      PROVE  Carried1(e)'
  BY <1>1 DEF Carried1, Carries
<1>2. ASSUME NEW p \in {"cleanup", "build", "invalid"}, Owns(w), UNCHANGED rowVars, Goto(w, p)
      PROVE  Carried1(e)'
  <2>1. Owns(w)' /\ export'[w] = e /\ pc'[w] = p
    BY <1>2 DEF Owns, Goto, memory, rowVars, WorkerTypeOK
  <2>. QED BY <2>1 DEF Carried1, Carries
<1>3. ASSUME Drop(w)
      PROVE  Carried1(e)'
  BY <1>3 DEF Drop, Carried1
<1>4. CASE CleanUp(w)
  BY <1>2, <1>4 DEF CleanUp, Carries
<1>5. CASE Build(w) \/ Verify(w) \/ AttemptFails(w)
  BY <1>1, <1>5 DEF Build, Verify, AttemptFails, Goto, WorkerTypeOK
<1>6. CASE Upload(w) \/ Release(w)
  BY <1>1, <1>6 DEF Upload, Release, Goto, WorkerTypeOK
<1>7. CASE Finish(w)
  BY <1>1, <1>7 DEF Finish, ReadyRow, Goto, WorkerTypeOK, RowTypeOK
<1>8. CASE FailInvalid(w)
  BY <1>8 DEF FailInvalid, MarkInvalid, FailRow, Carries, RowTypeOK
<1>9. CASE Discard(w)
  BY <1>1, <1>9 DEF Discard, Settle, Carries, WorkerTypeOK
<1>10. CASE Retry(w) \/ WaitForLease(w)
  <2>1. CASE Drop(w)
    BY <1>3, <2>1
  <2>. DEFINE m == <<export[w], retries[w] + 1>>
  <2>2. CASE retries[w] < MaxRetries /\ (ready' = Put(ready, m) \/ waiting' = Put(waiting, m))
    <3>1. m \in Messages /\ m[1] = e
      BY <2>2 DEF WorkerTypeOK
    <3>2. Queued(e)'
      BY <2>2, <3>1, PutQueues
    <3>. QED BY <3>2 DEF Carried1
  <2>. QED BY <1>10, <2>1, <2>2 DEF Retry, WaitForLease
<1>11. CASE Exhausted(w)
  BY <1>3, <1>11 DEF Exhausted, FailRow, RowTypeOK
<1>12. CASE SettleMessage(w)
  BY <1>12 DEF SettleMessage, Carries
<1>13. CASE Heartbeat(w)
  <2>1. CASE UNCHANGED workerVars /\ SetLease(e, "live")
    <3>1. Carries(w)' /\ export'[w] = e
      BY <2>1 DEF SetLease, Carries, Owns, workerVars, memory
    <3>. QED BY <3>1 DEF Carried1
  <2>2. CASE pc[w] = "build" /\ Goto(w, "release")
    BY <1>1, <2>2 DEF Goto, WorkerTypeOK
  <2>3. CASE pc[w] = "upload" /\ UNCHANGED <<pc, export>>
    BY <1>1, <2>3
  <2>. QED BY <1>13, <2>1, <2>2, <2>3 DEF Heartbeat
<1>14. CASE AttemptInvalid(w)
  BY <1>2, <1>14 DEF AttemptInvalid, Carries
<1>15. CASE HandlerFails(w) \/ HardTimeout(w)
  BY <1>3, <1>15 DEF HandlerFails, HardTimeout
<1>16. CASE WorkerLost(w) \/ HostCrash(w)
  <2>1. Message(w) \in Messages /\ Message(w)[1] = e
    BY <1>16, BusyWorker DEF WorkerLost, HostCrash, Message
  <2>2. ready' = Put(ready, Message(w)) \/ limbo' = Put(limbo, Message(w))
    BY <1>16 DEF WorkerLost, HostCrash
  <2>3. Queued(e)'
    BY <2>1, <2>2, PutQueues
  <2>. QED BY <2>3 DEF Carried1
<1>. QED
  BY <1>4, <1>5, <1>6, <1>7, <1>8, <1>9, <1>10, <1>11, <1>12, <1>13, <1>14, <1>15, <1>16
  DEF WorkerStep, Disturbance

\* A delivered message is carried by its worker.
LEMMA DeliveryCarries ==
  ASSUME TypeOK, NEW w \in Workers, NEW m \in Messages, Deliver(w, m), NEW e \in Exports,
         m[1] = e, status'[e] = "PREPARING"
  PROVE  export'[w] = e /\ Carries(w)'
<1>. WorkerTypeOK /\ RowTypeOK
  BY DEF TypeOK
<1>1. export'[w] = e
  BY DEF Deliver, WorkerTypeOK
<1>2. CASE pc' = [pc EXCEPT ![w] = "retry"] \/ pc' = [pc EXCEPT ![w] = "busy"]
  BY <1>1, <1>2 DEF Carries, WorkerTypeOK
<1>3. CASE pc' = [pc EXCEPT ![w] = "cleanup"] /\ Claim(w, e)
  <2>1. /\ pc'[w] = "cleanup" /\ mine'[w] = generation[e] + 1
        /\ token'[e] = generation[e] + 1 /\ generation'[e] = generation[e] + 1
    BY <1>3 DEF Claim, WorkerTypeOK, RowTypeOK
  <2>. QED BY <1>1, <2>1 DEF Carries, Owns
<1>4. CASE pc' = [pc EXCEPT ![w] = "done"] /\ status[e] # "PREPARING" /\ UNCHANGED rowVars
  BY <1>4 DEF rowVars
<1>. QED BY <1>2, <1>3, <1>4 DEF Deliver, Claim

\* A message put in a queue removes none.
LEMMA PutGrows ==
  ASSUME NEW queue \in [Messages -> Nat], NEW m, NEW n \in Messages
  PROVE  Put(queue, m)[n] \in Nat /\ Put(queue, m)[n] >= queue[n]
BY DEF Put

\* Messages leave the queues one by one, to a worker.
LEMMA QueuedStep ==
  ASSUME TypeOK, Next, NEW e \in Exports, Queued(e)
  PROVE  \/ Queued(e)'
         \/ \E w \in Workers, m \in Messages : m[1] = e /\ Deliver(w, m)
<1>. QueueTypeOK /\ QueueTypeOK'
  BY QueueTypes DEF TypeOK
<1>. PICK n \in Messages : n[1] = e /\ ready[n] + waiting[n] + limbo[n] > 0
  BY DEF Queued
<1>. ready[n] \in Nat /\ waiting[n] \in Nat /\ limbo[n] \in Nat
  BY DEF QueueTypeOK
<1>1. ASSUME ready'[n] + waiting'[n] + limbo'[n] > 0
      PROVE  Queued(e)'
  BY <1>1 DEF Queued
<1>2. CASE UNCHANGED brokerVars
  BY <1>1, <1>2 DEF brokerVars
<1>3. ASSUME NEW p \in Publishers, PublishSend(p)
      PROVE  Queued(e)'
  <2>1. PICK f \in Exports : ready' = Put(ready, <<f, 0>>)
    BY <1>3 DEF PublishSend
  <2>2. ready'[n] >= ready[n] /\ UNCHANGED <<waiting, limbo>>
    BY <1>3, <2>1, PutGrows DEF PublishSend, QueueTypeOK
  <2>. QED BY <1>1, <2>2 DEF QueueTypeOK
<1>4. ASSUME NEW w \in Workers, Retry(w)
      PROVE  Queued(e)'
  <2>. DEFINE m == <<export[w], retries[w] + 1>>
  <2>2. (ready' = Put(ready, m) \/ UNCHANGED ready) /\ UNCHANGED <<waiting, limbo>>
    BY <1>4 DEF Retry
  <2>. HIDE DEF m
  <2>3. ready \in [Messages -> Nat]
    BY DEF QueueTypeOK
  <2>4. Put(ready, m)[n] >= ready[n]
    BY <2>3, PutGrows
  <2>1. ready'[n] >= ready[n] /\ UNCHANGED <<waiting, limbo>>
    BY <2>2, <2>4
  <2>. QED BY <1>1, <2>1 DEF QueueTypeOK
<1>5. ASSUME NEW w \in Workers, WaitForLease(w)
      PROVE  Queued(e)'
  <2>. DEFINE m == <<export[w], retries[w] + 1>>
  <2>2. (waiting' = Put(waiting, m) \/ UNCHANGED waiting) /\ UNCHANGED <<ready, limbo>>
    BY <1>5 DEF WaitForLease
  <2>. HIDE DEF m
  <2>3. waiting \in [Messages -> Nat]
    BY DEF QueueTypeOK
  <2>4. Put(waiting, m)[n] >= waiting[n]
    BY <2>3, PutGrows
  <2>1. waiting'[n] >= waiting[n] /\ UNCHANGED <<ready, limbo>>
    BY <2>2, <2>4
  <2>. QED BY <1>1, <2>1 DEF QueueTypeOK
<1>6. ASSUME NEW w \in Workers, WorkerLost(w)
      PROVE  Queued(e)'
  <2>1. ready'[n] >= ready[n] /\ UNCHANGED <<waiting, limbo>>
    BY <1>6 DEF WorkerLost, Put, QueueTypeOK
  <2>. QED BY <1>1, <2>1 DEF QueueTypeOK
<1>7. ASSUME NEW w \in Workers, HostCrash(w)
      PROVE  Queued(e)'
  <2>1. limbo'[n] >= limbo[n] /\ UNCHANGED <<ready, waiting>>
    BY <1>7 DEF HostCrash, Put, QueueTypeOK
  <2>. QED BY <1>1, <2>1 DEF QueueTypeOK
<1>8. ASSUME NEW m \in Messages, WaitOver(m)
      PROVE  Queued(e)'
  <2>1. CASE m = n
    BY <1>8, <2>1, PutQueues DEF WaitOver, Returns
  <2>2. CASE m # n
    BY <1>1, <1>8, <2>2 DEF WaitOver, Returns, Put, Take, QueueTypeOK
  <2>. QED BY <2>1, <2>2
<1>9. ASSUME NEW m \in Messages, VisibilityTimeout(m)
      PROVE  Queued(e)'
  <2>1. CASE m = n
    BY <1>9, <2>1, PutQueues DEF VisibilityTimeout, Returns
  <2>2. CASE m # n
    BY <1>1, <1>9, <2>2 DEF VisibilityTimeout, Returns, Put, Take, QueueTypeOK
  <2>. QED BY <2>1, <2>2
<1>10. ASSUME NEW w \in Workers, NEW m \in Messages, Deliver(w, m), m[1] # e
       PROVE  Queued(e)'
  BY <1>1, <1>10 DEF Deliver, Take, QueueTypeOK
<1>11. ASSUME NEW w \in Workers,
              \/ CleanUp(w) \/ Build(w) \/ Upload(w) \/ Verify(w) \/ Finish(w) \/ FailInvalid(w)
              \/ Release(w) \/ Discard(w) \/ Exhausted(w) \/ SettleMessage(w) \/ Heartbeat(w)
              \/ AttemptFails(w) \/ AttemptInvalid(w) \/ HandlerFails(w) \/ HardTimeout(w)
       PROVE  UNCHANGED brokerVars
  BY <1>11 DEF CleanUp, Build, Upload, Verify, Finish, FailInvalid, Release, Discard, Exhausted,
    SettleMessage, Heartbeat, AttemptFails, AttemptInvalid, HandlerFails, HardTimeout, brokerVars
<1>12. ASSUME \/ \E f \in Exports : RequestInsert(f) \/ LeaseExpires(f)
              \/ \E r \in Requesters : Requesting(r) \/ RequestCommit(r)
              \/ \E p \in Publishers : PublishEnd(p)
       PROVE  UNCHANGED brokerVars
  BY <1>12 DEF RequestInsert, LeaseExpires, Requesting, RequestRead, RequestReadEvent, RequestAbort,
    RequestCommit, PublishEnd
<1>. QED
  BY <1>2, <1>3, <1>4, <1>5, <1>6, <1>7, <1>8, <1>9, <1>10, <1>11, <1>12
  DEF Next, Publishing, WorkerStep, Disturbance, RequestEnd, Requesting

\* An event that is due stays due until it is sent; what was thrown away stays so until a
\* request starts the export again.
LEMMA UnsentStep ==
  ASSUME TypeOK, Next, NEW e \in Exports, Unsent(e)
  PROVE  Unsent(e)' \/ Queued(e)' \/ \E r \in Requesters : RequestCommit(r) /\ wanted[r] = e
<1>. QueueTypeOK /\ QueueTypeOK'
  BY QueueTypes DEF TypeOK
<1>1. CASE UNCHANGED eventVars
  BY <1>1 DEF Unsent, eventVars
<1>2. ASSUME NEW p \in Publishers, PublishSend(p)
      PROVE  Unsent(e)' \/ Queued(e)'
  <2>1. PICK f \in Exports : /\ sending' = [sending EXCEPT ![p] = f]
                             /\ ready' = Put(ready, <<f, 0>>)
    BY <1>2 DEF PublishSend
  <2>2. CASE f = e
    BY <2>1, <2>2, PutQueues
  <2>3. CASE f # e
    BY <1>2, <2>1, <2>3 DEF PublishSend, Unsent, QueueTypeOK
  <2>. QED BY <2>2, <2>3
<1>3. ASSUME NEW p \in Publishers, PublishEnd(p)
      PROVE  Unsent(e)'
  BY <1>3 DEF PublishEnd, Unsent, QueueTypeOK
<1>4. ASSUME NEW f \in Exports, RequestInsert(f)
      PROVE  Unsent(e)'
  BY <1>4 DEF RequestInsert, Unsent, QueueTypeOK
<1>5. ASSUME NEW r \in Requesters, RequestCommit(r), wanted[r] # e
      PROVE  Unsent(e)'
  BY <1>5 DEF RequestCommit, Unsent, QueueTypeOK
<1>6. ASSUME NEW r \in Requesters, Requesting(r)
      PROVE  UNCHANGED eventVars
  BY <1>6 DEF Requesting, RequestRead, RequestReadEvent, RequestAbort
<1>7. ASSUME \/ \E w \in Workers, m \in Messages : Deliver(w, m)
             \/ \E w \in Workers : WorkerStep(w) \/ Heartbeat(w) \/ Disturbance(w)
             \/ \E f \in Exports : LeaseExpires(f)
             \/ \E m \in Messages : WaitOver(m) \/ VisibilityTimeout(m)
      PROVE  UNCHANGED eventVars
  BY <1>7 DEF Deliver, WorkerStep, Heartbeat, Disturbance, LeaseExpires, WaitOver,
    VisibilityTimeout, CleanUp, Build, Upload, Verify, Finish, FailInvalid, Release, Discard, Retry,
    Exhausted, WaitForLease, SettleMessage, AttemptFails, AttemptInvalid, HandlerFails, WorkerLost,
    HostCrash, HardTimeout, eventVars
<1>. QED
  BY <1>1, <1>2, <1>3, <1>4, <1>5, <1>6, <1>7 DEF Next, Publishing, RequestEnd, Requesting

LEMMA DroppedStep ==
  ASSUME TypeOK, Next, NEW e \in Exports, dropped[e]
  PROVE  dropped'[e] \/ \E r \in Requesters : RequestCommit(r) /\ wanted[r] = e
<1>. dropped \in [Exports -> BOOLEAN]
  BY DEF TypeOK
<1>1. ASSUME NEW r \in Requesters, RequestCommit(r), wanted[r] # e
      PROVE  dropped'[e] = dropped[e]
  BY <1>1 DEF RequestCommit
<1>2. ASSUME NEW w \in Workers, WorkerStep(w) \/ Heartbeat(w) \/ Disturbance(w)
      PROVE  UNCHANGED dropped \/ Drop(w)
  BY <1>2 DEF WorkerStep, Heartbeat, Disturbance, CleanUp, Build, Upload, Verify, Finish,
    FailInvalid, Release, Discard, Retry, Exhausted, WaitForLease, SettleMessage, AttemptFails,
    AttemptInvalid, HandlerFails, WorkerLost, HostCrash, HardTimeout
<1>3. ASSUME \/ \E w \in Workers, m \in Messages : Deliver(w, m)
             \/ \E f \in Exports : RequestInsert(f) \/ LeaseExpires(f)
             \/ \E m \in Messages : WaitOver(m) \/ VisibilityTimeout(m)
             \/ \E r \in Requesters : Requesting(r)
             \/ Publishing
      PROVE  UNCHANGED dropped
  BY <1>3 DEF Deliver, RequestInsert, LeaseExpires, WaitOver, VisibilityTimeout, Requesting,
    RequestRead, RequestReadEvent, RequestAbort, Publishing, PublishSend, PublishEnd
<1>. QED BY <1>1, <1>2, <1>3 DEF Next, RequestEnd, Requesting, Drop

LEMMA CarryStep ==
  ASSUME TypeOK, HolderInv, EventInv, CarryInv, Next
  PROVE  CarryInv'
<1>. /\ RowTypeOK /\ WorkerTypeOK /\ QueueTypeOK /\ dropped \in [Exports -> BOOLEAN]
     /\ TypeOK'
  BY NextTypes DEF TypeOK
<1>. SUFFICES ASSUME NEW e \in Exports, status'[e] = "PREPARING"
              PROVE  Carried1(e)'
  BY DEF CarryInv, Carried1
<1>1. ASSUME RequestInsert(e)
      PROVE  Carried1(e)'
  <2>1. Unsent(e)'
    BY <1>1 DEF RequestInsert, Unsent, EventInv, QueueTypeOK
  <2>. QED BY <2>1 DEF Carried1
<1>2. ASSUME NEW r \in Requesters, RequestCommit(r), wanted[r] = e
      PROVE  Carried1(e)'
  <2>1. event[e] # "none"
    BY <1>2 DEF RequestCommit, EventInv, QueueTypeOK
  <2>2. event'[e] = "pending" \/ dropped'[e]
    BY <1>2, <2>1 DEF RequestCommit, Reissues, QueueTypeOK
  <2>3. \A p \in Publishers : sending'[p] # e
    BY <1>2 DEF RequestCommit
  <2>. QED BY <2>2, <2>3 DEF Carried1, Unsent
<1>3. CASE status[e] = "PREPARING" /\ ~\E r \in Requesters : RequestCommit(r) /\ wanted[r] = e
  <2>1. CASE dropped[e]
    BY <1>3, <2>1, DroppedStep DEF Carried1
  <2>2. CASE Unsent(e)
    BY <1>3, <2>2, UnsentStep DEF Carried1
  <2>3. CASE Queued(e)
    BY <2>3, QueuedStep, DeliveryCarries DEF Carried1
  <2>4. ASSUME NEW w \in Workers, export[w] = e, Carries(w)
        PROVE  Carried1(e)'
    <3>1. CASE WorkerStep(w) \/ Heartbeat(w) \/ Disturbance(w)
      BY <1>3, <2>4, <3>1, WorkerCarriesOn
    <3>2. CASE pc'[w] = pc[w] /\ export'[w] = export[w] /\ mine'[w] = mine[w]
      <4>1. CASE Carries(w)'
        BY <2>4, <3>2, <4>1 DEF Carried1
      <4>2. CASE ~Carries(w)'
        <5>1. pc[w] \in {"cleanup", "build", "invalid"} /\ Owns(w) /\ ~Owns(w)'
          BY <2>4, <3>2, <4>2 DEF Carries
        <5>2. ASSUME NEW v \in Workers, Claimed(e, v)
              PROVE  Carried1(e)'
          BY <5>2 DEF Claimed, Carried1, Carries, Owns
        <5>3. ASSUME NEW v \in Workers, EndedByOwner(e, v)
              PROVE  FALSE
          <6>1. v = w
            BY <2>4, <5>1, <5>3 DEF EndedByOwner, Owns, HolderInv
          <6>. QED BY <3>2, <5>1, <5>3, <6>1 DEF EndedByOwner
        <5>. QED BY <1>3, <2>4, <3>2, <5>1, <5>2, <5>3, RowChanges
             DEF RowChange, Kept, Inserted, Restarted, GivenUp, Owns
      <4>. QED BY <4>1, <4>2
    <3>3. ASSUME NEW m \in Messages, Deliver(w, m)
          PROVE  FALSE
      BY <2>4, <3>3 DEF Deliver, Carries
    <3>. QED BY <3>1, <3>2, <3>3, OwnSteps
  <2>. QED BY <1>3, <2>1, <2>2, <2>3, <2>4 DEF CarryInv
<1>. QED BY <1>1, <1>2, <1>3, RowChanges DEF RowChange, Kept, Inserted, Restarted, Claimed,
     EndedByOwner, GivenUp, Owns

-----------------------------------------------------------------------------
(* The theorems *)

LEMMA InitInv == Init => IInv
<1>. SUFFICES ASSUME Init
              PROVE  IInv
  OBVIOUS
<1>1. \A w \in Workers : pc[w] = "idle" /\ mine[w] = 0
  BY DEF Init
<1>2. \A e \in Exports : status[e] = "ABSENT"
  BY DEF Init
<1>3. EventInv
  BY DEF Init, EventInv
<1>. QED BY <1>1, <1>2, <1>3, InitTypes
     DEF IInv, HolderInv, PublishedInv, FinishInv, CarryInv, ReadyHasArtifact

LEMMA StutterInv ==
  ASSUME IInv, UNCHANGED exportVars
  PROVE  IInv'
<1>. USE DEF exportVars, rowVars, eventVars, brokerVars, requestVars, workerVars, memory
<1>1. TypeOK'
  BY NextTypes DEF IInv
<1>2. HolderInv' /\ PublishedInv' /\ FinishInv'
  BY DEF IInv, HolderInv, PublishedInv, FinishInv, Owns, Mine
<1>3. EventInv' /\ ReadyHasArtifact'
  BY DEF IInv, EventInv, ReadyHasArtifact
<1>4. CarryInv'
  BY DEF IInv, CarryInv, Unsent, Queued, Carries, Owns
<1>. QED BY <1>1, <1>2, <1>3, <1>4 DEF IInv

LEMMA StepInv ==
  ASSUME IInv, Next
  PROVE  IInv'
<1>1. TypeOK'
  BY NextTypes DEF IInv
<1>. QED
  BY <1>1, HolderStep, PublishedStep, FinishStep, EventStep, CarryStep, ReadyStep DEF IInv

\* The inductive invariant holds throughout, whatever requests, faults and crashes come.
THEOREM SpecIInv == Spec => []IInv
<1>1. Init => IInv
  BY InitInv
<1>2. IInv /\ [Next]_exportVars => IInv'
  BY StepInv, StutterInv
<1>. QED BY <1>1, <1>2, PTL DEF Spec

\* A READY export has the archive its row names, but for the attempt whose commit of READY
\* raised: no cleanup of a lapsed, failed or late attempt removes it.
THEOREM SpecReadyHasArtifact == Spec => []ReadyHasArtifact
<1>1. IInv => ReadyHasArtifact
  BY DEF IInv
<1>. QED BY <1>1, SpecIInv, PTL

\* An export in preparation keeps an event, a message or a worker that will act on it,
\* unless its message was thrown away where the code throws messages away.
THEOREM SpecNoExportStranded == Spec => []NoExportStranded
<1>1. ASSUME IInv
      PROVE  NoExportStranded
  <2>1. \A e \in Exports : Unsent(e) \/ Queued(e) => Carried(e)
    BY DEF Unsent, Queued, Carried
  <2>2. \A w \in Workers : Carries(w) => pc[w] # "done"
    BY DEF Carries
  <2>. QED BY <1>1, <2>1, <2>2 DEF IInv, CarryInv, NoExportStranded, Carried
<1>. QED BY <1>1, SpecIInv, PTL

\* While the lease of an attempt is live, only the worker that made the attempt ends it.
THEOREM SpecOnlyHolderEndsLease == Spec => OnlyHolderEndsLease
<1>. DEFINE HolderEnds ==
       \A e \in Exports : lease[e] = "live" /\ token'[e] # token[e] =>
         \E w \in Workers : /\ export[w] = e /\ mine[w] = token[e]
                            /\ pc[w] \in Holding /\ pc'[w] # pc[w]
<1>1. ASSUME IInv, Next
      PROVE  HolderEnds
  <2>. SUFFICES ASSUME NEW e \in Exports, lease[e] = "live", token'[e] # token[e]
                PROVE  \E w \in Workers : /\ export[w] = e /\ mine[w] = token[e]
                                          /\ pc[w] \in Holding /\ pc'[w] # pc[w]
    OBVIOUS
  <2>1. token[e] # 0
    BY <1>1 DEF IInv, TypeOK, RowTypeOK
  <2>2. PICK w \in Workers : EndedByOwner(e, w)
    BY <1>1, <2>1, RowChanges DEF IInv, RowChange, Kept, Inserted, Restarted, SameAttempt, Claimed,
      GivenUp, Unleased
  <2>. QED BY <2>2 DEF EndedByOwner, Owns, Holding
<1>2. IInv /\ [Next]_exportVars => [HolderEnds]_exportVars
  BY <1>1
<1>. QED BY <1>2, SpecIInv, PTL DEF Spec, OnlyHolderEndsLease

\* Only a request takes an export out of READY or FAILED.
THEOREM SpecEndedUntilRequested == Spec => EndedUntilRequested
<1>. DEFINE EndedStays ==
       \A e \in Exports : status[e] \in Ended =>
         \/ /\ status'[e] = status[e] /\ code'[e] = code[e] /\ artifact'[e] = artifact[e]
            /\ token'[e] = token[e] /\ generation'[e] = generation[e]
         \/ \E r \in Requesters : wanted[r] = e /\ rpc[r] # "idle" /\ rpc'[r] = "idle"
<1>1. ASSUME IInv, Next
      PROVE  EndedStays
  BY <1>1, RowChanges DEF IInv, RowChange, Kept, Inserted, Restarted, Claimed, EndedByOwner, Owns,
    GivenUp, Unleased, Ended
<1>2. IInv /\ [Next]_exportVars => [EndedStays]_exportVars
  BY <1>1
<1>. QED BY <1>2, SpecIInv, PTL DEF Spec, EndedUntilRequested

=============================================================================
