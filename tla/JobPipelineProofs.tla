-------------------------- MODULE JobPipelineProofs --------------------------
(* Theorems of JobPipeline, for every value of its constants. *)
EXTENDS JobPipeline, TLAPS

USE PipelineAssumption DEF Tokens, Messages

-----------------------------------------------------------------------------
(* Type correctness *)

\* The stores and the fault budget.
RestTypeOK ==
  /\ frames \subseteq Jobs \X Tokens
  /\ manifests \subseteq Jobs \X Tokens
  /\ budget \in Nat

LEMMA TypeParts ==
  /\ TypeOK <=> RowTypeOK /\ BrokerTypeOK /\ WorkerTypeOK /\ RestTypeOK
  /\ TypeOK' <=> RowTypeOK' /\ BrokerTypeOK' /\ WorkerTypeOK' /\ RestTypeOK'
BY DEF TypeOK, RestTypeOK

LEMMA BudgetType ==
  ASSUME budget \in Nat, NEW f, Calm \/ Spend(f)
  PROVE  budget' \in Nat
BY DEF Calm, Spend

\* A busy worker has a job and a message.
LEMMA BusyWorker ==
  ASSUME WorkerTypeOK, NEW w \in Workers, pc[w] # "idle"
  PROVE  job[w] \in Jobs /\ Message(w) \in Messages
BY DEF WorkerTypeOK, Message

(* The statements that change a row keep the rows well typed. *)

LEMMA LeaveRunningType ==
  ASSUME RowTypeOK, NEW j \in Jobs, NEW s \in {"QUEUED", "SUCCEEDED", "FAILED"},
         LeaveRunning(j, s), UNCHANGED attempt,
         result' \in [Jobs -> Tokens \cup {0}],
         code' \in [Jobs -> {"none", "transient", "permanent"}]
  PROVE  RowTypeOK'
<1>1. /\ status' \in [Jobs -> Status]
      /\ token' \in [Jobs -> Tokens \cup {0}]
      /\ lease' \in [Jobs -> {"none", "live", "expired"}]
      /\ attempt' \in [Jobs -> Tokens \cup {0}]
      /\ version' \in [Jobs -> Nat]
  BY DEF RowTypeOK, LeaveRunning, Status
<1>2. ASSUME NEW k \in Jobs
      PROVE  /\ status'[k] = "RUNNING" <=> token'[k] # 0
             /\ status'[k] = "RUNNING" <=> lease'[k] # "none"
  BY <1>2 DEF RowTypeOK, LeaveRunning
<1>. QED BY <1>1, <1>2 DEF RowTypeOK

LEMMA FailType ==
  ASSUME RowTypeOK, NEW j \in Jobs, NEW c \in {"transient", "permanent"}, FailRow(j, c)
  PROVE  RowTypeOK'
<1>1. code' \in [Jobs -> {"none", "transient", "permanent"}]
  BY DEF RowTypeOK, FailRow
<1>. QED BY <1>1, LeaveRunningType DEF FailRow, RowTypeOK

LEMMA SucceedType ==
  ASSUME RowTypeOK, NEW j \in Jobs, NEW t \in Tokens, SucceedRow(j, t)
  PROVE  RowTypeOK'
<1>1. result' \in [Jobs -> Tokens \cup {0}]
  BY DEF RowTypeOK, SucceedRow
<1>. QED BY <1>1, LeaveRunningType DEF SucceedRow, RowTypeOK

LEMMA ReleaseType ==
  ASSUME RowTypeOK, NEW j \in Jobs, ReleaseRow(j)
  PROVE  RowTypeOK'
BY LeaveRunningType DEF ReleaseRow, RowTypeOK

LEMMA ClaimType ==
  ASSUME RowTypeOK, NEW j \in Jobs, attempt[j] < MaxAttempts, ClaimRow(j)
  PROVE  RowTypeOK' /\ attempt[j] + 1 \in Tokens
<1>1. attempt[j] + 1 \in Tokens
  BY DEF RowTypeOK
<1>. QED BY <1>1 DEF RowTypeOK, ClaimRow, Status

LEMMA SetLeaseType ==
  ASSUME RowTypeOK, NEW j \in Jobs, NEW l \in {"live", "expired"}, lease[j] # "none",
         SetLease(j, l)
  PROVE  RowTypeOK'
BY DEF RowTypeOK, SetLease

LEMMA SetStatusType ==
  ASSUME RowTypeOK, NEW j \in Jobs, NEW s \in {"PENDING_DISPATCH", "QUEUED"},
         status[j] # "RUNNING", SetStatus(j, s)
  PROVE  RowTypeOK'
BY DEF RowTypeOK, SetStatus, Status

LEMMA SameRowType == RowTypeOK /\ UNCHANGED jobVars => RowTypeOK'
BY DEF RowTypeOK, jobVars

(* The ways a worker moves on. *)

LEMMA SettleType ==
  ASSUME WorkerTypeOK, NEW w \in Workers, NEW p \in {"released", "done"},
         pc[w] # "idle", Settle(w, p)
  PROVE  WorkerTypeOK'
BY DEF WorkerTypeOK, Settle, ForgetRun, WorkerPC, Holding, Running, Failing

LEMMA IdleType ==
  ASSUME WorkerTypeOK, NEW w \in Workers, Idle(w)
  PROVE  WorkerTypeOK'
BY DEF WorkerTypeOK, Idle, ForgetRun, WorkerPC, Holding, Running, Failing

LEMMA GotoType ==
  ASSUME WorkerTypeOK, NEW w \in Workers, NEW p \in Holding, pc[w] \in Holding,
         p \notin {"listing", "deleting"} \/ pc[w] \in {"listing", "deleting"},
         Goto(w, p)
  PROVE  WorkerTypeOK'
BY DEF WorkerTypeOK, Goto, memory, WorkerPC, Holding, Running, Failing

LEMMA SameWorkerType == WorkerTypeOK /\ UNCHANGED workerVars => WorkerTypeOK'
BY DEF WorkerTypeOK, workerVars, memory

(* The queues. *)

LEMMA QueueType ==
  ASSUME NEW q \in [Messages -> Nat], NEW m \in Messages
  PROVE  /\ Put(q, m) \in [Messages -> Nat]
         /\ q[m] > 0 => Take(q, m) \in [Messages -> Nat]
BY DEF Put, Take

LEMMA SameBrokerType == BrokerTypeOK /\ UNCHANGED <<outboxVars, brokerVars>> => BrokerTypeOK'
BY DEF BrokerTypeOK, outboxVars, brokerVars

LEMMA SameRestType == RestTypeOK /\ UNCHANGED storeVars /\ budget' \in Nat => RestTypeOK'
BY DEF RestTypeOK, storeVars

-----------------------------------------------------------------------------
(* Every step keeps the types *)

LEMMA TypeInit == Init => TypeOK
BY DEF Init, TypeOK, RowTypeOK, BrokerTypeOK, WorkerTypeOK, Status, WorkerPC,
       Holding, Running, Failing

LEMMA PublishingType == TypeOK /\ Publishing => TypeOK'
<1>. SUFFICES ASSUME TypeOK, NEW p \in Publishers, PublishSend(p) \/ PublishCommit(p)
              PROVE  TypeOK'
  BY DEF Publishing
<1>. USE TypeParts
<1>1. CASE PublishSend(p)
  <2>1. PICK j \in Jobs : /\ sending' = [sending EXCEPT ![p] = j]
                          /\ ready' = Put(ready, <<j, 0>>)
    BY <1>1 DEF PublishSend
  <2>2. <<j, 0>> \in Messages
    OBVIOUS
  <2>3. BrokerTypeOK'
    <3>1. ready' \in [Messages -> Nat]
      BY <2>1, <2>2, QueueType DEF BrokerTypeOK
    <3>. QED BY <1>1, <2>1, <3>1 DEF PublishSend, BrokerTypeOK
  <2>. QED
    BY <1>1, <2>3, SameRowType, SameWorkerType, SameRestType DEF PublishSend, Calm, RestTypeOK
<1>2. CASE PublishCommit(p)
  <2>1. sending[p] \in Jobs
    BY <1>2 DEF PublishCommit, BrokerTypeOK
  <2>2. RowTypeOK'
    BY <1>2, <2>1, SetStatusType, SameRowType DEF PublishCommit
  <2>3. BrokerTypeOK'
    BY <1>2, <2>1 DEF PublishCommit, BrokerTypeOK, brokerVars
  <2>. QED
    BY <1>2, <2>2, <2>3, SameWorkerType, SameRestType DEF PublishCommit, Calm, RestTypeOK
<1>. QED BY <1>1, <1>2

LEMMA RowStepType ==
  ASSUME TypeOK, NEW j \in Jobs, CreateJob(j) \/ LeaseExpires(j)
  PROVE  TypeOK'
<1>. USE TypeParts
<1>1. CASE CreateJob(j)
  <2>1. RowTypeOK'
    BY <1>1, SetStatusType DEF CreateJob
  <2>2. BrokerTypeOK'
    BY <1>1 DEF CreateJob, BrokerTypeOK, brokerVars
  <2>. QED
    BY <1>1, <2>1, <2>2, SameWorkerType, SameRestType DEF CreateJob, Calm, RestTypeOK
<1>2. CASE LeaseExpires(j)
  <2>1. RowTypeOK'
    BY <1>2, SetLeaseType DEF LeaseExpires
  <2>2. budget' \in Nat
    BY <1>2, BudgetType DEF LeaseExpires, RestTypeOK
  <2>. QED
    BY <1>2, <2>1, <2>2, SameBrokerType, SameWorkerType, SameRestType DEF LeaseExpires
<1>. QED BY <1>1, <1>2

LEMMA BrokerStepType ==
  ASSUME TypeOK,
         \/ BrokerLoss
         \/ \E p \in Publishers : PublishRollback(p)
         \/ \E m \in Messages : VisibilityTimeout(m)
         \/ \E w \in Workers, m \in Messages : Deliver(w, m)
  PROVE  TypeOK'
<1>. USE TypeParts
<1>1. CASE BrokerLoss
  <2>1. BrokerTypeOK'
    BY <1>1 DEF BrokerLoss, BrokerTypeOK, outboxVars
  <2>2. WorkerTypeOK'
    BY <1>1 DEF BrokerLoss, WorkerTypeOK, memory
  <2>3. budget' \in Nat
    BY <1>1 DEF BrokerLoss, Spend, RestTypeOK
  <2>. QED BY <1>1, <2>1, <2>2, <2>3, SameRowType, SameRestType DEF BrokerLoss
<1>2. ASSUME NEW p \in Publishers, PublishRollback(p) PROVE TypeOK'
  <2>1. BrokerTypeOK'
    BY <1>2 DEF PublishRollback, BrokerTypeOK, brokerVars
  <2>2. budget' \in Nat
    BY <1>2 DEF PublishRollback, Spend, RestTypeOK
  <2>. QED
    BY <1>2, <2>1, <2>2, SameRowType, SameWorkerType, SameRestType DEF PublishRollback
<1>3. ASSUME NEW m \in Messages, VisibilityTimeout(m) PROVE TypeOK'
  <2>1. ready' \in [Messages -> Nat] /\ limbo' \in [Messages -> Nat]
    BY <1>3, QueueType DEF VisibilityTimeout, BrokerTypeOK
  <2>2. BrokerTypeOK'
    BY <1>3, <2>1 DEF VisibilityTimeout, BrokerTypeOK, outboxVars
  <2>3. budget' \in Nat
    BY <1>3, BudgetType DEF VisibilityTimeout, RestTypeOK
  <2>. QED
    BY <1>3, <2>2, <2>3, SameRowType, SameWorkerType, SameRestType DEF VisibilityTimeout
<1>4. ASSUME NEW w \in Workers, NEW m \in Messages, Deliver(w, m) PROVE TypeOK'
  <2>1. ready' \in [Messages -> Nat]
    BY <1>4, QueueType DEF Deliver, BrokerTypeOK
  <2>2. BrokerTypeOK'
    BY <1>4, <2>1 DEF Deliver, BrokerTypeOK, outboxVars
  <2>3. m[1] \in Jobs /\ m[2] \in 0..MaxRetries
    OBVIOUS
  <2>4. WorkerTypeOK'
    BY <1>4, <2>3 DEF Deliver, WorkerTypeOK, memory, WorkerPC, Holding, Running, Failing
  <2>. QED
    BY <1>4, <2>2, <2>4, SameRowType, SameRestType DEF Deliver, Calm, RestTypeOK
<1>. QED BY <1>1, <1>2, <1>3, <1>4

\* The claim.
LEMMA ClaimStepType ==
  ASSUME TypeOK, NEW w \in Workers, ClaimRead(w) \/ ClaimUpdate(w)
  PROVE  TypeOK'
<1>. USE TypeParts
<1>1. CASE ClaimRead(w)
  <2>1. job[w] \in Jobs
    BY <1>1, BusyWorker DEF ClaimRead
  <2>2. WorkerTypeOK'
    <3>1. CASE Claimable(job[w])
      <4>1. version[job[w]] \in Nat /\ token[job[w]] \in Tokens \cup {0}
        BY <2>1 DEF RowTypeOK
      <4>. QED
        BY <1>1, <2>1, <3>1, <4>1
        DEF ClaimRead, WorkerTypeOK, WorkerPC, Holding, Running, Failing
    <3>2. CASE ~Claimable(job[w])
      BY <1>1, <3>2, SettleType DEF ClaimRead
    <3>. QED BY <3>1, <3>2
  <2>. QED
    BY <1>1, <2>2, SameRowType, SameBrokerType, SameRestType DEF ClaimRead, Calm, RestTypeOK
<1>2. CASE ClaimUpdate(w)
  <2>1. job[w] \in Jobs
    BY <1>2, BusyWorker DEF ClaimUpdate
  <2>2. RowTypeOK'
    BY <1>2, <2>1, ClaimType, SameRowType DEF ClaimUpdate
  <2>3. WorkerTypeOK'
    <3>1. CASE ClaimMatches(w)
      <4>1. attempt[job[w]] + 1 \in Tokens
        BY <1>2, <2>1, <3>1, ClaimType DEF ClaimUpdate
      <4>2. attempt[job[w]] + 1 # 0
        BY <4>1
      <4>. QED
        BY <1>2, <2>1, <3>1, <4>1, <4>2
        DEF ClaimUpdate, CleansFirst, WorkerTypeOK, WorkerPC, Holding, Running, Failing
    <3>2. CASE ~ClaimMatches(w)
      BY <1>2, <3>2, SettleType DEF ClaimUpdate
    <3>. QED BY <3>1, <3>2
  <2>. QED
    BY <1>2, <2>2, <2>3, SameBrokerType, SameRestType DEF ClaimUpdate, Calm, RestTypeOK
<1>. QED BY <1>1, <1>2

\* What a worker writes to object storage is a run of a job.
LEMMA OwnRunType ==
  ASSUME TypeOK, NEW w \in Workers, pc[w] \in Holding
  PROVE  /\ job[w] \in Jobs /\ run[w] \in Tokens
         /\ OwnRun(w) \in Jobs \X Tokens
<1>1. job[w] \in Jobs
  BY BusyWorker DEF TypeOK, Holding, Running, Failing
<1>2. run[w] \in Tokens
  BY DEF TypeOK, WorkerTypeOK
<1>. QED BY <1>1, <1>2 DEF OwnRun

\* The run, from the cleanup of its predecessor to its end.
LEMMA RunStepType ==
  ASSUME TypeOK, NEW w \in Workers,
         \/ ListStale(w) \/ DeleteStale(w) \/ PersistFrames(w) \/ PersistManifest(w)
         \/ Succeed(w) \/ CleanLost(w) \/ Heartbeat(w)
  PROVE  TypeOK'
<1>. USE TypeParts
<1>1. CASE ListStale(w)
  <2>1. WorkerTypeOK'
    BY <1>1, GotoType DEF ListStale, Holding, Running, Failing
  <2>. QED
    BY <1>1, <2>1, SameRowType, SameBrokerType, SameRestType DEF ListStale, Calm, RestTypeOK
<1>2. CASE DeleteStale(w)
  <2>1. WorkerTypeOK'
    <3>1. CASE Goto(w, "transient")
      BY <1>2, <3>1, GotoType DEF DeleteStale, Holding, Running, Failing
    <3>2. CASE /\ pc' = [pc EXCEPT ![w] = "running"]
               /\ stale' = [stale EXCEPT ![w] = 0]
               /\ UNCHANGED <<job, retries, held, polls, seen, run, lost>>
      BY <1>2, <3>2 DEF DeleteStale, WorkerTypeOK, WorkerPC, Holding, Running, Failing
    <3>. QED BY <1>2, <3>1, <3>2 DEF DeleteStale
  <2>2. budget' \in Nat
    BY <1>2, BudgetType DEF DeleteStale, RestTypeOK
  <2>3. RestTypeOK'
    BY <1>2, <2>2 DEF DeleteStale, RestTypeOK
  <2>. QED BY <1>2, <2>1, <2>3, SameRowType, SameBrokerType DEF DeleteStale
<1>3. CASE PersistFrames(w)
  <2>1. pc[w] \in Holding
    BY <1>3 DEF PersistFrames, Holding, Running
  <2>2. WorkerTypeOK'
    BY <1>3, <2>1, GotoType DEF PersistFrames, Holding, Running
  <2>3. RestTypeOK'
    BY <1>3, <2>1, OwnRunType DEF PersistFrames, RestTypeOK, Calm
  <2>. QED BY <1>3, <2>2, <2>3, SameRowType, SameBrokerType DEF PersistFrames
<1>4. CASE PersistManifest(w)
  <2>1. pc[w] \in Holding
    BY <1>4 DEF PersistManifest, Holding, Running
  <2>2. WorkerTypeOK'
    BY <1>4, <2>1, GotoType DEF PersistManifest, Holding, Running
  <2>3. RestTypeOK'
    BY <1>4, <2>1, OwnRunType DEF PersistManifest, RestTypeOK, Calm
  <2>. QED BY <1>4, <2>2, <2>3, SameRowType, SameBrokerType DEF PersistManifest
<1>5. CASE Succeed(w)
  <2>1. pc[w] \in Holding /\ pc[w] # "idle"
    BY <1>5 DEF Succeed, Holding, Running
  <2>2. RowTypeOK'
    BY <1>5, <2>1, OwnRunType, SucceedType, SameRowType DEF Succeed
  <2>3. WorkerTypeOK'
    BY <1>5, <2>1, SettleType, GotoType DEF Succeed, Holding
  <2>. QED
    BY <1>5, <2>2, <2>3, SameBrokerType, SameRestType DEF Succeed, Calm, RestTypeOK
<1>6. CASE CleanLost(w)
  <2>1. WorkerTypeOK'
    BY <1>6, SettleType DEF CleanLost
  <2>2. budget' \in Nat
    BY <1>6, BudgetType DEF CleanLost, RestTypeOK
  <2>3. RestTypeOK'
    BY <1>6, <2>2 DEF CleanLost, Removed, RestTypeOK
  <2>. QED BY <1>6, <2>1, <2>3, SameRowType, SameBrokerType DEF CleanLost
<1>7. CASE Heartbeat(w)
  <2>1. pc[w] \in Holding
    BY <1>7 DEF Heartbeat, Beating, Holding, Running
  <2>2. RowTypeOK'
    BY <1>7, <2>1, OwnRunType, SetLeaseType, SameRowType DEF Heartbeat
  <2>3. WorkerTypeOK'
    BY <1>7, <2>1 DEF Heartbeat, WorkerTypeOK
  <2>. QED
    BY <1>7, <2>2, <2>3, SameBrokerType, SameRestType DEF Heartbeat, Calm, RestTypeOK
<1>. QED BY <1>1, <1>2, <1>3, <1>4, <1>5, <1>6, <1>7

\* The outcome of a run and of its message.
LEMMA OutcomeStepType ==
  ASSUME TypeOK, NEW w \in Workers,
         \/ FailPermanent(w) \/ Release(w) \/ RetrySend(w) \/ FailQueued(w)
         \/ SettleMessage(w)
  PROVE  TypeOK'
<1>. USE TypeParts
<1>1. CASE FailPermanent(w)
  <2>1. job[w] \in Jobs
    BY <1>1, BusyWorker DEF FailPermanent
  <2>2. RowTypeOK'
    BY <1>1, <2>1, FailType, SameRowType DEF FailPermanent
  <2>3. WorkerTypeOK'
    BY <1>1, SettleType DEF FailPermanent
  <2>. QED
    BY <1>1, <2>2, <2>3, SameBrokerType, SameRestType DEF FailPermanent, Calm, RestTypeOK
<1>2. CASE Release(w)
  <2>1. job[w] \in Jobs
    BY <1>2, BusyWorker DEF Release
  <2>2. RowTypeOK'
    BY <1>2, <2>1, ReleaseType, SameRowType DEF Release
  <2>3. WorkerTypeOK'
    BY <1>2, SettleType DEF Release, AfterRelease, AfterLostRelease
  <2>. QED
    BY <1>2, <2>2, <2>3, SameBrokerType, SameRestType DEF Release, Calm, RestTypeOK
<1>3. CASE RetrySend(w)
  <2>1. <<job[w], retries[w] + 1>> \in Messages
    BY <1>3, BusyWorker DEF RetrySend, WorkerTypeOK
  <2>2. ready' \in [Messages -> Nat]
    BY <1>3, <2>1, QueueType DEF RetrySend, BrokerTypeOK
  <2>3. BrokerTypeOK'
    BY <1>3, <2>2 DEF RetrySend, BrokerTypeOK, outboxVars
  <2>4. WorkerTypeOK'
    BY <1>3, SettleType DEF RetrySend
  <2>. QED
    BY <1>3, <2>3, <2>4, SameRowType, SameRestType DEF RetrySend, Calm, RestTypeOK
<1>4. CASE FailQueued(w)
  <2>1. job[w] \in Jobs
    BY <1>4, BusyWorker DEF FailQueued
  <2>2. RowTypeOK'
    BY <1>4, <2>1, FailType, SameRowType DEF FailQueued
  <2>3. WorkerTypeOK'
    BY <1>4, SettleType DEF FailQueued
  <2>. QED
    BY <1>4, <2>2, <2>3, SameBrokerType, SameRestType DEF FailQueued, Calm, RestTypeOK
<1>5. CASE SettleMessage(w)
  <2>1. WorkerTypeOK'
    BY <1>5, IdleType DEF SettleMessage
  <2>. QED
    BY <1>5, <2>1, SameRowType, SameBrokerType, SameRestType
    DEF SettleMessage, Calm, RestTypeOK
<1>. QED BY <1>1, <1>2, <1>3, <1>4, <1>5

\* What goes wrong with a worker.
LEMMA DisturbanceType ==
  ASSUME TypeOK, NEW w \in Workers, Disturbance(w)
  PROVE  TypeOK'
<1>. USE TypeParts
<1>1. CASE ClaimTooEarly(w)
  <2>1. Message(w) \in Messages /\ job[w] \in Jobs
    BY <1>1, BusyWorker DEF ClaimTooEarly
  <2>2. ready' \in [Messages -> Nat]
    <3>1. retries[w] < MaxRetries => <<job[w], retries[w] + 1>> \in Messages
      BY <2>1 DEF WorkerTypeOK
    <3>2. /\ Put(ready, Message(w)) \in [Messages -> Nat]
          /\ retries[w] < MaxRetries =>
               Put(ready, <<job[w], retries[w] + 1>>) \in [Messages -> Nat]
      BY <2>1, <3>1, QueueType DEF BrokerTypeOK
    <3>. QED BY <1>1, <3>2 DEF ClaimTooEarly, BrokerTypeOK
  <2>3. BrokerTypeOK'
    BY <1>1, <2>2 DEF ClaimTooEarly, BrokerTypeOK, outboxVars
  <2>4. WorkerTypeOK'
    <3>1. CASE Settle(w, "done")
      BY <1>1, <3>1, SettleType DEF ClaimTooEarly
    <3>2. CASE Idle(w)
      BY <3>2, IdleType
    <3>3. CASE /\ polls[w] < PollLimit
               /\ polls' = [polls EXCEPT ![w] = @ + 1]
               /\ UNCHANGED <<ready, pc, job, retries, held, seen, stale, run, lost>>
      <4>1. polls[w] + 1 \in 0..PollLimit
        BY <3>3 DEF WorkerTypeOK
      <4>. QED BY <3>3, <4>1 DEF WorkerTypeOK
    <3>. QED BY <1>1, <3>1, <3>2, <3>3 DEF ClaimTooEarly
  <2>5. budget' \in Nat
    BY <1>1, BudgetType DEF ClaimTooEarly, RestTypeOK
  <2>. QED BY <1>1, <2>3, <2>4, <2>5, SameRowType, SameRestType DEF ClaimTooEarly
<1>2. CASE SucceedAmbiguous(w)
  <2>1. pc[w] \in Holding
    BY <1>2 DEF SucceedAmbiguous, Holding, Running
  <2>2. RowTypeOK'
    BY <1>2, <2>1, OwnRunType, SucceedType DEF SucceedAmbiguous
  <2>3. WorkerTypeOK'
    BY <1>2, <2>1, GotoType DEF SucceedAmbiguous, Holding, Failing
  <2>4. budget' \in Nat
    BY <1>2, BudgetType DEF SucceedAmbiguous, RestTypeOK
  <2>. QED BY <1>2, <2>2, <2>3, <2>4, SameBrokerType, SameRestType DEF SucceedAmbiguous
<1>3. CASE RunFails(w)
  <2>1. WorkerTypeOK'
    BY <1>3, GotoType DEF RunFails, Holding, Running, Failing
  <2>2. budget' \in Nat
    BY <1>3, BudgetType DEF RunFails, RestTypeOK
  <2>. QED BY <1>3, <2>1, <2>2, SameRowType, SameBrokerType, SameRestType DEF RunFails
<1>4. CASE UploadFails(w)
  <2>1. pc[w] \in Holding
    BY <1>4 DEF UploadFails, Holding, Running
  <2>2. WorkerTypeOK'
    BY <1>4, GotoType DEF UploadFails, Holding, Running, Failing
  <2>3. budget' \in Nat
    BY <1>4, BudgetType DEF UploadFails, RestTypeOK
  <2>4. RestTypeOK'
    BY <1>4, <2>1, <2>3, OwnRunType DEF UploadFails, RestTypeOK
  <2>. QED BY <1>4, <2>2, <2>4, SameRowType, SameBrokerType DEF UploadFails
<1>5. CASE RetrySendFails(w) \/ DbError(w) \/ SoftTimeout(w)
  <2>1. WorkerTypeOK'
    BY <1>5, SettleType DEF RetrySendFails, DbError, SoftTimeout, Failing
  <2>2. budget' \in Nat
    BY <1>5, BudgetType DEF RetrySendFails, DbError, SoftTimeout, RestTypeOK
  <2>. QED
    BY <1>5, <2>1, <2>2, SameRowType, SameBrokerType, SameRestType
    DEF RetrySendFails, DbError, SoftTimeout
<1>6. CASE WorkerLost(w) \/ HostCrash(w) \/ HardTimeout(w)
  <2>1. WorkerTypeOK'
    BY <1>6, IdleType DEF WorkerLost, HostCrash, HardTimeout
  <2>2. BrokerTypeOK'
    <3>1. CASE WorkerLost(w) \/ HostCrash(w)
      <4>1. Message(w) \in Messages
        BY <3>1, BusyWorker DEF WorkerLost, HostCrash
      <4>2. ready' \in [Messages -> Nat] /\ limbo' \in [Messages -> Nat]
        <5>1. /\ Put(ready, Message(w)) \in [Messages -> Nat]
              /\ Put(limbo, Message(w)) \in [Messages -> Nat]
          BY <4>1, QueueType DEF BrokerTypeOK
        <5>. QED BY <3>1, <5>1 DEF WorkerLost, HostCrash, BrokerTypeOK
      <4>. QED BY <3>1, <4>2 DEF WorkerLost, HostCrash, BrokerTypeOK, outboxVars
    <3>. QED BY <1>6, <3>1, SameBrokerType DEF HardTimeout
  <2>3. budget' \in Nat
    BY <1>6, BudgetType DEF WorkerLost, HostCrash, HardTimeout, RestTypeOK
  <2>. QED
    BY <1>6, <2>1, <2>2, <2>3, SameRowType, SameRestType
    DEF WorkerLost, HostCrash, HardTimeout
<1>7. CASE Overstay(w)
  <2>1. Message(w) \in Messages
    BY <1>7, BusyWorker DEF Overstay
  <2>2. ready' \in [Messages -> Nat]
    BY <1>7, <2>1, QueueType DEF Overstay, BrokerTypeOK
  <2>3. BrokerTypeOK'
    BY <1>7, <2>2 DEF Overstay, BrokerTypeOK, outboxVars
  <2>4. WorkerTypeOK'
    BY <1>7 DEF Overstay, WorkerTypeOK, memory
  <2>5. budget' \in Nat
    BY <1>7, BudgetType DEF Overstay, RestTypeOK
  <2>. QED BY <1>7, <2>3, <2>4, <2>5, SameRowType, SameRestType DEF Overstay
<1>. QED BY <1>1, <1>2, <1>3, <1>4, <1>5, <1>6, <1>7 DEF Disturbance

LEMMA TypeStutter == TypeOK /\ UNCHANGED pipelineVars => TypeOK'
BY SameRowType, SameBrokerType, SameWorkerType, SameRestType, TypeParts
   DEF pipelineVars, RestTypeOK

\* Every value stays in its range; a row has a token and a lease exactly while it is
\* RUNNING; a worker that holds a run knows its job and its token.
THEOREM TypeCorrect == Spec => []TypeOK
<1>1. TypeOK /\ [Next]_pipelineVars => TypeOK'
  <2>. SUFFICES ASSUME TypeOK, [Next]_pipelineVars PROVE TypeOK'
    OBVIOUS
  <2>1. ASSUME NEW w \in Workers, WorkerStep(w) PROVE TypeOK'
    BY <2>1, ClaimStepType, RunStepType, OutcomeStepType DEF WorkerStep
  <2>. QED
    BY <2>1, TypeStutter, PublishingType, RowStepType, BrokerStepType, RunStepType,
       DisturbanceType
    DEF Next
<1>. QED BY TypeInit, <1>1, PTL DEF Spec

-----------------------------------------------------------------------------
(* The inductive invariant *)

\* A run token is drawn once and none runs ahead of the attempt counter; a run
\* replaces an earlier one.
RunsBounded ==
  \A w \in Workers :
    /\ pc[w] = "update" => stale[w] <= attempt[job[w]]
    /\ pc[w] \in Holding => run[w] <= attempt[job[w]]
    /\ pc[w] \in {"listing", "deleting"} => stale[w] < run[w]

\* No two workers hold the same run.
RunsDistinct ==
  \A v, w \in Workers :
    v # w /\ pc[v] \in Holding /\ pc[w] \in Holding /\ job[v] = job[w] => run[v] # run[w]

\* The run that owns a job is the latest one.
OwnerIsLatest == \A j \in Jobs : token[j] # 0 => token[j] = attempt[j]

\* What a run that still owns its job has uploaded is there.
OwnerUploaded ==
  \A w \in Workers : pc[w] \in {"frames", "persisted"} /\ Owns(w) =>
    /\ OwnRun(w) \in frames
    /\ pc[w] = "persisted" => OwnRun(w) \in manifests

\* A success refers to the latest run, and its artifacts are complete.
SuccessIsLatest ==
  \A j \in Jobs : IF status[j] = "SUCCEEDED"
                  THEN /\ result[j] = attempt[j] /\ result[j] # 0
                       /\ <<j, result[j]>> \in frames \cap manifests
                  ELSE result[j] = 0

\* A run that may still delete its own artifacts is not the one that succeeded.
CleanersUnpublished ==
  \A w \in Workers : pc[w] \in Running \cup {"lost"} /\ status[job[w]] = "SUCCEEDED" =>
    result[job[w]] # run[w]

Inv == /\ RunsBounded /\ RunsDistinct /\ OwnerIsLatest
       /\ OwnerUploaded /\ SuccessIsLatest /\ CleanersUnpublished

LEMMA InvInit == Init => Inv
BY DEF Init, Inv, RunsBounded, RunsDistinct, OwnerIsLatest, OwnerUploaded,
       SuccessIsLatest, CleanersUnpublished, Holding, Running, Failing

(* What most steps do to the rows, the stores and the workers. *)

\* No row is claimed, succeeds or is taken back from a success.
RowsKept ==
  /\ UNCHANGED <<attempt, result>>
  /\ \A j \in Jobs : /\ token'[j] # 0 => token'[j] = token[j]
                     /\ (status'[j] = "SUCCEEDED") <=> (status[j] = "SUCCEEDED")

WorkerKept(v) == pc'[v] = pc[v] /\ job'[v] = job[v] /\ run'[v] = run[v] /\ stale'[v] = stale[v]

\* The artifacts of a success and those another worker's run needs stay.
ArtifactsKept(w) ==
  /\ \A j \in Jobs : status[j] = "SUCCEEDED" =>
       (<<j, result[j]>> \in frames \cap manifests
          => <<j, result[j]>> \in frames' \cap manifests')
  /\ \A v \in Workers \ {w} : pc[v] \in {"frames", "persisted"} /\ Owns(v) =>
       /\ OwnRun(v) \in frames => OwnRun(v) \in frames'
       /\ OwnRun(v) \in manifests => OwnRun(v) \in manifests'

\* The worker drops its run or takes it one stage further.
Advances(w) ==
  \/ pc'[w] \notin Holding \cup {"update"}
  \/ /\ pc[w] \in Holding /\ pc'[w] \in Holding
     /\ job'[w] = job[w] /\ run'[w] = run[w]
     /\ pc'[w] \in {"listing", "deleting"} =>
          pc[w] \in {"listing", "deleting"} /\ stale'[w] = stale[w]
     /\ pc'[w] \in Running \cup {"lost"} => pc[w] \in Running \cup {"lost"}
     /\ pc'[w] \in {"frames", "persisted"} /\ Owns(w) =>
          /\ OwnRun(w) \in frames'
          /\ pc'[w] = "persisted" => OwnRun(w) \in manifests'

LEMMA Advance ==
  ASSUME TypeOK, TypeOK', Inv, RowsKept, NEW w \in Workers,
         \A v \in Workers \ {w} : WorkerKept(v), ArtifactsKept(w), Advances(w)
  PROVE  Inv'
<1>. USE DEF RowsKept, WorkerKept
<1>0. ASSUME NEW v \in Workers, pc'[v] # "idle", job'[v] = job[v], run'[v] = run[v], Owns(v)',
             run[v] # 0
      PROVE  Owns(v)
  BY <1>0 DEF Owns, TypeOK, RowTypeOK, WorkerTypeOK
<1>1. RunsBounded'
  <2>. SUFFICES ASSUME NEW v \in Workers
                PROVE  /\ pc'[v] = "update" => stale'[v] <= attempt'[job'[v]]
                       /\ pc'[v] \in Holding => run'[v] <= attempt'[job'[v]]
                       /\ pc'[v] \in {"listing", "deleting"} => stale'[v] < run'[v]
    BY DEF RunsBounded
  <2>1. CASE v # w
    BY <2>1 DEF Inv, RunsBounded
  <2>2. CASE v = w
    BY <2>2 DEF Inv, RunsBounded, Advances, Holding, Running, Failing
  <2>. QED BY <2>1, <2>2
<1>2. RunsDistinct'
  BY DEF Inv, RunsDistinct, Advances
<1>3. OwnerIsLatest'
  BY DEF Inv, OwnerIsLatest
<1>4. OwnerUploaded'
  <2>. SUFFICES ASSUME NEW v \in Workers, pc'[v] \in {"frames", "persisted"}, Owns(v)'
                PROVE  /\ OwnRun(v)' \in frames'
                       /\ pc'[v] = "persisted" => OwnRun(v)' \in manifests'
    BY DEF OwnerUploaded
  <2>1. pc'[v] \in Holding /\ pc'[v] # "idle" /\ run'[v] # 0
    BY DEF Holding, Running, TypeOK, WorkerTypeOK
  <2>2. CASE v = w
    BY <1>0, <2>1, <2>2 DEF Advances, OwnRun
  <2>3. CASE v # w
    <3>1. Owns(v)
      BY <1>0, <2>1, <2>3
    <3>. QED BY <2>3, <3>1 DEF Inv, OwnerUploaded, ArtifactsKept, OwnRun
  <2>. QED BY <2>2, <2>3
<1>5. SuccessIsLatest'
  BY DEF Inv, SuccessIsLatest, ArtifactsKept
<1>6. CleanersUnpublished'
  <2>. SUFFICES ASSUME NEW v \in Workers, pc'[v] \in Running \cup {"lost"},
                       status'[job'[v]] = "SUCCEEDED"
                PROVE  result'[job'[v]] # run'[v]
    BY DEF CleanersUnpublished
  <2>1. pc[v] \in Running \cup {"lost"} /\ job'[v] = job[v] /\ run'[v] = run[v]
    BY DEF Advances, Holding, Running, Failing
  <2>2. job[v] \in Jobs
    BY <2>1 DEF TypeOK, WorkerTypeOK, Running
  <2>. QED BY <2>1, <2>2 DEF Inv, CleanersUnpublished
<1>. QED BY <1>1, <1>2, <1>3, <1>4, <1>5, <1>6 DEF Inv

\* A step of nobody in particular, or one that touches nothing the invariant mentions.
LEMMA Untouched ==
  ASSUME TypeOK, TypeOK', Inv, RowsKept,
         UNCHANGED <<pc, job, run, stale, storeVars>>
  PROVE  Inv'
<1>. USE DEF RowsKept, storeVars
<1>0. ASSUME NEW v \in Workers, pc[v] \in {"frames", "persisted"}, Owns(v)'
      PROVE  Owns(v)
  BY <1>0 DEF Owns, TypeOK, RowTypeOK, WorkerTypeOK, Holding, Running
<1>1. RunsBounded' /\ RunsDistinct'
  BY DEF Inv, RunsBounded, RunsDistinct
<1>2. OwnerIsLatest'
  BY DEF Inv, OwnerIsLatest
<1>3. OwnerUploaded'
  BY <1>0 DEF Inv, OwnerUploaded, OwnRun
<1>4. SuccessIsLatest'
  BY DEF Inv, SuccessIsLatest
<1>5. CleanersUnpublished'
  <2>1. \A v \in Workers : pc[v] \in Running \cup {"lost"} => job[v] \in Jobs
    BY DEF TypeOK, WorkerTypeOK, Running
  <2>. QED BY <2>1 DEF Inv, CleanersUnpublished
<1>. QED BY <1>1, <1>2, <1>3, <1>4, <1>5 DEF Inv

(* Which steps keep the rows, keep the artifacts and advance a worker. *)

LEMMA RowsKeptBy ==
  ASSUME TypeOK
  PROVE  /\ UNCHANGED jobVars => RowsKept
         /\ \A j \in Jobs, l \in {"live", "expired"} : SetLease(j, l) => RowsKept
         /\ \A j \in Jobs, s \in {"PENDING_DISPATCH", "QUEUED"} :
              SetStatus(j, s) /\ status[j] # "SUCCEEDED" => RowsKept
         /\ \A j \in Jobs : ReleaseRow(j) /\ status[j] # "SUCCEEDED" => RowsKept
         /\ \A j \in Jobs, c \in {"transient", "permanent"} :
              FailRow(j, c) /\ status[j] # "SUCCEEDED" => RowsKept
BY DEF RowsKept, jobVars, SetLease, SetStatus, ReleaseRow, FailRow, LeaveRunning,
       TypeOK, RowTypeOK

LEMMA LeavesRun ==
  ASSUME TypeOK, NEW w \in Workers,
         Idle(w) \/ \E p \in {"released", "done"} : Settle(w, p)
  PROVE  Advances(w) /\ \A v \in Workers \ {w} : WorkerKept(v)
BY DEF TypeOK, WorkerTypeOK, Idle, Settle, ForgetRun, Advances, WorkerKept,
       Holding, Running, Failing

LEMMA GoesOn ==
  ASSUME TypeOK, NEW w \in Workers, NEW p \in Failing \cup {"lost", "deleting"}, Goto(w, p),
         pc[w] \in Running, p = "deleting" => pc[w] = "listing"
  PROVE  Advances(w) /\ \A v \in Workers \ {w} : WorkerKept(v)
BY DEF TypeOK, WorkerTypeOK, Goto, memory, Advances, WorkerKept, Holding, Running, Failing

LEMMA StoresGrow ==
  ASSUME frames \subseteq frames', manifests \subseteq manifests', NEW w
  PROVE  ArtifactsKept(w)
BY DEF ArtifactsKept

\* Deleting one's own artifacts harms no success and no other run.
LEMMA RemovesOwn ==
  ASSUME TypeOK, Inv, NEW w \in Workers, pc[w] \in Running \cup {"lost"},
         frames \ {OwnRun(w)} \subseteq frames', manifests \ {OwnRun(w)} \subseteq manifests'
  PROVE  ArtifactsKept(w)
<1>1. \A j \in Jobs : status[j] = "SUCCEEDED" => <<j, result[j]>> # OwnRun(w)
  BY DEF Inv, CleanersUnpublished, OwnRun
<1>2. \A v \in Workers \ {w} : pc[v] \in {"frames", "persisted"} => OwnRun(v) # OwnRun(w)
  BY DEF Inv, RunsDistinct, OwnRun, Holding, Running
<1>. QED BY <1>1, <1>2 DEF ArtifactsKept

\* Deleting what a lapsed run left behind harms no success and no run that owns its
\* job: both are the job's latest attempt, a lapsed run was superseded.
LEMMA RemovesStale ==
  ASSUME TypeOK, Inv, NEW w \in Workers, pc[w] = "deleting",
         frames \ {StaleRun(w)} \subseteq frames', manifests \subseteq manifests'
  PROVE  ArtifactsKept(w)
<1>1. /\ stale[w] < run[w] /\ run[w] <= attempt[job[w]] /\ job[w] \in Jobs
      /\ stale[w] \in Int /\ run[w] \in Int /\ attempt[job[w]] \in Int
  BY BusyWorker DEF Inv, RunsBounded, Holding, Running, TypeOK, WorkerTypeOK, RowTypeOK
<1>2. stale[w] # attempt[job[w]]
  BY <1>1
<1>3. \A j \in Jobs : status[j] = "SUCCEEDED" => <<j, result[j]>> # StaleRun(w)
  BY <1>2 DEF Inv, SuccessIsLatest, StaleRun
<1>4. ASSUME NEW v \in Workers, pc[v] \in {"frames", "persisted"}, Owns(v)
      PROVE  OwnRun(v) # StaleRun(w)
  <2>1. job[v] \in Jobs /\ run[v] # 0
    BY <1>4 DEF TypeOK, WorkerTypeOK, Holding, Running
  <2>2. run[v] = attempt[job[v]]
    BY <1>4, <2>1 DEF Owns, Inv, OwnerIsLatest
  <2>. QED BY <1>2, <2>2 DEF OwnRun, StaleRun
<1>. QED BY <1>3, <1>4 DEF ArtifactsKept

(* The steps that begin a run or complete it. *)

LEMMA ClaimInv ==
  ASSUME TypeOK, TypeOK', Inv, NEW w \in Workers, ClaimRead(w) \/ ClaimUpdate(w)
  PROVE  Inv'
<1>0. job[w] \in Jobs
  BY BusyWorker DEF TypeOK, ClaimRead, ClaimUpdate
<1>1. CASE ClaimRead(w)
  <2>1. CASE Claimable(job[w])
    <3>. USE <1>0, <1>1, <2>1 DEF ClaimRead, jobVars, storeVars
    <3>1. stale'[w] <= attempt'[job'[w]]
      BY DEF Inv, OwnerIsLatest, TypeOK, RowTypeOK, WorkerTypeOK
    <3>2. RunsBounded'
      BY <3>1 DEF Inv, RunsBounded, TypeOK, WorkerTypeOK, Holding, Running, Failing
    <3>3. RunsDistinct'
      BY DEF Inv, RunsDistinct, TypeOK, WorkerTypeOK, Holding, Running, Failing
    <3>4. OwnerIsLatest' /\ SuccessIsLatest'
      BY DEF Inv, OwnerIsLatest, SuccessIsLatest
    <3>5. OwnerUploaded'
      BY DEF Inv, OwnerUploaded, Owns, OwnRun, TypeOK, WorkerTypeOK
    <3>6. CleanersUnpublished'
      BY DEF Inv, CleanersUnpublished, TypeOK, WorkerTypeOK, Running
    <3>. QED BY <3>2, <3>3, <3>4, <3>5, <3>6 DEF Inv
  <2>2. CASE ~Claimable(job[w])
    BY <1>1, <2>2, Advance, RowsKeptBy, LeavesRun, StoresGrow DEF ClaimRead, storeVars
  <2>. QED BY <2>1, <2>2
<1>2. CASE ClaimUpdate(w)
  <2>1. CASE ClaimMatches(w)
    <3>. USE <1>0, <1>2, <2>1 DEF ClaimUpdate, ClaimRow, storeVars
    <3>0. status[job[w]] # "SUCCEEDED" /\ attempt[job[w]] \in Nat
      BY DEF ClaimMatches, Claimable, TypeOK, RowTypeOK
    <3>1. RunsBounded'
      <4>. SUFFICES ASSUME NEW v \in Workers
                    PROVE  /\ pc'[v] = "update" => stale'[v] <= attempt'[job'[v]]
                           /\ pc'[v] \in Holding => run'[v] <= attempt'[job'[v]]
                           /\ pc'[v] \in {"listing", "deleting"} => stale'[v] < run'[v]
        BY DEF RunsBounded
      <4>1. /\ pc[v] # "idle" => job[v] \in Jobs /\ attempt[job[v]] \in Nat
            /\ stale[v] \in Nat /\ run[v] \in Nat
        BY DEF TypeOK, WorkerTypeOK, RowTypeOK
      <4>2. pc[v] # "idle" => /\ attempt'[job[v]] \in Nat
                              /\ attempt[job[v]] <= attempt'[job[v]]
        BY <3>0, <4>1 DEF TypeOK, RowTypeOK
      <4>3. CASE v = w
        BY <3>0, <4>1, <4>3
        DEF Inv, RunsBounded, CleansFirst, TypeOK, WorkerTypeOK, RowTypeOK, Holding, Running
      <4>4. CASE v # w
        <5>1. /\ pc'[v] = pc[v] /\ job'[v] = job[v] /\ run'[v] = run[v] /\ stale'[v] = stale[v]
          BY <4>4 DEF TypeOK, WorkerTypeOK
        <5>2. /\ pc[v] = "update" => stale[v] <= attempt[job[v]]
              /\ pc[v] \in Holding => run[v] <= attempt[job[v]] /\ pc[v] # "idle"
              /\ pc[v] \in {"listing", "deleting"} => stale[v] < run[v]
          BY DEF Inv, RunsBounded, Holding, Running, Failing
        <5>. QED BY <4>1, <4>2, <5>1, <5>2
      <4>. QED BY <4>3, <4>4
    <3>2. RunsDistinct'
      <4>1. job'[w] = job[w] /\ run'[w] = attempt[job[w]] + 1
        BY DEF TypeOK, WorkerTypeOK
      <4>2. ASSUME NEW v \in Workers \ {w}, pc'[v] \in Holding
            PROVE  job'[v] # job'[w] \/ run'[v] # run'[w]
        <5>1. pc'[v] = pc[v] /\ job'[v] = job[v] /\ run'[v] = run[v]
          BY DEF TypeOK, WorkerTypeOK
        <5>2. run[v] <= attempt[job[v]] /\ run[v] \in Nat
          BY <4>2, <5>1 DEF Inv, RunsBounded, TypeOK, WorkerTypeOK
        <5>. QED BY <3>0, <4>1, <5>1, <5>2
      <4>3. ASSUME NEW u \in Workers \ {w}
            PROVE  pc'[u] = pc[u] /\ job'[u] = job[u] /\ run'[u] = run[u]
        BY DEF TypeOK, WorkerTypeOK
      <4>. QED BY <4>2, <4>3 DEF Inv, RunsDistinct
    <3>3. OwnerIsLatest'
      BY DEF Inv, OwnerIsLatest, TypeOK, RowTypeOK
    <3>4. OwnerUploaded'
      BY <3>0 DEF Inv, OwnerUploaded, RunsBounded, Owns, OwnRun, TypeOK, RowTypeOK, WorkerTypeOK, Holding, Running
    <3>5. SuccessIsLatest'
      BY <3>0 DEF Inv, SuccessIsLatest, TypeOK, RowTypeOK
    <3>6. CleanersUnpublished'
      BY <3>0 DEF Inv, CleanersUnpublished, TypeOK, RowTypeOK, WorkerTypeOK, Running
    <3>. QED BY <3>1, <3>2, <3>3, <3>4, <3>5, <3>6 DEF Inv
  <2>2. CASE ~ClaimMatches(w)
    BY <1>2, <2>2, Advance, RowsKeptBy, LeavesRun, StoresGrow DEF ClaimUpdate, storeVars
  <2>. QED BY <2>1, <2>2
<1>. QED BY <1>1, <1>2

\* A completion turns the owner's run, whose artifacts are there, into the success.
LEMMA CompletionInv ==
  ASSUME TypeOK, TypeOK', Inv, NEW w \in Workers, pc[w] = "persisted", MayComplete(w),
         SucceedRow(job[w], run[w]), UNCHANGED storeVars,
         Settle(w, "done") \/ Goto(w, "transient")
  PROVE  Inv'
<1>0. /\ job[w] \in Jobs /\ run[w] # 0 /\ run[w] = attempt[job[w]] /\ OwnRun(w) \in frames \cap manifests
      /\ token[job[w]] = run[w] /\ status[job[w]] = "RUNNING"
  BY BusyWorker DEF TypeOK, WorkerTypeOK, Holding, Running, MayComplete, Owns, Inv, OwnerIsLatest,
                    OwnerUploaded
<1>1. /\ UNCHANGED job /\ pc' = [pc EXCEPT ![w] = pc'[w]] /\ pc'[w] \in {"done", "transient"}
      /\ \A v \in Workers \ {w} : WorkerKept(v)
      /\ pc'[w] = "transient" => run'[w] = run[w]
  BY DEF Settle, ForgetRun, Goto, memory, TypeOK, WorkerTypeOK, WorkerKept
<1>. USE <1>0, <1>1 DEF SucceedRow, LeaveRunning, storeVars, WorkerKept
<1>2. RunsBounded'
  BY DEF Inv, RunsBounded, TypeOK, WorkerTypeOK, Holding, Running, Failing
<1>3. RunsDistinct'
  BY DEF Inv, RunsDistinct, TypeOK, WorkerTypeOK, Holding, Running, Failing
<1>4. OwnerIsLatest'
  BY DEF Inv, OwnerIsLatest, TypeOK, RowTypeOK
<1>5. OwnerUploaded'
  BY DEF Inv, OwnerUploaded, Owns, OwnRun, TypeOK, RowTypeOK, WorkerTypeOK, Holding, Running
<1>6. SuccessIsLatest'
  BY DEF Inv, SuccessIsLatest, OwnRun, TypeOK, RowTypeOK
<1>7. CleanersUnpublished'
  <2>. SUFFICES ASSUME NEW v \in Workers, pc'[v] \in Running \cup {"lost"},
                       status'[job[v]] = "SUCCEEDED"
                PROVE  result'[job[v]] # run'[v]
    BY DEF CleanersUnpublished
  <2>1. v # w
    BY DEF Running, TypeOK, WorkerTypeOK
  <2>2. pc[v] \in Running \cup {"lost"} /\ run'[v] = run[v] /\ job[v] \in Jobs
    BY <2>1 DEF Running, TypeOK, WorkerTypeOK
  <2>3. CASE job[v] = job[w]
    BY <2>1, <2>2, <2>3 DEF Inv, RunsDistinct, TypeOK, RowTypeOK, Holding, Running
  <2>4. CASE job[v] # job[w]
    BY <2>2, <2>4 DEF Inv, CleanersUnpublished, TypeOK, RowTypeOK
  <2>. QED BY <2>3, <2>4
<1>. QED BY <1>2, <1>3, <1>4, <1>5, <1>6, <1>7 DEF Inv

(* The other steps. *)

LEMMA SystemInv ==
  ASSUME TypeOK, TypeOK', Inv,
         \/ Publishing \/ BrokerLoss
         \/ \E j \in Jobs : CreateJob(j) \/ LeaseExpires(j)
         \/ \E p \in Publishers : PublishRollback(p)
         \/ \E m \in Messages : VisibilityTimeout(m)
         \/ \E w \in Workers : Heartbeat(w) \/ Overstay(w)
         \/ UNCHANGED pipelineVars
  PROVE  Inv'
<1>. USE Untouched, RowsKeptBy DEF workerVars, memory
<1>1. CASE BrokerLoss \/ UNCHANGED pipelineVars
  BY <1>1 DEF BrokerLoss, pipelineVars
<1>2. ASSUME NEW p \in Publishers, PublishSend(p) \/ PublishRollback(p) PROVE Inv'
  BY <1>2 DEF PublishSend, PublishRollback
<1>3. ASSUME NEW p \in Publishers, PublishCommit(p) PROVE Inv'
  <2>1. sending[p] \in Jobs
    BY <1>3 DEF PublishCommit, TypeOK, BrokerTypeOK
  <2>. QED BY <1>3, <2>1 DEF PublishCommit
<1>4. ASSUME NEW j \in Jobs, CreateJob(j) \/ LeaseExpires(j) PROVE Inv'
  BY <1>4 DEF CreateJob, LeaseExpires
<1>5. ASSUME NEW m \in Messages, VisibilityTimeout(m) PROVE Inv'
  BY <1>5 DEF VisibilityTimeout
<1>6. ASSUME NEW w \in Workers, Heartbeat(w) \/ Overstay(w) PROVE Inv'
  <2>1. Heartbeat(w) => job[w] \in Jobs
    BY BusyWorker DEF Heartbeat, Beating, TypeOK
  <2>. QED BY <1>6, <2>1 DEF Heartbeat, Overstay
<1>. QED BY <1>1, <1>2, <1>3, <1>4, <1>5, <1>6 DEF Publishing

LEMMA DeliverInv ==
  ASSUME TypeOK, TypeOK', Inv, NEW w \in Workers, NEW m \in Messages, Deliver(w, m)
  PROVE  Inv'
<1>1. Advances(w) /\ \A v \in Workers \ {w} : WorkerKept(v)
  BY DEF Deliver, Advances, WorkerKept, memory, TypeOK, WorkerTypeOK, Holding, Running, Failing
<1>. QED BY <1>1, Advance, RowsKeptBy, StoresGrow DEF Deliver, storeVars

LEMMA RunInv ==
  ASSUME TypeOK, TypeOK', Inv, NEW w \in Workers,
         \/ ListStale(w) \/ DeleteStale(w) \/ PersistFrames(w) \/ PersistManifest(w)
         \/ Succeed(w) \/ CleanLost(w)
  PROVE  Inv'
<1>. USE Advance, RowsKeptBy
<1>1. CASE ListStale(w)
  BY <1>1, GoesOn, StoresGrow DEF ListStale, storeVars, Running, Failing
<1>2. CASE DeleteStale(w)
  <2>1. ArtifactsKept(w)
    BY <1>2, RemovesStale DEF DeleteStale
  <2>2. Advances(w) /\ \A v \in Workers \ {w} : WorkerKept(v)
    <3>1. CASE Goto(w, "transient")
      BY <1>2, <3>1, GoesOn DEF DeleteStale, Running, Failing
    <3>2. CASE /\ pc' = [pc EXCEPT ![w] = "running"]
               /\ stale' = [stale EXCEPT ![w] = 0]
               /\ UNCHANGED <<job, retries, held, polls, seen, run, lost>>
      BY <1>2, <3>2
      DEF DeleteStale, Advances, WorkerKept, TypeOK, WorkerTypeOK, Holding, Running, Failing
    <3>. QED BY <1>2, <3>1, <3>2 DEF DeleteStale
  <2>. QED BY <1>2, <2>1, <2>2 DEF DeleteStale
<1>3. CASE PersistFrames(w)
  <2>1. Advances(w) /\ \A v \in Workers \ {w} : WorkerKept(v)
    BY <1>3
    DEF PersistFrames, Goto, memory, Advances, WorkerKept, OwnRun, TypeOK, WorkerTypeOK, Holding,
        Running, Failing
  <2>. QED BY <1>3, <2>1, StoresGrow DEF PersistFrames
<1>4. CASE PersistManifest(w)
  <2>1. Owns(w) => OwnRun(w) \in frames
    BY <1>4 DEF PersistManifest, Inv, OwnerUploaded
  <2>2. Advances(w) /\ \A v \in Workers \ {w} : WorkerKept(v)
    BY <1>4, <2>1
    DEF PersistManifest, Goto, memory, Advances, WorkerKept, TypeOK, WorkerTypeOK, Holding, Running,
        Failing
  <2>. QED BY <1>4, <2>2, StoresGrow DEF PersistManifest
<1>5. CASE Succeed(w)
  <2>1. CASE MayComplete(w)
    BY <1>5, <2>1, CompletionInv DEF Succeed
  <2>2. CASE ~MayComplete(w)
    BY <1>5, <2>2, GoesOn, StoresGrow DEF Succeed, storeVars, Running
  <2>. QED BY <2>1, <2>2
<1>6. CASE CleanLost(w)
  <2>1. ArtifactsKept(w)
    BY <1>6, RemovesOwn DEF CleanLost, Removed
  <2>. QED BY <1>6, <2>1, LeavesRun DEF CleanLost
<1>. QED BY <1>1, <1>2, <1>3, <1>4, <1>5, <1>6

LEMMA OutcomeInv ==
  ASSUME TypeOK, TypeOK', Inv, NEW w \in Workers,
         \/ FailPermanent(w) \/ Release(w) \/ RetrySend(w) \/ FailQueued(w)
         \/ SettleMessage(w)
  PROVE  Inv'
<1>1. pc[w] # "idle" /\ job[w] \in Jobs
  BY BusyWorker DEF FailPermanent, Release, RetrySend, FailQueued, SettleMessage, TypeOK
<1>2. RowsKept
  BY <1>1, RowsKeptBy
  DEF FailPermanent, Release, RetrySend, FailQueued, SettleMessage, Owns, Exhausts
<1>3. Advances(w) /\ \A v \in Workers \ {w} : WorkerKept(v)
  BY LeavesRun
  DEF FailPermanent, Release, RetrySend, FailQueued, SettleMessage, AfterRelease, AfterLostRelease
<1>. QED
  BY <1>2, <1>3, Advance, StoresGrow
  DEF FailPermanent, Release, RetrySend, FailQueued, SettleMessage, storeVars

LEMMA DisturbanceInv ==
  ASSUME TypeOK, TypeOK', Inv, NEW w \in Workers, Disturbance(w)
  PROVE  Inv'
<1>. USE RowsKeptBy
<1>1. CASE ClaimTooEarly(w)
  <2>1. CASE Settle(w, "done") \/ Idle(w)
    BY <1>1, <2>1, LeavesRun, Advance, StoresGrow DEF ClaimTooEarly, storeVars
  <2>2. CASE UNCHANGED <<pc, job, run, stale>>
    BY <1>1, <2>2, Untouched DEF ClaimTooEarly
  <2>. QED BY <1>1, <2>1, <2>2 DEF ClaimTooEarly
<1>2. CASE SucceedAmbiguous(w)
  BY <1>2, CompletionInv DEF SucceedAmbiguous
<1>3. CASE RunFails(w)
  <2>1. Advances(w) /\ \A v \in Workers \ {w} : WorkerKept(v)
    BY <1>3, GoesOn DEF RunFails, Running, Failing
  <2>. QED BY <1>3, <2>1, Advance, StoresGrow DEF RunFails, storeVars
<1>4. CASE UploadFails(w)
  <2>1. Advances(w) /\ \A v \in Workers \ {w} : WorkerKept(v)
    BY <1>4, GoesOn DEF UploadFails, Running, Failing
  <2>2. ArtifactsKept(w)
    BY <1>4, RemovesOwn DEF UploadFails, Running
  <2>. QED BY <1>4, <2>1, <2>2, Advance DEF UploadFails
<1>5. CASE RetrySendFails(w) \/ DbError(w) \/ SoftTimeout(w)
  BY <1>5, LeavesRun, Advance, StoresGrow DEF RetrySendFails, DbError, SoftTimeout, storeVars
<1>6. CASE WorkerLost(w) \/ HostCrash(w) \/ HardTimeout(w)
  BY <1>6, LeavesRun, Advance, StoresGrow DEF WorkerLost, HostCrash, HardTimeout, storeVars
<1>7. CASE Overstay(w)
  BY <1>7, SystemInv
<1>. QED BY <1>1, <1>2, <1>3, <1>4, <1>5, <1>6, <1>7 DEF Disturbance

\* Tokens fence: one worker owns a run, what it publishes is uploaded, and no cleanup removes
\* what a row owns or has published (claim() and the writes conditioned on the token).
THEOREM InvHolds == Spec => []Inv
<1>1. TypeOK /\ TypeOK' /\ Inv /\ [Next]_pipelineVars => Inv'
  <2>. SUFFICES ASSUME TypeOK, TypeOK', Inv, [Next]_pipelineVars PROVE Inv'
    OBVIOUS
  <2>1. ASSUME NEW w \in Workers, WorkerStep(w) PROVE Inv'
    BY <2>1, ClaimInv, RunInv, OutcomeInv DEF WorkerStep
  <2>. QED BY <2>1, SystemInv, DeliverInv, DisturbanceInv DEF Next
<1>. QED BY InvInit, TypeCorrect, <1>1, PTL DEF Spec

-----------------------------------------------------------------------------
(* What follows *)

\* A success refers to the complete artifacts of one run, whatever stale, lost and
\* failing runs delete before and after it, for any number of jobs, workers and faults.
THEOREM PublishedResult == Spec => []PublishedResultComplete
<1>1. TypeOK /\ Inv => PublishedResultComplete
  BY DEF Inv, SuccessIsLatest, PublishedResultComplete, TypeOK, RowTypeOK
<1>. QED BY TypeCorrect, InvHolds, <1>1, PTL

-----------------------------------------------------------------------------
(* What a step does to the rows *)

\* Every change of a row, with what makes it legal.
RowChange ==
  \/ UNCHANGED jobVars
  \/ \E j \in Jobs :
       \/ status[j] = "ABSENT" /\ SetStatus(j, "PENDING_DISPATCH")
       \/ status[j] = "PENDING_DISPATCH" /\ SetStatus(j, "QUEUED")
       \/ lease[j] # "none" /\ \E l \in {"live", "expired"} : SetLease(j, l)
       \/ Claimable(j) /\ attempt[j] < MaxAttempts /\ ClaimRow(j)
  \/ \E w \in Workers :
       /\ pc[w] \in Holding /\ pc'[w] # pc[w] /\ Owns(w)
       /\ \/ ReleaseRow(job[w]) \/ FailRow(job[w], "permanent") \/ SucceedRow(job[w], run[w])
  \/ \E w \in Workers :
       /\ pc[w] = "released" /\ retries[w] = MaxRetries /\ Exhausts(job[w])
       /\ FailRow(job[w], "transient")

LEMMA RowChanges ==
  ASSUME TypeOK, [Next]_pipelineVars
  PROVE  RowChange
<1>1. CASE UNCHANGED pipelineVars
  BY <1>1 DEF RowChange, pipelineVars
<1>2. CASE Publishing \/ \E p \in Publishers : PublishRollback(p)
  <2>1. \A p \in Publishers : sending[p] # NoJob => sending[p] \in Jobs
    BY DEF TypeOK, BrokerTypeOK
  <2>. QED
    BY <1>2, <2>1
    DEF Publishing, PublishSend, PublishCommit, PublishRollback, RowChange
<1>3. CASE \E j \in Jobs : CreateJob(j) \/ LeaseExpires(j)
  BY <1>3 DEF CreateJob, LeaseExpires, RowChange
<1>4. CASE \/ BrokerLoss
           \/ \E m \in Messages : VisibilityTimeout(m)
           \/ \E w \in Workers, m \in Messages : Deliver(w, m)
  BY <1>4 DEF BrokerLoss, VisibilityTimeout, Deliver, RowChange
<1>5. ASSUME NEW w \in Workers, WorkerStep(w) \/ Heartbeat(w) \/ Disturbance(w)
      PROVE  RowChange
  <2>0. pc[w] # "idle" => job[w] \in Jobs
    BY BusyWorker DEF TypeOK
  <2>1. CASE \/ ClaimRead(w) \/ ListStale(w) \/ DeleteStale(w) \/ PersistFrames(w)
             \/ PersistManifest(w) \/ CleanLost(w) \/ RetrySend(w) \/ SettleMessage(w)
    BY <2>1
    DEF RowChange, ClaimRead, ListStale, DeleteStale, PersistFrames, PersistManifest, CleanLost,
        RetrySend, SettleMessage
  <2>2. CASE ClaimUpdate(w)
    BY <2>0, <2>2 DEF RowChange, ClaimUpdate, ClaimMatches
  <2>3. CASE Succeed(w) \/ SucceedAmbiguous(w)
    <3>1. pc'[w] # pc[w] /\ pc[w] \in Holding
      BY <2>3
      DEF Succeed, SucceedAmbiguous, Settle, Goto, Holding, Running, TypeOK, WorkerTypeOK
    <3>. QED BY <2>3, <3>1 DEF RowChange, Succeed, SucceedAmbiguous, MayComplete
  <2>4. CASE FailPermanent(w) \/ Release(w)
    <3>1. pc'[w] # pc[w] /\ pc[w] \in Holding
      BY <2>4
      DEF FailPermanent, Release, AfterRelease, AfterLostRelease, Settle, Holding, Failing, TypeOK,
          WorkerTypeOK
    <3>. QED BY <2>4, <3>1 DEF RowChange, FailPermanent, Release
  <2>5. CASE FailQueued(w)
    BY <2>5 DEF RowChange, FailQueued
  <2>6. CASE Heartbeat(w)
    BY <2>0, <2>6 DEF RowChange, Heartbeat, Beating
  <2>7. CASE \/ ClaimTooEarly(w) \/ RunFails(w) \/ UploadFails(w) \/ RetrySendFails(w)
             \/ DbError(w) \/ WorkerLost(w) \/ HostCrash(w) \/ Overstay(w)
             \/ HardTimeout(w) \/ SoftTimeout(w)
    BY <2>7
    DEF RowChange, ClaimTooEarly, RunFails, UploadFails, RetrySendFails, DbError, WorkerLost,
        HostCrash, Overstay, HardTimeout, SoftTimeout
  <2>. QED
    BY <1>5, <2>1, <2>2, <2>3, <2>4, <2>5, <2>6, <2>7 DEF WorkerStep, Disturbance
<1>. QED BY <1>1, <1>2, <1>3, <1>4, <1>5 DEF Next

\* The row statements leave every other row alone.
LEMMA OtherRows ==
  ASSUME NEW j \in Jobs, NEW k \in Jobs \ {j}, RowTypeOK,
         \/ \E s \in Status : SetStatus(j, s)
         \/ \E l \in {"live", "expired"} : SetLease(j, l)
         \/ ClaimRow(j) \/ ReleaseRow(j)
         \/ \E c \in {"transient", "permanent"} : FailRow(j, c)
         \/ \E t \in Tokens : SucceedRow(j, t)
  PROVE  /\ status'[k] = status[k] /\ token'[k] = token[k] /\ attempt'[k] = attempt[k]
         /\ version'[k] = version[k] /\ result'[k] = result[k] /\ code'[k] = code[k]
BY DEF RowTypeOK, SetStatus, SetLease, ClaimRow, ReleaseRow, FailRow, SucceedRow, LeaveRunning

\* A change is made to one row, and that row's job has not ended.
LEMMA ChangedRow ==
  ASSUME TypeOK, RowChange, NEW k \in Jobs
  PROVE  \/ /\ status'[k] = status[k] /\ token'[k] = token[k] /\ attempt'[k] = attempt[k]
            /\ version'[k] = version[k] /\ result'[k] = result[k] /\ code'[k] = code[k]
         \/ status[k] \notin Terminal
<1>0. ASSUME NEW w \in Workers, pc[w] # "idle"
      PROVE  job[w] \in Jobs /\ (pc[w] \in Holding => run[w] \in Tokens)
  BY <1>0, BusyWorker DEF TypeOK, WorkerTypeOK
<1>1. CASE UNCHANGED jobVars
  BY <1>1 DEF jobVars
<1>2. ASSUME NEW j \in Jobs,
             \/ status[j] = "ABSENT" /\ SetStatus(j, "PENDING_DISPATCH")
             \/ status[j] = "PENDING_DISPATCH" /\ SetStatus(j, "QUEUED")
             \/ lease[j] # "none" /\ \E l \in {"live", "expired"} : SetLease(j, l)
             \/ Claimable(j) /\ attempt[j] < MaxAttempts /\ ClaimRow(j)
      PROVE  \/ k # j /\ UNCHANGED <<status[k], token[k], attempt[k], version[k], result[k], code[k]>>
             \/ k = j /\ status[j] \notin Terminal
  <2>1. status[j] \notin Terminal
    BY <1>2 DEF Terminal, Claimable, TypeOK, RowTypeOK
  <2>2. CASE k # j
    BY <1>2, <2>2, OtherRows DEF TypeOK, Status
  <2>. QED BY <2>1, <2>2
<1>3. ASSUME NEW w \in Workers,
             \/ /\ pc[w] \in Holding /\ Owns(w)
                /\ \/ ReleaseRow(job[w]) \/ FailRow(job[w], "permanent")
                   \/ SucceedRow(job[w], run[w])
             \/ /\ pc[w] = "released" /\ Exhausts(job[w])
                /\ FailRow(job[w], "transient")
      PROVE  \/ k # job[w] /\ UNCHANGED <<status[k], token[k], attempt[k], version[k], result[k], code[k]>>
             \/ k = job[w] /\ status[k] \notin Terminal
  <2>1. pc[w] # "idle"
    BY <1>3 DEF Holding, Running, Failing
  <2>2. status[job[w]] \notin Terminal
    BY <1>3 DEF Owns, Exhausts, Terminal
  <2>3. CASE k # job[w]
    BY <1>0, <1>3, <2>1, <2>3, OtherRows DEF TypeOK
  <2>. QED BY <2>2, <2>3
<1>. QED BY <1>1, <1>2, <1>3 DEF RowChange

\* A job that has ended is never changed again, however many late messages, claims
\* and failure reports still arrive.
THEOREM TerminalFrozen == Spec => TerminalRowFrozen
<1>1. TypeOK /\ [Next]_pipelineVars =>
        [\A j \in Jobs : status[j] \in Terminal =>
           /\ status'[j] = status[j] /\ result'[j] = result[j] /\ code'[j] = code[j]
           /\ token'[j] = token[j] /\ attempt'[j] = attempt[j]
           /\ version'[j] = version[j]]_pipelineVars
  BY RowChanges, ChangedRow
<1>. QED BY <1>1, TypeCorrect, PTL DEF Spec, TerminalRowFrozen

\* A run whose lease is live is ended by the worker that holds its token and by no
\* other claim, release, completion or failure.
THEOREM OnlyOwnerEnds == Spec => OnlyOwnerEndsLiveRun
<1>1. ASSUME TypeOK, [Next]_pipelineVars, NEW j \in Jobs, lease[j] = "live", token'[j] # token[j]
      PROVE  \E w \in Workers : job[w] = j /\ run[w] = token[j] /\ pc[w] \in Holding /\ pc'[w] # pc[w]
  <2>0. RowChange
    BY <1>1, RowChanges
  <2>1. CASE UNCHANGED jobVars
    BY <1>1, <2>1 DEF jobVars
  <2>2. ASSUME NEW k \in Jobs,
               \/ status[k] = "ABSENT" /\ SetStatus(k, "PENDING_DISPATCH")
               \/ status[k] = "PENDING_DISPATCH" /\ SetStatus(k, "QUEUED")
               \/ lease[k] # "none" /\ \E l \in {"live", "expired"} : SetLease(k, l)
               \/ Claimable(k) /\ attempt[k] < MaxAttempts /\ ClaimRow(k)
        PROVE  FALSE
    <3>1. CASE Claimable(k) /\ ClaimRow(k)
      <4>1. k = j
        BY <1>1, <3>1, OtherRows DEF TypeOK
      <4>. QED BY <1>1, <3>1, <4>1 DEF Claimable, TypeOK, RowTypeOK
    <3>. QED BY <1>1, <2>2, <3>1 DEF SetStatus, SetLease
  <2>3. ASSUME NEW w \in Workers, pc[w] \in Holding, pc'[w] # pc[w], Owns(w),
               ReleaseRow(job[w]) \/ FailRow(job[w], "permanent") \/ SucceedRow(job[w], run[w])
        PROVE  job[w] = j /\ run[w] = token[j]
    <3>1. job[w] = j
      BY <1>1, <2>3, OwnRunType, OtherRows DEF TypeOK
    <3>. QED BY <2>3, <3>1 DEF Owns
  <2>4. ASSUME NEW w \in Workers, pc[w] = "released", Exhausts(job[w]), FailRow(job[w], "transient")
        PROVE  FALSE
    <3>1. job[w] \in Jobs
      BY <1>1, <2>4, BusyWorker DEF TypeOK
    <3>2. job[w] = j
      BY <1>1, <2>4, <3>1, OtherRows DEF TypeOK
    <3>. QED BY <1>1, <2>4, <3>2 DEF Exhausts, TypeOK, RowTypeOK
  <2>. QED BY <2>0, <2>1, <2>2, <2>3, <2>4 DEF RowChange
<1>2. TypeOK /\ [Next]_pipelineVars =>
        [\A j \in Jobs : lease[j] = "live" /\ token'[j] # token[j] =>
           \E w \in Workers : /\ job[w] = j /\ run[w] = token[j]
                              /\ pc[w] \in Holding /\ pc'[w] # pc[w]]_pipelineVars
  BY <1>1
<1>. QED BY <1>2, TypeCorrect, PTL DEF Spec, OnlyOwnerEndsLiveRun

-----------------------------------------------------------------------------
(* Every retry of a video follows an attempt of its own *)

\* The retry counter of a message never exceeds the attempts made.
Counted(m) == m[1] \in Datasets \/ m[2] <= attempt[m[1]]
MessagesCounted == \A m \in Messages : ready[m] > 0 \/ limbo[m] > 0 => Counted(m)

\* A worker that has begun an attempt has made more of them than retries.
WorkersCounted ==
  \A w \in Workers : pc[w] # "idle" /\ job[w] \notin Datasets =>
    /\ retries[w] <= attempt[job[w]]
    /\ pc[w] \in Holding \cup {"released"} => retries[w] < attempt[job[w]]

CountInv == MessagesCounted /\ WorkersCounted /\ RetriesAreAttempts

LEMMA AttemptsGrow ==
  ASSUME TypeOK, TypeOK', RowChange, NEW j \in Jobs
  PROVE  attempt[j] \in Nat /\ attempt'[j] \in Nat /\ attempt[j] <= attempt'[j]
<1>1. attempt[j] \in Nat /\ attempt'[j] \in Nat
  BY DEF TypeOK, RowTypeOK
<1>2. CASE UNCHANGED attempt
  BY <1>1, <1>2
<1>3. CASE \E k \in Jobs : ClaimRow(k)
  BY <1>1, <1>3 DEF ClaimRow, TypeOK, RowTypeOK
<1>. QED
  BY <1>2, <1>3
  DEF RowChange, jobVars, SetStatus, SetLease, ReleaseRow, FailRow, SucceedRow

\* What a step does to the queues: it adds only counted messages.
QueuesCounted ==
  \A m \in Messages : ready'[m] > 0 \/ limbo'[m] > 0 => Counted(m)

LEMMA PutCounted ==
  ASSUME NEW q \in [Messages -> Nat], NEW m \in Messages, Counted(m),
         \A n \in Messages : q[n] > 0 => Counted(n)
  PROVE  \A n \in Messages : Put(q, m)[n] > 0 => Counted(n)
BY DEF Put

LEMMA QueueSteps ==
  ASSUME TypeOK, CountInv, [Next]_pipelineVars
  PROVE  QueuesCounted
<1>0. /\ ready \in [Messages -> Nat] /\ limbo \in [Messages -> Nat]
      /\ \A m \in Messages : ready[m] > 0 => Counted(m)
      /\ \A m \in Messages : limbo[m] > 0 => Counted(m)
  BY DEF TypeOK, BrokerTypeOK, CountInv, MessagesCounted
<1>1. ASSUME NEW w \in Workers, pc[w] # "idle"
      PROVE  Message(w) \in Messages /\ Counted(Message(w))
  BY <1>1, BusyWorker DEF TypeOK, CountInv, WorkersCounted, Counted, Message
<1>2. CASE UNCHANGED <<ready, limbo>>
  BY <1>0, <1>2 DEF QueuesCounted
<1>3. ASSUME NEW p \in Publishers, PublishSend(p) PROVE QueuesCounted
  <2>1. PICK j \in Jobs : ready' = Put(ready, <<j, 0>>)
    BY <1>3 DEF PublishSend
  <2>2. <<j, 0>> \in Messages /\ Counted(<<j, 0>>)
    BY DEF Counted, TypeOK, RowTypeOK
  <2>. QED BY <1>0, <1>3, <2>1, <2>2, PutCounted DEF PublishSend, QueuesCounted
<1>4. ASSUME NEW w \in Workers, NEW m \in Messages, Deliver(w, m) PROVE QueuesCounted
  BY <1>0, <1>4 DEF Deliver, Take, QueuesCounted
<1>5. ASSUME NEW m \in Messages, VisibilityTimeout(m) PROVE QueuesCounted
  <2>1. \A n \in Messages : Take(limbo, m)[n] > 0 => Counted(n)
    BY <1>0 DEF Take
  <2>2. \A n \in Messages : Put(ready, m)[n] > 0 => Counted(n)
    BY <1>0, <1>5, PutCounted DEF VisibilityTimeout
  <2>. QED BY <1>5, <2>1, <2>2 DEF VisibilityTimeout, QueuesCounted
<1>6. CASE BrokerLoss
  BY <1>6 DEF BrokerLoss, QueuesCounted
<1>7. ASSUME NEW w \in Workers, RetrySend(w) PROVE QueuesCounted
  <2>1. <<job[w], retries[w] + 1>> \in Messages /\ Counted(<<job[w], retries[w] + 1>>)
    <3>1. job[w] \in Jobs /\ retries[w] \in 0..MaxRetries /\ attempt[job[w]] \in Nat
      BY <1>7, BusyWorker DEF RetrySend, TypeOK, WorkerTypeOK, RowTypeOK
    <3>. QED BY <1>7, <3>1 DEF RetrySend, CountInv, WorkersCounted, Counted
  <2>. QED BY <1>0, <1>7, <2>1, PutCounted DEF RetrySend, QueuesCounted
<1>8. ASSUME NEW w \in Workers, ClaimTooEarly(w) PROVE QueuesCounted
  <2>1. pc[w] # "idle"
    BY <1>8 DEF ClaimTooEarly
  <2>2. CASE ready' = Put(ready, Message(w))
    BY <1>0, <1>1, <1>8, <2>1, <2>2, PutCounted DEF ClaimTooEarly, QueuesCounted
  <2>3. CASE /\ ~WaitsInProcess(w) /\ retries[w] < MaxRetries
             /\ ready' = Put(ready, <<job[w], retries[w] + 1>>)
    <3>1. <<job[w], retries[w] + 1>> \in Messages /\ Counted(<<job[w], retries[w] + 1>>)
      BY <2>1, <2>3, BusyWorker DEF WaitsInProcess, Counted, TypeOK, WorkerTypeOK
    <3>. QED BY <1>0, <1>8, <2>3, <3>1, PutCounted DEF ClaimTooEarly, QueuesCounted
  <2>. QED BY <1>2, <1>8, <2>2, <2>3 DEF ClaimTooEarly
<1>9. ASSUME NEW w \in Workers, WorkerLost(w) \/ HostCrash(w) \/ Overstay(w) PROVE QueuesCounted
  <2>1. pc[w] # "idle"
    BY <1>9 DEF WorkerLost, HostCrash, Overstay
  <2>2. /\ \A n \in Messages : Put(ready, Message(w))[n] > 0 => Counted(n)
        /\ \A n \in Messages : Put(limbo, Message(w))[n] > 0 => Counted(n)
    BY <1>0, <1>1, <2>1, PutCounted
  <2>. QED BY <1>0, <1>9, <2>2 DEF WorkerLost, HostCrash, Overstay, QueuesCounted
<1>10. CASE UNCHANGED pipelineVars
  BY <1>2, <1>10 DEF pipelineVars, brokerVars
<1>11. CASE \/ \E p \in Publishers : PublishCommit(p) \/ PublishRollback(p)
            \/ \E j \in Jobs : CreateJob(j) \/ LeaseExpires(j)
  BY <1>2, <1>11 DEF PublishCommit, PublishRollback, CreateJob, LeaseExpires, brokerVars
<1>12. ASSUME NEW w \in Workers, WorkerStep(w) \/ Heartbeat(w) PROVE QueuesCounted
  BY <1>2, <1>7, <1>12
  DEF WorkerStep, Heartbeat, ClaimRead, ClaimUpdate, ListStale, DeleteStale, PersistFrames,
      PersistManifest, Succeed, CleanLost, FailPermanent, Release, FailQueued, SettleMessage,
      brokerVars
<1>13. ASSUME NEW w \in Workers, Disturbance(w) PROVE QueuesCounted
  BY <1>2, <1>8, <1>9, <1>13
  DEF Disturbance, SucceedAmbiguous, RunFails, UploadFails, RetrySendFails, DbError, HardTimeout,
      SoftTimeout, brokerVars
<1>. QED
  BY <1>3, <1>4, <1>5, <1>6, <1>10, <1>11, <1>12, <1>13 DEF Next, Publishing

\* A worker keeps its message until it is idle, and comes to hold a run by claiming.
Proceeds(w) ==
  \/ pc'[w] = "idle"
  \/ /\ pc[w] # "idle" /\ job'[w] = job[w] /\ retries'[w] = retries[w]
     /\ \/ pc'[w] \in Holding \cup {"released"} => pc[w] \in Holding \cup {"released"}
        \/ attempt[job[w]] < attempt'[job[w]]
  \/ \E m \in Messages : ready[m] > 0 /\ job'[w] = m[1] /\ retries'[w] = m[2] /\ pc'[w] = "claim"

LEMMA WorkersProceed ==
  ASSUME TypeOK, [Next]_pipelineVars, NEW v \in Workers
  PROVE  Proceeds(v)
<1>0. /\ pc \in [Workers -> WorkerPC] /\ job \in [Workers -> Jobs \cup {NoJob}]
      /\ retries \in [Workers -> 0..MaxRetries]
  BY DEF TypeOK, WorkerTypeOK
<1>1. CASE UNCHANGED <<pc, job, retries>>
  BY <1>1 DEF Proceeds
<1>2. ASSUME NEW w \in Workers,
             \/ Idle(w)
             \/ \E p \in {"released", "done"} :
                  Settle(w, p) /\ (p = "released" => pc[w] \in Holding)
             \/ \E p \in Holding : Goto(w, p) /\ pc[w] \in Holding,
             pc[w] # "idle"
      PROVE  Proceeds(v)
  BY <1>0, <1>2 DEF Proceeds, Idle, Settle, Goto, Holding, Running, Failing
<1>3. ASSUME NEW w \in Workers, NEW m \in Messages, Deliver(w, m) PROVE Proceeds(v)
  BY <1>0, <1>3 DEF Deliver, Proceeds
<1>4. ASSUME NEW w \in Workers, ClaimRead(w) PROVE Proceeds(v)
  <2>1. CASE Claimable(job[w])
    BY <1>0, <1>4, <2>1 DEF ClaimRead, Proceeds, Holding, Running, Failing
  <2>. QED BY <1>2, <1>4, <2>1 DEF ClaimRead
<1>5. ASSUME NEW w \in Workers, ClaimUpdate(w) PROVE Proceeds(v)
  <2>1. CASE ClaimMatches(w)
    <3>1. attempt[job[w]] < attempt'[job[w]]
      BY <1>5, <2>1, BusyWorker DEF ClaimUpdate, ClaimRow, TypeOK, RowTypeOK
    <3>. QED BY <1>0, <1>5, <2>1, <3>1 DEF ClaimUpdate, Proceeds
  <2>. QED BY <1>2, <1>5, <2>1 DEF ClaimUpdate
<1>6. ASSUME NEW w \in Workers, DeleteStale(w) PROVE Proceeds(v)
  BY <1>0, <1>2, <1>6 DEF DeleteStale, Proceeds, Holding, Running, Failing
<1>7. ASSUME NEW w \in Workers,
             \/ ListStale(w) \/ PersistFrames(w) \/ PersistManifest(w) \/ Succeed(w)
             \/ SucceedAmbiguous(w) \/ RunFails(w) \/ UploadFails(w)
      PROVE  Proceeds(v)
  BY <1>2, <1>7
  DEF ListStale, PersistFrames, PersistManifest, Succeed, SucceedAmbiguous, RunFails, UploadFails,
      Holding, Running, Failing
<1>8. ASSUME NEW w \in Workers,
             \/ CleanLost(w) \/ FailPermanent(w) \/ Release(w) \/ RetrySend(w) \/ FailQueued(w)
             \/ SettleMessage(w)
      PROVE  Proceeds(v)
  BY <1>2, <1>8
  DEF CleanLost, FailPermanent, Release, AfterRelease, AfterLostRelease, RetrySend, FailQueued,
      SettleMessage, Holding, Failing
<1>9. ASSUME NEW w \in Workers,
             \/ RetrySendFails(w) \/ DbError(w) \/ WorkerLost(w) \/ HostCrash(w)
             \/ HardTimeout(w) \/ SoftTimeout(w)
      PROVE  Proceeds(v)
  BY <1>2, <1>9
  DEF RetrySendFails, DbError, WorkerLost, HostCrash, HardTimeout, SoftTimeout, Holding, Running,
      Failing
<1>10. ASSUME NEW w \in Workers, ClaimTooEarly(w) \/ Overstay(w) \/ Heartbeat(w)
       PROVE  Proceeds(v)
  BY <1>1, <1>2, <1>10 DEF ClaimTooEarly, Overstay, Heartbeat
<1>11. CASE \/ Publishing \/ BrokerLoss
            \/ \E j \in Jobs : CreateJob(j) \/ LeaseExpires(j)
            \/ \E p \in Publishers : PublishRollback(p)
            \/ \E m \in Messages : VisibilityTimeout(m)
            \/ UNCHANGED pipelineVars
  BY <1>1, <1>11
  DEF Publishing, PublishSend, PublishCommit, BrokerLoss, CreateJob, LeaseExpires,
      PublishRollback, VisibilityTimeout, pipelineVars, workerVars
<1>12. ASSUME NEW w \in Workers, WorkerStep(w) \/ Heartbeat(w) \/ Disturbance(w)
       PROVE  Proceeds(v)
  BY <1>4, <1>5, <1>6, <1>7, <1>8, <1>9, <1>10, <1>12 DEF WorkerStep, Disturbance
<1>. QED BY <1>3, <1>11, <1>12 DEF Next

\* A video that fails with a retryable code has had all its attempts: whatever is
\* lost, duplicated or delivered again, no message counts a retry nobody made.
THEOREM RetriesWereAttempts == Spec => []RetriesAreAttempts
<1>1. Init => CountInv
  BY DEF Init, CountInv, MessagesCounted, WorkersCounted, RetriesAreAttempts, Counted
<1>2. TypeOK /\ TypeOK' /\ CountInv /\ [Next]_pipelineVars => CountInv'
  <2>. SUFFICES ASSUME TypeOK, TypeOK', CountInv, [Next]_pipelineVars PROVE CountInv'
    OBVIOUS
  <2>0. /\ RowChange
        /\ \A j \in Jobs : attempt[j] \in Nat /\ attempt'[j] \in Nat /\ attempt[j] <= attempt'[j]
    BY RowChanges, AttemptsGrow
  <2>1. MessagesCounted'
    BY <2>0, QueueSteps DEF QueuesCounted, MessagesCounted, Counted
  <2>2. WorkersCounted'
    <3>. SUFFICES ASSUME NEW v \in Workers, pc'[v] # "idle", job'[v] \notin Datasets
                  PROVE  /\ retries'[v] <= attempt'[job'[v]]
                         /\ pc'[v] \in Holding \cup {"released"} => retries'[v] < attempt'[job'[v]]
      BY DEF WorkersCounted
    <3>0. /\ retries[v] \in Nat /\ retries'[v] \in Nat /\ job'[v] \in Jobs
          /\ pc[v] # "idle" => job[v] \in Jobs
      BY DEF TypeOK, WorkerTypeOK
    <3>1. CASE \E m \in Messages : ready[m] > 0 /\ job'[v] = m[1] /\ retries'[v] = m[2] /\ pc'[v] = "claim"
      BY <2>0, <3>0, <3>1 DEF CountInv, MessagesCounted, Counted, Holding, Running, Failing
    <3>2. CASE /\ pc[v] # "idle" /\ job'[v] = job[v] /\ retries'[v] = retries[v]
               /\ \/ pc'[v] \in Holding \cup {"released"} => pc[v] \in Holding \cup {"released"}
                  \/ attempt[job[v]] < attempt'[job[v]]
      <4>1. /\ retries[v] <= attempt[job[v]]
            /\ pc[v] \in Holding \cup {"released"} => retries[v] < attempt[job[v]]
        BY <3>2 DEF CountInv, WorkersCounted
      <4>. QED BY <2>0, <3>0, <3>2, <4>1
    <3>. QED BY <3>1, <3>2, WorkersProceed DEF Proceeds
  <2>3. RetriesAreAttempts'
    <3>. SUFFICES ASSUME NEW j \in Jobs \ Datasets, status'[j] = "FAILED", code'[j] = "transient"
                  PROVE  attempt'[j] > MaxRetries
      BY DEF RetriesAreAttempts
    <3>1. CASE status[j] = "FAILED" /\ code[j] = "transient"
      BY <2>0, <3>1 DEF CountInv, RetriesAreAttempts
    <3>2. CASE \E w \in Workers : /\ pc[w] = "released" /\ retries[w] = MaxRetries
                                  /\ job[w] = j /\ FailRow(job[w], "transient")
      BY <2>0, <3>2 DEF CountInv, WorkersCounted, FailRow
    <3>3. CASE UNCHANGED <<status, code>>
      BY <3>1, <3>3
    <3>. QED
      BY <2>0, <3>1, <3>2, <3>3
      DEF RowChange, jobVars, SetStatus, SetLease, ClaimRow, ReleaseRow, FailRow, SucceedRow,
          LeaveRunning, TypeOK, RowTypeOK
  <2>. QED BY <2>1, <2>2, <2>3 DEF CountInv
<1>3. CountInv => RetriesAreAttempts
  BY DEF CountInv
<1>. QED BY <1>1, <1>2, <1>3, TypeCorrect, PTL DEF Spec

-----------------------------------------------------------------------------
(* The pipeline implements the life of a job *)

\* A worker that has held a run made an attempt.
AttemptBegun ==
  \A w \in Workers : pc[w] \in Holding \cup {"released"} => attempt[job[w]] > 0

LEMMA AttemptBegunHolds == Spec => []AttemptBegun
<1>1. Init => AttemptBegun
  BY DEF Init, AttemptBegun, Holding, Running, Failing
<1>2. TypeOK /\ TypeOK' /\ AttemptBegun /\ [Next]_pipelineVars => AttemptBegun'
  <2>. SUFFICES ASSUME TypeOK, TypeOK', AttemptBegun, [Next]_pipelineVars,
                       NEW v \in Workers, pc'[v] \in Holding \cup {"released"}
                PROVE  attempt'[job'[v]] > 0
    BY DEF AttemptBegun
  <2>1. pc'[v] # "idle" /\ pc'[v] # "claim"
    BY DEF Holding, Running, Failing
  <2>2. /\ pc[v] # "idle" /\ job'[v] = job[v] /\ job[v] \in Jobs
        /\ pc[v] \in Holding \cup {"released"} \/ attempt[job[v]] < attempt'[job[v]]
    BY <2>1, WorkersProceed, BusyWorker DEF Proceeds, TypeOK
  <2>3. attempt[job[v]] \in Nat /\ attempt'[job[v]] \in Nat /\ attempt[job[v]] <= attempt'[job[v]]
    BY <2>2, RowChanges, AttemptsGrow
  <2>. QED BY <2>2, <2>3 DEF AttemptBegun
<1>. QED BY <1>1, <1>2, TypeCorrect, PTL DEF Spec

\* The client is offered exactly what result_reference says.
LEMMA PublishedIsResult ==
  /\ TypeOK /\ Inv => \A j \in Jobs : PublishedAttempt(j) = result[j]
  /\ TypeOK' /\ Inv' => \A j \in Jobs : PublishedAttempt(j)' = result'[j]
BY DEF PublishedAttempt, TypeOK, RowTypeOK, Inv, SuccessIsLatest

LEMMA LifecycleInit == Init => Lifecycle!Init
BY DEF Init, Lifecycle!Init, PhaseOf, PublishedAttempt

\* A change of one row is a step in the life of its job, or invisible.
LEMMA LifecycleStep ==
  ASSUME TypeOK, TypeOK', Inv, Inv', AttemptBegun, RowChange
  PROVE  [Lifecycle!Next]_Lifecycle!lifecycleVars
<1>. DEFINE phase == [j \in Jobs |-> PhaseOf(status[j])]
            published == [j \in Jobs |-> PublishedAttempt(j)]
<1>0. published = result /\ published' = result'
  BY PublishedIsResult DEF TypeOK, RowTypeOK
<1>1. ASSUME NEW k \in Jobs, NEW s \in Status, status' = [status EXCEPT ![k] = s]
      PROVE  phase' = [phase EXCEPT ![k] = PhaseOf(s)]
  BY <1>1 DEF TypeOK, RowTypeOK
<1>2. ASSUME UNCHANGED <<attempt, result>>, phase' = phase
      PROVE  UNCHANGED Lifecycle!lifecycleVars
  BY <1>0, <1>2 DEF Lifecycle!lifecycleVars
<1>3. CASE UNCHANGED jobVars
  BY <1>2, <1>3 DEF jobVars
<1>4. ASSUME NEW j \in Jobs, status[j] = "ABSENT", SetStatus(j, "PENDING_DISPATCH")
      PROVE  Lifecycle!Accept(j)
  <2>1. phase[j] = "absent" /\ phase' = [phase EXCEPT ![j] = "waiting"]
    BY <1>1, <1>4 DEF SetStatus, PhaseOf, Status
  <2>. QED BY <1>0, <1>4, <2>1 DEF SetStatus, Lifecycle!Accept, Lifecycle!Move
<1>5. ASSUME NEW j \in Jobs, status[j] = "PENDING_DISPATCH", SetStatus(j, "QUEUED")
      PROVE  UNCHANGED Lifecycle!lifecycleVars
  <2>1. phase[j] = "waiting" /\ phase' = [phase EXCEPT ![j] = "waiting"]
    BY <1>1, <1>5 DEF SetStatus, PhaseOf, Status
  <2>2. phase' = phase
    BY <2>1
  <2>. QED BY <1>2, <1>5, <2>2 DEF SetStatus
<1>6. ASSUME NEW j \in Jobs, NEW l, SetLease(j, l)
      PROVE  UNCHANGED Lifecycle!lifecycleVars
  BY <1>2, <1>6 DEF SetLease
<1>7. ASSUME NEW j \in Jobs, Claimable(j), ClaimRow(j)
      PROVE  Lifecycle!Begin(j)
  <2>1. phase[j] \in {"waiting", "working"} /\ phase' = [phase EXCEPT ![j] = "working"]
    BY <1>1, <1>7 DEF Claimable, ClaimRow, PhaseOf, Status
  <2>. QED BY <1>0, <1>7, <2>1 DEF ClaimRow, Lifecycle!Begin, Lifecycle!Move
<1>8. ASSUME NEW w \in Workers, pc[w] \in Holding, Owns(w), ReleaseRow(job[w])
      PROVE  Lifecycle!GiveBack(job[w])
  <2>1. phase[job[w]] = "working" /\ phase' = [phase EXCEPT ![job[w]] = "waiting"]
    BY <1>1, <1>8, OwnRunType DEF Owns, ReleaseRow, LeaveRunning, PhaseOf, Status
  <2>. QED BY <1>0, <1>8, <2>1 DEF ReleaseRow, Lifecycle!GiveBack, Lifecycle!Move
<1>9. ASSUME NEW j \in Jobs, NEW c, status[j] \in {"QUEUED", "RUNNING"}, attempt[j] > 0, FailRow(j, c)
      PROVE  Lifecycle!Fail(j)
  <2>1. phase[j] \in {"waiting", "working"} /\ phase' = [phase EXCEPT ![j] = "failed"]
    BY <1>1, <1>9 DEF FailRow, LeaveRunning, PhaseOf, Status
  <2>. QED BY <1>0, <1>9, <2>1 DEF FailRow, Lifecycle!Fail, Lifecycle!Move
<1>10. ASSUME NEW w \in Workers, pc[w] \in Holding, Owns(w), SucceedRow(job[w], run[w])
       PROVE  Lifecycle!Succeed(job[w])
  <2>1. job[w] \in Jobs /\ run[w] \in Tokens
    BY <1>10, OwnRunType
  <2>2. run[w] = attempt[job[w]]
    BY <1>10, <2>1 DEF Owns, Inv, OwnerIsLatest
  <2>3. phase[job[w]] = "working" /\ phase' = [phase EXCEPT ![job[w]] = "succeeded"]
    BY <1>1, <1>10, <2>1 DEF Owns, SucceedRow, LeaveRunning, PhaseOf, Status
  <2>. QED BY <1>0, <1>10, <2>2, <2>3 DEF SucceedRow, Lifecycle!Succeed, Lifecycle!Move
<1>11. ASSUME NEW w \in Workers, pc[w] \in Holding \cup {"released"}
       PROVE  job[w] \in Jobs /\ attempt[job[w]] > 0
  BY <1>11, BusyWorker DEF AttemptBegun, TypeOK, Holding, Running, Failing
<1>12. \A w \in Workers : Owns(w) \/ Exhausts(job[w]) => status[job[w]] \in {"QUEUED", "RUNNING"}
  BY DEF Owns, Exhausts
<1>. QED
  BY <1>3, <1>4, <1>5, <1>6, <1>7, <1>8, <1>9, <1>10, <1>11, <1>12 DEF RowChange, Lifecycle!Next

\* Every run of the pipeline, however its workers, messages and faults interleave, is
\* a run of JobLifecycle: one success, of the last attempt, complete and for good.
THEOREM Implements == Spec => ImplementsLifecycle
<1>1. /\ TypeOK /\ TypeOK' /\ Inv /\ Inv' /\ AttemptBegun /\ [Next]_pipelineVars
      => [Lifecycle!Next]_Lifecycle!lifecycleVars
  BY LifecycleStep, RowChanges
<1>. QED
  BY LifecycleInit, <1>1, TypeCorrect, InvHolds, AttemptBegunHolds, PTL
  DEF Spec, ImplementsLifecycle, Lifecycle!Spec

-----------------------------------------------------------------------------
(* Recovery: under the faults that the pipeline tolerates no job is left behind *)

InQueue(j) == \E m \in Messages : m[1] = j /\ ready[m] + limbo[m] > 0
InLimbo(j) == \E m \in Messages : m[1] = j /\ limbo[m] > 0

\* A worker whose claim of the job will succeed if the job can be claimed at all.
Claiming(w, j) ==
  /\ job[w] = j
  /\ \/ pc[w] = "claim"
     \/ pc[w] = "update" /\ seen[w] = version[j]

Waits(j) == InQueue(j) \/ \E w \in Workers : Claiming(w, j)
Releasing(j) == \E w \in Workers : job[w] = j /\ pc[w] = "released"

\* What drives a dispatched job: a message or a claim that will find it claimable, or,
\* while its lease is not over, its owner or the message of its dead owner's host.
Driven(j) ==
  /\ status[j] = "QUEUED" => Waits(j) \/ Releasing(j)
  /\ status[j] = "RUNNING" =>
       \/ OwnerAlive(j)
       \/ InLimbo(j)
       \/ lease[j] = "expired" /\ Waits(j)

\* A worker has the message that it works for; who has lost its run never owns it again.
KeepsMessage(w) ==
  /\ pc[w] # "idle" => held[w]
  /\ polls[w] = 0
  /\ lost[w] => pc[w] \in Holding
  /\ lost[w] \/ pc[w] = "lost" => run[w] # token[job[w]]

AtClaim(j) == \E w \in Workers : job[w] = j /\ pc[w] = "claim"

\* An event is published in the transaction that queues its job; once it is sent, its
\* message is there, or with a worker that finds the job not yet queued.
DispatchInv ==
  /\ \A j \in Jobs : outbox[j] = "pending" <=> status[j] = "PENDING_DISPATCH"
  /\ \A p \in Publishers : sending[p] # NoJob =>
       /\ outbox[sending[p]] = "pending"
       /\ InQueue(sending[p]) \/ AtClaim(sending[p])
  /\ \A p, q \in Publishers : sending[p] = sending[q] /\ sending[p] # NoJob => p = q

RecoveryInv ==
  /\ \A w \in Workers : KeepsMessage(w)
  /\ DispatchInv
  /\ \A j \in Jobs : Driven(j)

LEMMA RecoveryInit == Init => RecoveryInv
BY DEF Init, RecoveryInv, KeepsMessage, DispatchInv, Driven

\* The invariant leaves no job behind.
LEMMA RecoveryCarries == TypeOK /\ RecoveryInv => NoJobStranded
<1>. SUFFICES ASSUME TypeOK, RecoveryInv, NEW j \in Jobs,
                     status[j] \in {"PENDING_DISPATCH", "QUEUED", "RUNNING"}
              PROVE  Carried(j)
  BY DEF NoJobStranded
<1>1. CASE InQueue(j)
  BY <1>1 DEF InQueue, Carried
<1>2. CASE InLimbo(j)
  <2>1. PICK m \in Messages : m[1] = j /\ limbo[m] > 0
    BY <1>2 DEF InLimbo
  <2>2. ready[m] \in Nat /\ limbo[m] \in Nat
    BY DEF TypeOK, BrokerTypeOK
  <2>3. ready[m] + limbo[m] > 0
    BY <2>1, <2>2
  <2>. QED BY <2>1, <2>3 DEF Carried
<1>3. CASE \E w \in Workers : Claiming(w, j)
  BY <1>3 DEF Claiming, Carried
<1>4. CASE Releasing(j)
  BY <1>4 DEF Releasing, Carried
<1>5. CASE OwnerAlive(j)
  BY <1>5 DEF OwnerAlive, Holding, Running, Failing, Carried
<1>6. CASE status[j] = "PENDING_DISPATCH"
  BY <1>6 DEF RecoveryInv, DispatchInv, Carried
<1>7. Driven(j)
  BY DEF RecoveryInv
<1>. QED
  BY <1>1, <1>2, <1>3, <1>4, <1>5, <1>6, <1>7 DEF Driven, Waits

(* What a tolerated fault does not do. *)

LEMMA Untolerated ==
  ASSUME Faults \subseteq ToleratedFaults
  PROVE  /\ ~BrokerLoss
         /\ \A m \in Messages : VisibilityTimeout(m) =>
              Calm /\ (lease[m[1]] # "live" \/ OwnerAlive(m[1]))
         /\ \A w \in Workers : Disturbance(w) =>
              SucceedAmbiguous(w) \/ RunFails(w) \/ UploadFails(w) \/ HostCrash(w)
BY DEF ToleratedFaults, Spend, BrokerLoss, VisibilityTimeout, Disturbance, ClaimTooEarly,
       RetrySendFails, DbError, WorkerLost, Overstay, HardTimeout, SoftTimeout

\* Every step that is left of a worker.
Steps(w) ==
  \/ WorkerStep(w) \/ Heartbeat(w)
  \/ SucceedAmbiguous(w) \/ RunFails(w) \/ UploadFails(w) \/ HostCrash(w)

Stays(v) ==
  /\ pc'[v] = pc[v] /\ job'[v] = job[v] /\ seen'[v] = seen[v] /\ run'[v] = run[v]
  /\ held'[v] = held[v] /\ polls'[v] = polls[v] /\ lost'[v] = lost[v]

\* A step of one worker is none of another's.
LEMMA OthersStay ==
  ASSUME TypeOK, NEW w \in Workers, NEW v \in Workers \ {w},
         Steps(w) \/ \E m \in Messages : Deliver(w, m)
  PROVE  Stays(v)
<1>0. /\ pc \in [Workers -> WorkerPC] /\ job \in [Workers -> Jobs \cup {NoJob}]
      /\ seen \in [Workers -> Nat] /\ run \in [Workers -> Tokens \cup {0}]
      /\ held \in [Workers -> BOOLEAN] /\ polls \in [Workers -> 0..PollLimit]
      /\ lost \in [Workers -> BOOLEAN]
  BY DEF TypeOK, WorkerTypeOK
<1>1. ASSUME NEW p, Goto(w, p) \/ Settle(w, p) \/ Idle(w)
      PROVE  Stays(v)
  BY <1>0, <1>1 DEF Stays, Goto, Settle, Idle, ForgetRun, memory
<1>2. CASE \/ ListStale(w) \/ PersistFrames(w) \/ PersistManifest(w) \/ Succeed(w)
           \/ CleanLost(w) \/ FailPermanent(w) \/ Release(w) \/ RetrySend(w) \/ FailQueued(w)
           \/ SettleMessage(w)
  BY <1>1, <1>2
  DEF ListStale, PersistFrames, PersistManifest, Succeed, CleanLost, FailPermanent, Release,
      AfterRelease, AfterLostRelease, RetrySend, FailQueued, SettleMessage
<1>3. CASE SucceedAmbiguous(w) \/ RunFails(w) \/ UploadFails(w) \/ HostCrash(w)
  BY <1>1, <1>3 DEF SucceedAmbiguous, RunFails, UploadFails, HostCrash
<1>4. CASE ClaimRead(w)
  BY <1>0, <1>1, <1>4 DEF ClaimRead, Stays
<1>5. CASE ClaimUpdate(w)
  BY <1>0, <1>1, <1>5 DEF ClaimUpdate, Stays
<1>6. CASE DeleteStale(w)
  BY <1>0, <1>1, <1>6 DEF DeleteStale, Stays
<1>7. CASE Heartbeat(w)
  BY <1>0, <1>7 DEF Heartbeat, Stays
<1>8. ASSUME NEW m \in Messages, Deliver(w, m) PROVE Stays(v)
  BY <1>0, <1>8 DEF Deliver, Stays, memory
<1>. QED BY <1>2, <1>3, <1>4, <1>5, <1>6, <1>7, <1>8 DEF Steps, WorkerStep

(* Messages and lost runs. *)

\* A token that a run has lost is not drawn again.
LEMMA LostForGood ==
  ASSUME TypeOK, Inv, RowChange, NEW v \in Workers, pc[v] \in Holding, run[v] # token[job[v]]
  PROVE  run[v] # token'[job[v]]
<1>1. /\ job[v] \in Jobs /\ run[v] # 0 /\ run[v] \in Nat
      /\ attempt[job[v]] \in Nat /\ run[v] <= attempt[job[v]]
  BY OwnRunType DEF TypeOK, WorkerTypeOK, RowTypeOK, Inv, RunsBounded
<1>2. \/ token'[job[v]] = token[job[v]]
      \/ token'[job[v]] = 0
      \/ token'[job[v]] = attempt[job[v]] + 1
  BY <1>1
  DEF RowChange, jobVars, SetStatus, SetLease, ClaimRow, ReleaseRow, FailRow, SucceedRow,
      LeaveRunning, TypeOK, RowTypeOK
<1>. QED BY <1>1, <1>2

LEMMA StaysKeeps ==
  ASSUME TypeOK, Inv, RowChange, NEW v \in Workers, KeepsMessage(v), Stays(v)
  PROVE  KeepsMessage(v)'
<1>1. lost[v] \/ pc[v] = "lost" => pc[v] \in Holding
  BY DEF KeepsMessage, Holding
<1>. QED BY <1>1, LostForGood DEF KeepsMessage, Stays

\* A worker that goes on with its run, or drops it, or is done with its message.
LEMMA MovesKeep ==
  ASSUME TypeOK, Inv, RowChange, NEW w \in Workers, KeepsMessage(w), pc[w] # "idle",
         \/ Idle(w)
         \/ \E p \in {"done", "released"} : Settle(w, p)
         \/ \E p \in Holding : /\ pc[w] \in Holding /\ Goto(w, p)
                               /\ p = "lost" => run[w] # token[job[w]]
  PROVE  KeepsMessage(w)'
<1>0. /\ pc \in [Workers -> WorkerPC] /\ job \in [Workers -> Jobs \cup {NoJob}]
      /\ held \in [Workers -> BOOLEAN] /\ polls \in [Workers -> 0..PollLimit]
      /\ lost \in [Workers -> BOOLEAN]
  BY DEF TypeOK, WorkerTypeOK
<1>1. CASE Idle(w)
  BY <1>0, <1>1 DEF Idle, ForgetRun, KeepsMessage
<1>2. ASSUME NEW p \in {"done", "released"}, Settle(w, p) PROVE KeepsMessage(w)'
  BY <1>0, <1>2 DEF Settle, ForgetRun, KeepsMessage
<1>3. ASSUME NEW p \in Holding, pc[w] \in Holding, Goto(w, p),
             p = "lost" => run[w] # token[job[w]]
      PROVE  KeepsMessage(w)'
  <2>1. pc'[w] = p /\ UNCHANGED <<job[w], held[w], polls[w], lost[w], run[w]>>
    BY <1>0, <1>3 DEF Goto, memory
  <2>2. lost[w] \/ p = "lost" => run[w] # token'[job[w]]
    BY <1>3, LostForGood DEF KeepsMessage
  <2>. QED BY <1>3, <2>1, <2>2 DEF KeepsMessage
<1>. QED BY <1>1, <1>2, <1>3

LEMMA OwnStepKeeps ==
  ASSUME TypeOK, Inv, RowChange, NEW w \in Workers, KeepsMessage(w),
         Steps(w) \/ \E m \in Messages : Deliver(w, m)
  PROVE  KeepsMessage(w)'
<1>0. /\ pc \in [Workers -> WorkerPC] /\ job \in [Workers -> Jobs \cup {NoJob}]
      /\ held \in [Workers -> BOOLEAN] /\ polls \in [Workers -> 0..PollLimit]
      /\ lost \in [Workers -> BOOLEAN] /\ run \in [Workers -> Tokens \cup {0}]
  BY DEF TypeOK, WorkerTypeOK
<1>1. CASE \/ ListStale(w) \/ PersistFrames(w) \/ PersistManifest(w)
           \/ CleanLost(w) \/ FailPermanent(w) \/ Release(w) \/ RetrySend(w) \/ FailQueued(w)
           \/ SettleMessage(w) \/ RunFails(w) \/ UploadFails(w) \/ HostCrash(w)
           \/ SucceedAmbiguous(w)
  <2>1. /\ pc[w] # "idle"
        /\ \/ Idle(w)
           \/ \E p \in {"done", "released"} : Settle(w, p)
           \/ \E p \in Holding \ {"lost"} : pc[w] \in Holding /\ Goto(w, p)
    BY <1>1
    DEF ListStale, PersistFrames, PersistManifest, CleanLost, FailPermanent, Release,
        AfterRelease, AfterLostRelease, RetrySend, FailQueued, SettleMessage, RunFails,
        UploadFails, HostCrash, SucceedAmbiguous, Holding, Running, Failing
  <2>. QED BY <2>1, MovesKeep
<1>2. CASE Succeed(w)
  <2>1. pc[w] \in Holding /\ pc[w] # "idle"
    BY <1>2 DEF Succeed, Holding, Running
  <2>2. CASE Settle(w, "done")
    BY <2>1, <2>2, MovesKeep
  <2>3. CASE ~MayComplete(w) /\ Goto(w, "lost")
    <3>1. run[w] # token[job[w]]
      <4>1. job[w] \in Jobs /\ run[w] # 0
        BY <2>1, OwnRunType
      <4>. QED BY <2>3, <4>1 DEF MayComplete, Owns, KeepsMessage, TypeOK, RowTypeOK
    <3>. QED BY <2>1, <2>3, <3>1, MovesKeep DEF Holding
  <2>. QED BY <1>2, <2>2, <2>3 DEF Succeed
<1>3. CASE ClaimRead(w)
  <2>1. CASE Settle(w, "done")
    BY <1>3, <2>1, MovesKeep DEF ClaimRead
  <2>2. CASE /\ pc' = [pc EXCEPT ![w] = "update"]
             /\ UNCHANGED <<job, retries, held, polls, run, lost>>
    BY <1>0, <1>3, <2>2 DEF ClaimRead, KeepsMessage, Holding, Running, Failing
  <2>. QED BY <1>3, <2>1, <2>2 DEF ClaimRead
<1>4. CASE ClaimUpdate(w)
  <2>1. CASE Settle(w, "done")
    BY <1>4, <2>1, MovesKeep DEF ClaimUpdate
  <2>2. CASE /\ pc' = [pc EXCEPT ![w] = IF CleansFirst(w) THEN "listing" ELSE "running"]
             /\ UNCHANGED <<job, retries, held, polls, lost>>
    BY <1>0, <1>4, <2>2 DEF ClaimUpdate, KeepsMessage, Holding, Running, Failing
  <2>. QED BY <1>4, <2>1, <2>2 DEF ClaimUpdate
<1>5. CASE DeleteStale(w)
  <2>1. CASE Goto(w, "transient")
    BY <1>5, <2>1, MovesKeep DEF DeleteStale, Holding, Running, Failing
  <2>2. CASE /\ pc' = [pc EXCEPT ![w] = "running"]
             /\ UNCHANGED <<job, retries, held, polls, seen, run, lost>>
    <3>1. pc[w] \in Holding /\ pc'[w] = "running" /\ "running" \in Holding
      BY <1>0, <1>5, <2>2 DEF DeleteStale, Holding, Running
    <3>2. lost[w] => run[w] # token'[job[w]]
      BY <3>1, LostForGood DEF KeepsMessage
    <3>. QED BY <2>2, <3>1, <3>2 DEF KeepsMessage, Holding, Running, Failing
  <2>. QED BY <1>5, <2>1, <2>2 DEF DeleteStale
<1>6. CASE Heartbeat(w)
  <2>1. pc[w] \in Holding /\ pc[w] # "idle" /\ pc[w] # "lost"
    BY <1>6 DEF Heartbeat, Beating, Holding, Running
  <2>2. job[w] \in Jobs /\ run[w] # 0
    BY <2>1, OwnRunType
  <2>3. run[w] # token[job[w]] \/ (~lost[w] /\ UNCHANGED lost)
    BY <1>6, <2>2 DEF Heartbeat, Owns, TypeOK, RowTypeOK
  <2>4. run[w] # token[job[w]] => run[w] # token'[job[w]]
    BY <2>1, LostForGood
  <2>. QED BY <1>6, <2>1, <2>3, <2>4 DEF Heartbeat, KeepsMessage
<1>7. ASSUME NEW m \in Messages, Deliver(w, m) PROVE KeepsMessage(w)'
  BY <1>0, <1>7 DEF Deliver, memory, KeepsMessage, Holding, Running, Failing
<1>. QED
  BY <1>1, <1>2, <1>3, <1>4, <1>5, <1>6, <1>7 DEF Steps, WorkerStep

LEMMA StepKeepsMessages ==
  ASSUME TypeOK, Inv, RowChange, \A v \in Workers : KeepsMessage(v),
         NEW w \in Workers, Steps(w) \/ \E m \in Messages : Deliver(w, m)
  PROVE  (\A v \in Workers : KeepsMessage(v))'
<1>1. KeepsMessage(w)'
  BY OwnStepKeeps
<1>2. \A v \in Workers \ {w} : KeepsMessage(v)'
  BY OthersStay, StaysKeeps
<1>. QED BY <1>1, <1>2

(* The queues. *)

LEMMA QueuesNat ==
  ASSUME TypeOK
  PROVE  /\ ready \in [Messages -> Nat] /\ limbo \in [Messages -> Nat]
         /\ \A j : InQueue(j) <=> \E m \in Messages : m[1] = j /\ (ready[m] > 0 \/ limbo[m] > 0)
<1>1. ready \in [Messages -> Nat] /\ limbo \in [Messages -> Nat]
  BY DEF TypeOK, BrokerTypeOK
<1>2. \A m \in Messages : ready[m] + limbo[m] > 0 <=> ready[m] > 0 \/ limbo[m] > 0
  BY <1>1
<1>. QED BY <1>1, <1>2 DEF InQueue

\* No message of the job is lost, and none leaves limbo.
QueueGrows(j) == (InQueue(j) => InQueue(j)') /\ (InLimbo(j) => InLimbo(j)')

LEMMA SameQueue ==
  ASSUME UNCHANGED <<ready, limbo>>, NEW j
  PROVE  QueueGrows(j)
BY DEF QueueGrows, InQueue, InLimbo

LEMMA Sent ==
  ASSUME TypeOK, TypeOK', NEW m \in Messages,
         \/ ready' = Put(ready, m) /\ limbo' = limbo
         \/ limbo' = Put(limbo, m) /\ ready' = ready
  PROVE  /\ \A j : QueueGrows(j)
         /\ InQueue(m[1])'
         /\ limbo' = Put(limbo, m) => InLimbo(m[1])'
<1>1. \A n \in Messages : /\ ready[n] > 0 => ready'[n] > 0
                          /\ limbo[n] > 0 => limbo'[n] > 0
  BY QueuesNat DEF Put
<1>2. (ready'[m] > 0 \/ limbo'[m] > 0) /\ (limbo' = Put(limbo, m) => limbo'[m] > 0)
  BY QueuesNat DEF Put
<1>3. \A j : InQueue(j)' <=> \E n \in Messages : n[1] = j /\ (ready'[n] > 0 \/ limbo'[n] > 0)
  <2>1. \A n \in Messages : ready'[n] \in Nat /\ limbo'[n] \in Nat
    BY DEF TypeOK, BrokerTypeOK
  <2>2. \A n \in Messages : ready'[n] + limbo'[n] > 0 <=> ready'[n] > 0 \/ limbo'[n] > 0
    BY <2>1
  <2>. QED BY <2>2 DEF InQueue
<1>4. \A j : InQueue(j) => InQueue(j)'
  BY <1>1, <1>3, QueuesNat
<1>. QED BY <1>1, <1>2, <1>3, <1>4 DEF QueueGrows, InLimbo

LEMMA Delivered ==
  ASSUME TypeOK, NEW w \in Workers, NEW m \in Messages, Deliver(w, m), NEW j
  PROVE  /\ InQueue(j) => InQueue(j)' \/ j = m[1]
         /\ InLimbo(j) => InLimbo(j)'
         /\ Claiming(w, m[1])' /\ job'[w] = m[1] /\ pc'[w] = "claim"
<1>1. \A n \in Messages : n # m => ready'[n] = ready[n]
  BY QueuesNat DEF Deliver, Take
<1>2. job'[w] = m[1] /\ pc'[w] = "claim"
  BY DEF Deliver, TypeOK, WorkerTypeOK
<1>3. limbo' = limbo
  BY DEF Deliver
<1>. QED BY <1>1, <1>2, <1>3 DEF InQueue, InLimbo, Claiming

LEMMA TimedOut ==
  ASSUME TypeOK, TypeOK', NEW m \in Messages, VisibilityTimeout(m), NEW j
  PROVE  /\ InQueue(j) => InQueue(j)'
         /\ InLimbo(j) => InLimbo(j)' \/ j = m[1]
         /\ InQueue(m[1])'
<1>1. /\ \A n \in Messages : ready'[n] \in Nat /\ limbo'[n] \in Nat
      /\ \A n \in Messages : ready[n] \in Nat /\ limbo[n] \in Nat
  BY DEF TypeOK, BrokerTypeOK
<1>2. /\ \A n \in Messages : n # m => ready'[n] = ready[n] /\ limbo'[n] = limbo[n]
      /\ ready'[m] > 0
  BY QueuesNat DEF VisibilityTimeout, Put, Take
<1>3. ready'[m] + limbo'[m] > 0
  BY <1>1, <1>2
<1>4. InQueue(m[1])'
  BY <1>3 DEF InQueue
<1>. QED BY <1>2, <1>4 DEF InQueue, InLimbo

(* What a step of a worker does to the row of its job. *)

SameRow(k) ==
  /\ status'[k] = status[k] /\ token'[k] = token[k] /\ lease'[k] = lease[k]
  /\ version'[k] = version[k]

LEMMA RowElsewhere ==
  ASSUME TypeOK, NEW j \in Jobs, NEW k \in Jobs \ {j},
         \/ \E s \in Status : SetStatus(j, s)
         \/ \E l \in {"live", "expired"} : SetLease(j, l)
         \/ ClaimRow(j) \/ ReleaseRow(j)
         \/ \E c \in {"transient", "permanent"} : FailRow(j, c)
         \/ \E t \in Tokens : SucceedRow(j, t)
  PROVE  SameRow(k)
BY DEF TypeOK, RowTypeOK, SetStatus, SetLease, ClaimRow, ReleaseRow, FailRow, SucceedRow,
       LeaveRunning, SameRow

LEMMA RowEnded ==
  ASSUME TypeOK, NEW j \in Jobs,
         \/ \E c \in {"transient", "permanent"} : FailRow(j, c)
         \/ \E t \in Tokens : SucceedRow(j, t)
  PROVE  status'[j] \in Terminal
BY DEF TypeOK, RowTypeOK, FailRow, SucceedRow, LeaveRunning, Terminal

\* A worker leaves the row alone, claims it, renews its lease, releases or ends it.
RowStep(w) ==
  LET j == job[w] IN
  \/ UNCHANGED jobVars
  \/ /\ pc[w] = "update" /\ ClaimMatches(w) /\ ClaimRow(j)
     /\ pc'[w] \in Holding /\ job'[w] = j /\ run'[w] = attempt[j] + 1
  \/ /\ Owns(w) /\ SetLease(j, "live") /\ pc[w] \in Holding
     /\ pc'[w] = pc[w] /\ job'[w] = j /\ run'[w] = run[w]
  \/ Owns(w) /\ ReleaseRow(j) /\ pc'[w] = "released" /\ job'[w] = j
  \/ Owns(w) /\ SucceedRow(j, run[w])
  \/ Owns(w) /\ FailRow(j, "permanent")
  \/ Exhausts(j) /\ FailRow(j, "transient")

LEMMA RowSteps ==
  ASSUME TypeOK, NEW w \in Workers, KeepsMessage(w), Steps(w)
  PROVE  RowStep(w)
<1>0. pc \in [Workers -> WorkerPC] /\ run \in [Workers -> Tokens \cup {0}]
  BY DEF TypeOK, WorkerTypeOK
<1>1. CASE \/ ClaimRead(w) \/ ListStale(w) \/ DeleteStale(w) \/ PersistFrames(w)
           \/ PersistManifest(w) \/ CleanLost(w) \/ RetrySend(w) \/ SettleMessage(w)
           \/ RunFails(w) \/ UploadFails(w) \/ HostCrash(w)
  BY <1>1
  DEF RowStep, ClaimRead, ListStale, DeleteStale, PersistFrames, PersistManifest, CleanLost,
      RetrySend, SettleMessage, RunFails, UploadFails, HostCrash
<1>2. CASE ClaimUpdate(w)
  <2>1. CASE ClaimMatches(w)
    BY <1>0, <1>2, <2>1 DEF ClaimUpdate, RowStep, Holding, Running
  <2>. QED BY <1>2, <2>1 DEF ClaimUpdate, RowStep
<1>3. CASE Succeed(w) \/ SucceedAmbiguous(w)
  BY <1>3 DEF Succeed, SucceedAmbiguous, MayComplete, RowStep
<1>4. CASE FailPermanent(w) \/ FailQueued(w)
  BY <1>4 DEF FailPermanent, FailQueued, RowStep
<1>5. CASE Release(w)
  <2>1. CASE Owns(w) /\ ReleaseRow(job[w]) /\ AfterRelease(w)
    <3>1. polls[w] = 0
      BY DEF KeepsMessage
    <3>2. pc'[w] = "released" /\ job'[w] = job[w]
      BY <1>0, <2>1, <3>1 DEF AfterRelease, Settle
    <3>. QED BY <2>1, <3>2 DEF RowStep
  <2>. QED BY <1>5, <2>1 DEF Release, RowStep
<1>6. CASE Heartbeat(w)
  BY <1>6 DEF Heartbeat, RowStep, Beating, Holding, Running
<1>. QED BY <1>1, <1>2, <1>3, <1>4, <1>5, <1>6 DEF Steps, WorkerStep

\* What it does to the queues: nothing is taken from them.
LEMMA QueuesStep ==
  ASSUME TypeOK, TypeOK', NEW w \in Workers, KeepsMessage(w), Steps(w), NEW k
  PROVE  /\ QueueGrows(k)
         /\ RetrySend(w) /\ job[w] = k => InQueue(k)'
         /\ HostCrash(w) /\ job[w] = k => InQueue(k)' /\ InLimbo(k)'
<1>1. ASSUME RetrySend(w)
      PROVE  QueueGrows(k) /\ (job[w] = k => InQueue(k)')
  <2>1. <<job[w], retries[w] + 1>> \in Messages
    BY <1>1, BusyWorker DEF RetrySend, TypeOK, WorkerTypeOK
  <2>2. PICK m \in Messages : m[1] = job[w] /\ ready' = Put(ready, m) /\ limbo' = limbo
    BY <1>1, <2>1 DEF RetrySend
  <2>. QED BY <2>2, Sent
<1>2. ASSUME HostCrash(w)
      PROVE  QueueGrows(k) /\ (job[w] = k => InQueue(k)' /\ InLimbo(k)')
  <2>1. Message(w) \in Messages /\ Message(w)[1] = job[w]
    BY <1>2, BusyWorker DEF HostCrash, TypeOK, Message
  <2>2. PICK m \in Messages : m[1] = job[w] /\ limbo' = Put(limbo, m) /\ ready' = ready
    BY <1>2, <2>1 DEF HostCrash, KeepsMessage
  <2>. QED BY <2>2, Sent
<1>3. CASE ~RetrySend(w) /\ ~HostCrash(w)
  <2>1. UNCHANGED <<ready, limbo>>
    BY <1>3
    DEF Steps, WorkerStep, Heartbeat, ClaimRead, ClaimUpdate, ListStale, DeleteStale,
        PersistFrames, PersistManifest, Succeed, CleanLost, FailPermanent, Release, FailQueued,
        SettleMessage, SucceedAmbiguous, RunFails, UploadFails, brokerVars
  <2>. QED BY <1>3, <2>1, SameQueue
<1>. QED BY <1>1, <1>2, <1>3

(* A job stays driven. *)

\* A step of a worker that leaves the job's row alone, whatever part the worker has had.
LEMMA DrivenOn ==
  ASSUME NEW k \in Jobs, Driven(k), SameRow(k), QueueGrows(k),
         NEW w \in Workers, \A v \in Workers \ {w} : Stays(v),
         status[k] = "QUEUED" /\ (Claiming(w, k) \/ (job[w] = k /\ pc[w] = "released")) =>
           Waits(k)',
         status[k] = "RUNNING" /\ job[w] = k /\ pc[w] \in Holding /\ run[w] = token[k] =>
           OwnerAlive(k)' \/ InLimbo(k)',
         status[k] = "RUNNING" /\ lease[k] = "expired" /\ Claiming(w, k) =>
           Waits(k)' \/ InLimbo(k)'
  PROVE  Driven(k)'
<1>1. \A v \in Workers \ {w} :
        /\ Claiming(v, k) => Claiming(v, k)'
        /\ job[v] = k /\ pc[v] = "released" => job'[v] = k /\ pc'[v] = "released"
        /\ job[v] = k /\ pc[v] \in Holding /\ run[v] = token[k] =>
             job'[v] = k /\ pc'[v] \in Holding /\ run'[v] = token'[k]
  BY DEF Stays, SameRow, Claiming
<1>2. ASSUME status[k] = "QUEUED" PROVE Waits(k)' \/ Releasing(k)'
  <2>1. CASE InQueue(k)
    BY <2>1 DEF QueueGrows, Waits
  <2>2. CASE Claiming(w, k) \/ (job[w] = k /\ pc[w] = "released")
    BY <1>2, <2>2
  <2>3. ASSUME NEW v \in Workers \ {w}, Claiming(v, k) PROVE Waits(k)'
    BY <1>1, <2>3 DEF Waits
  <2>4. ASSUME NEW v \in Workers \ {w}, job[v] = k, pc[v] = "released" PROVE Releasing(k)'
    BY <1>1, <2>4 DEF Releasing
  <2>. QED BY <1>2, <2>1, <2>2, <2>3, <2>4 DEF Driven, Waits, Releasing
<1>3. ASSUME status[k] = "RUNNING"
      PROVE  OwnerAlive(k)' \/ InLimbo(k)' \/ (lease'[k] = "expired" /\ Waits(k)')
  <2>1. CASE InLimbo(k)
    BY <2>1 DEF QueueGrows
  <2>2. CASE OwnerAlive(k)
    <3>1. PICK v \in Workers : job[v] = k /\ pc[v] \in Holding /\ run[v] = token[k]
      BY <2>2 DEF OwnerAlive
    <3>2. CASE v = w
      BY <1>3, <3>1, <3>2
    <3>3. CASE v # w
      BY <1>1, <3>1, <3>3 DEF OwnerAlive
    <3>. QED BY <3>2, <3>3
  <2>3. CASE lease[k] = "expired" /\ Waits(k)
    <3>1. lease'[k] = "expired"
      BY <2>3 DEF SameRow
    <3>2. CASE InQueue(k)
      BY <3>1, <3>2 DEF QueueGrows, Waits
    <3>3. CASE Claiming(w, k)
      BY <1>3, <2>3, <3>1, <3>3
    <3>4. ASSUME NEW v \in Workers \ {w}, Claiming(v, k) PROVE Waits(k)'
      BY <1>1, <3>4 DEF Waits
    <3>. QED BY <2>3, <3>1, <3>2, <3>3, <3>4 DEF Waits
  <2>. QED BY <1>3, <2>1, <2>2, <2>3 DEF Driven
<1>. QED BY <1>2, <1>3 DEF Driven, SameRow

\* A worker that goes on with its run still owns what it owned.
LEMMA DrivenByRun ==
  ASSUME NEW k \in Jobs, Driven(k), SameRow(k), QueueGrows(k),
         NEW w \in Workers, \A v \in Workers \ {w} : Stays(v),
         pc[w] \in Holding, pc'[w] \in Holding, job'[w] = job[w], run'[w] = run[w]
  PROVE  Driven(k)'
<1>1. ~Claiming(w, k) /\ pc[w] # "released"
  BY DEF Claiming, Holding, Running, Failing
<1>2. job[w] = k /\ run[w] = token[k] => OwnerAlive(k)'
  BY DEF OwnerAlive, SameRow
<1>. QED BY <1>1, <1>2, DrivenOn

\* A worker that is no driver of the job may do as it likes.
LEMMA DrivenWithout ==
  ASSUME NEW k \in Jobs, Driven(k), SameRow(k), QueueGrows(k),
         NEW w \in Workers, \A v \in Workers \ {w} : Stays(v),
         \/ job[w] # k
         \/ pc[w] = "done"
         \/ pc[w] \in Holding /\ run[w] # token[k]
         \/ pc[w] = "released" /\ status[k] # "QUEUED"
         \/ pc[w] \in {"claim", "update"} /\ (Claiming(w, k) => ~Claimable(k))
  PROVE  Driven(k)'
<1>1. CASE job[w] # k \/ pc[w] = "done"
  BY <1>1, DrivenOn DEF Claiming, Holding, Running, Failing
<1>2. CASE pc[w] \in Holding /\ run[w] # token[k]
  BY <1>2, DrivenOn DEF Claiming, Holding, Running, Failing
<1>3. CASE pc[w] = "released" /\ status[k] # "QUEUED"
  BY <1>3, DrivenOn DEF Claiming, Holding, Running, Failing
<1>4. CASE pc[w] \in {"claim", "update"} /\ (Claiming(w, k) => ~Claimable(k))
  BY <1>4, DrivenOn DEF Claimable, Holding, Running, Failing
<1>. QED BY <1>1, <1>2, <1>3, <1>4

\* A step of a worker leaves every job driven.
LEMMA WorkerDrives ==
  ASSUME TypeOK, TypeOK', NEW w \in Workers, KeepsMessage(w), Steps(w),
         NEW k \in Jobs, Driven(k)
  PROVE  Driven(k)'
<1>0. /\ pc \in [Workers -> WorkerPC] /\ job \in [Workers -> Jobs \cup {NoJob}]
      /\ run \in [Workers -> Tokens \cup {0}] /\ seen \in [Workers -> Nat]
  BY DEF TypeOK, WorkerTypeOK
<1>1. pc[w] # "idle" /\ job[w] \in Jobs
  <2>1. pc[w] # "idle"
    BY DEF Steps, WorkerStep, Heartbeat, Beating, ClaimRead, ClaimUpdate, ListStale, DeleteStale,
           PersistFrames, PersistManifest, Succeed, CleanLost, FailPermanent, Release, RetrySend,
           FailQueued, SettleMessage, SucceedAmbiguous, RunFails, UploadFails, HostCrash, Failing
  <2>. QED BY <2>1, BusyWorker DEF TypeOK
<1>2. \A v \in Workers \ {w} : Stays(v)
  BY OthersStay
<1>3. QueueGrows(k)
  BY QueuesStep
<1>4. RowStep(w)
  BY RowSteps
<1>5. CASE job[w] # k
  <2>1. SameRow(k)
    <3>1. CASE UNCHANGED jobVars
      BY <3>1 DEF jobVars, SameRow
    <3>2. CASE ClaimRow(job[w]) \/ SetLease(job[w], "live") \/ ReleaseRow(job[w])
               \/ FailRow(job[w], "permanent") \/ FailRow(job[w], "transient")
      BY <1>1, <1>5, <3>2, RowElsewhere
    <3>3. CASE Owns(w) /\ SucceedRow(job[w], run[w])
      <4>1. run[w] \in Tokens
        BY <1>0, <1>1, <3>3 DEF Owns, TypeOK, RowTypeOK
      <4>. QED BY <1>1, <1>5, <3>3, <4>1, RowElsewhere
    <3>. QED BY <1>4, <3>1, <3>2, <3>3 DEF RowStep
  <2>. QED BY <1>2, <1>3, <1>5, <2>1, DrivenWithout
<1>6. CASE job[w] = k /\ ~UNCHANGED jobVars
  <2>1. CASE ClaimRow(k) /\ pc'[w] \in Holding /\ job'[w] = k /\ run'[w] = attempt[k] + 1
    <3>1. token'[k] = run'[w] /\ status'[k] = "RUNNING"
      BY <2>1 DEF ClaimRow, TypeOK, RowTypeOK
    <3>. QED BY <2>1, <3>1 DEF Driven, OwnerAlive
  <2>2. CASE /\ Owns(w) /\ SetLease(k, "live") /\ pc[w] \in Holding
             /\ pc'[w] = pc[w] /\ job'[w] = k /\ run'[w] = run[w]
    <3>1. status'[k] = "RUNNING" /\ token'[k] = run[w]
      BY <1>6, <2>2 DEF Owns, SetLease
    <3>. QED BY <2>2, <3>1 DEF Driven, OwnerAlive
  <2>3. CASE ReleaseRow(k) /\ pc'[w] = "released" /\ job'[w] = k
    <3>1. status'[k] = "QUEUED"
      BY <2>3 DEF ReleaseRow, LeaveRunning, TypeOK, RowTypeOK
    <3>. QED BY <2>3, <3>1 DEF Driven, Releasing
  <2>4. CASE FailRow(k, "permanent") \/ FailRow(k, "transient")
    <3>1. status'[k] \in Terminal
      BY <2>4, RowEnded
    <3>. QED BY <3>1 DEF Driven, Terminal
  <2>5. CASE Owns(w) /\ SucceedRow(k, run[w])
    <3>1. status'[k] = "SUCCEEDED"
      BY <2>5 DEF SucceedRow, LeaveRunning, TypeOK, RowTypeOK
    <3>. QED BY <3>1 DEF Driven
  <2>. QED BY <1>4, <1>6, <2>1, <2>2, <2>3, <2>4, <2>5 DEF RowStep
<1>7. CASE job[w] = k /\ UNCHANGED jobVars
  <2>0. SameRow(k)
    BY <1>7 DEF jobVars, SameRow
  <2>1. CASE pc[w] \in Holding /\ pc'[w] \in Holding /\ job'[w] = job[w] /\ run'[w] = run[w]
    BY <1>2, <1>3, <2>0, <2>1, DrivenByRun
  <2>2. CASE pc[w] \in Holding /\ run[w] # token[k]
    BY <1>2, <1>3, <2>0, <2>2, DrivenWithout
  <2>3. ASSUME Goto(w, "transient") \/ Goto(w, "permanent") \/ Goto(w, "lost")
               \/ Goto(w, "frames") \/ Goto(w, "persisted") \/ Goto(w, "deleting"),
               pc[w] \in Holding
        PROVE  Driven(k)'
    <3>1. pc'[w] \in Holding /\ job'[w] = job[w] /\ run'[w] = run[w]
      BY <1>0, <2>3 DEF Goto, memory, Holding, Running, Failing
    <3>. QED BY <2>1, <2>3, <3>1
  <2>4. CASE \/ ListStale(w) \/ PersistFrames(w) \/ PersistManifest(w) \/ RunFails(w)
             \/ UploadFails(w)
    BY <2>3, <2>4
    DEF ListStale, PersistFrames, PersistManifest, RunFails, UploadFails, Holding, Running
  <2>5. CASE DeleteStale(w)
    <3>1. CASE Goto(w, "transient")
      BY <2>3, <2>5, <3>1 DEF DeleteStale, Holding, Running
    <3>2. CASE /\ pc' = [pc EXCEPT ![w] = "running"]
               /\ UNCHANGED <<job, retries, held, polls, seen, run, lost>>
      BY <1>0, <2>1, <2>5, <3>2 DEF DeleteStale, Holding, Running
    <3>. QED BY <2>5, <3>1, <3>2 DEF DeleteStale
  <2>6. CASE Heartbeat(w)
    BY <2>1, <2>6 DEF Heartbeat, Beating, Holding, Running
  <2>7. CASE Succeed(w) \/ SucceedAmbiguous(w)
    <3>1. CASE Goto(w, "lost")
      BY <2>3, <2>7, <3>1 DEF Succeed, SucceedAmbiguous, Holding, Running
    <3>2. CASE MayComplete(w) /\ SucceedRow(job[w], run[w])
      <4>1. status'[k] # status[k]
        BY <1>7, <3>2 DEF MayComplete, Owns, SucceedRow, LeaveRunning, TypeOK, RowTypeOK
      <4>. QED BY <2>0, <4>1 DEF SameRow
    <3>. QED BY <2>7, <3>1, <3>2 DEF Succeed, SucceedAmbiguous
  <2>8. CASE CleanLost(w)
    BY <1>7, <2>2, <2>8 DEF CleanLost, KeepsMessage, Holding
  <2>9. CASE FailPermanent(w) \/ Release(w)
    <3>1. pc[w] \in Holding
      BY <2>9 DEF FailPermanent, Release, Holding, Failing
    <3>2. CASE ~Owns(w)
      <4>1. run[w] # token[k]
        BY <1>7, <3>1, <3>2, OwnRunType DEF Owns, TypeOK, RowTypeOK
      <4>. QED BY <2>2, <3>1, <4>1
    <3>3. CASE Owns(w)
      <4>1. FailRow(k, "permanent") \/ ReleaseRow(k)
        BY <1>7, <2>9, <3>3 DEF FailPermanent, Release
      <4>2. status'[k] # status[k]
        BY <1>7, <3>3, <4>1
        DEF Owns, FailRow, ReleaseRow, LeaveRunning, TypeOK, RowTypeOK
      <4>. QED BY <2>0, <4>2 DEF SameRow
    <3>. QED BY <3>2, <3>3
  <2>10. CASE RetrySend(w)
    <3>1. InQueue(k)' /\ pc[w] = "released"
      BY <1>7, <2>10, QueuesStep DEF RetrySend
    <3>2. CASE status[k] # "QUEUED"
      BY <1>2, <1>3, <2>0, <3>1, <3>2, DrivenWithout
    <3>3. CASE status[k] = "QUEUED"
      BY <2>0, <3>1, <3>3 DEF SameRow, Driven, Waits
    <3>. QED BY <3>2, <3>3
  <2>11. CASE FailQueued(w)
    <3>1. status[k] # "QUEUED"
      <4>1. CASE ~Exhausts(k)
        BY <4>1 DEF Exhausts, TypeOK, RowTypeOK
      <4>2. CASE Exhausts(k)
        <5>1. FailRow(k, "transient")
          BY <1>7, <2>11, <4>2 DEF FailQueued
        <5>2. status'[k] = "FAILED"
          BY <5>1 DEF FailRow, LeaveRunning, TypeOK, RowTypeOK
        <5>. QED BY <2>0, <5>2 DEF SameRow
      <4>. QED BY <4>1, <4>2
    <3>. QED BY <1>2, <1>3, <2>0, <2>11, <3>1, DrivenWithout DEF FailQueued
  <2>12. CASE SettleMessage(w)
    BY <1>2, <1>3, <2>0, <2>12, DrivenWithout DEF SettleMessage
  <2>13. CASE ClaimRead(w)
    <3>1. CASE Claimable(k)
      <4>1. job'[w] = k /\ pc'[w] = "update" /\ seen'[w] = version'[k]
        BY <1>0, <1>7, <2>0, <2>13, <3>1 DEF ClaimRead, SameRow
      <4>2. Waits(k)'
        BY <4>1 DEF Waits, Claiming
      <4>. QED BY <1>2, <1>3, <2>0, <2>13, <4>2, DrivenOn DEF ClaimRead, Holding, Running, Failing
    <3>2. CASE ~Claimable(k)
      BY <1>2, <1>3, <2>0, <2>13, <3>2, DrivenWithout DEF ClaimRead
    <3>. QED BY <3>1, <3>2
  <2>14. CASE ClaimUpdate(w)
    <3>1. CASE ~ClaimMatches(w)
      <4>1. pc[w] = "update" /\ (Claiming(w, k) => ~Claimable(k))
        BY <1>7, <2>14, <3>1 DEF ClaimUpdate, ClaimMatches, Claiming
      <4>. QED BY <1>2, <1>3, <2>0, <4>1, DrivenWithout
    <3>2. CASE ClaimMatches(w)
      <4>1. version[k] \in Nat /\ version' = [version EXCEPT ![k] = @ + 1]
        BY <1>7, <2>14, <3>2 DEF ClaimUpdate, ClaimRow, TypeOK, RowTypeOK
      <4>2. version'[k] # version[k]
        BY <4>1 DEF TypeOK, RowTypeOK
      <4>. QED BY <2>0, <4>2 DEF SameRow
    <3>. QED BY <3>1, <3>2
  <2>15. CASE HostCrash(w)
    <3>1. InQueue(k)' /\ InLimbo(k)'
      BY <1>7, <2>15, QueuesStep
    <3>. QED BY <2>0, <3>1 DEF SameRow, Driven, Waits
  <2>. QED
    BY <2>4, <2>5, <2>6, <2>7, <2>8, <2>9, <2>10, <2>11, <2>12, <2>13, <2>14, <2>15
    DEF Steps, WorkerStep
<1>. QED BY <1>5, <1>6, <1>7

\* So does every other step.
LEMMA OthersDrive ==
  ASSUME Faults \subseteq ToleratedFaults, TypeOK, TypeOK', DispatchInv,
         NEW k \in Jobs, Driven(k),
         \/ \E p \in Publishers : PublishSend(p) \/ PublishCommit(p) \/ PublishRollback(p)
         \/ \E j \in Jobs : CreateJob(j) \/ LeaseExpires(j)
         \/ \E m \in Messages : VisibilityTimeout(m)
         \/ \E w \in Workers, m \in Messages : Deliver(w, m)
  PROVE  Driven(k)'
<1>1. ASSUME UNCHANGED workerVars, SameRow(k), QueueGrows(k) PROVE Driven(k)'
  <2>1. /\ Waits(k) => Waits(k)'
        /\ Releasing(k) => Releasing(k)'
        /\ OwnerAlive(k) => OwnerAlive(k)'
    BY <1>1 DEF workerVars, memory, SameRow, QueueGrows, Waits, Claiming, Releasing, OwnerAlive
  <2>. QED BY <1>1, <2>1 DEF SameRow, QueueGrows, Driven
<1>2. ASSUME NEW p \in Publishers, PublishSend(p) PROVE Driven(k)'
  <2>1. PICK j \in Jobs : ready' = Put(ready, <<j, 0>>)
    BY <1>2 DEF PublishSend
  <2>2. <<j, 0>> \in Messages
    OBVIOUS
  <2>3. QueueGrows(k)
    BY <1>2, <2>1, <2>2, Sent DEF PublishSend
  <2>. QED BY <1>1, <1>2, <2>3 DEF PublishSend, jobVars, SameRow
<1>3. ASSUME NEW p \in Publishers, PublishCommit(p) PROVE Driven(k)'
  <2>0. sending[p] \in Jobs /\ UNCHANGED workerVars /\ UNCHANGED <<ready, limbo>>
    BY <1>3 DEF PublishCommit, TypeOK, BrokerTypeOK, brokerVars
  <2>1. CASE SameRow(k)
    BY <1>1, <2>0, <2>1, SameQueue
  <2>2. CASE k = sending[p] /\ SetStatus(k, "QUEUED")
    <3>1. status'[k] = "QUEUED"
      BY <2>2 DEF SetStatus, TypeOK, RowTypeOK
    <3>2. InQueue(k)' \/ AtClaim(k)'
      <4>1. InQueue(k) \/ AtClaim(k)
        BY <1>3, <2>2 DEF PublishCommit, DispatchInv
      <4>. QED BY <2>0, <4>1, SameQueue DEF QueueGrows, AtClaim, workerVars
    <3>. QED BY <3>1, <3>2 DEF Driven, Waits, AtClaim, Claiming
  <2>3. k # sending[p] /\ SetStatus(sending[p], "QUEUED") => SameRow(k)
    BY <2>0, RowElsewhere DEF Status
  <2>. QED BY <1>3, <2>1, <2>2, <2>3 DEF PublishCommit, jobVars, SameRow
<1>4. ASSUME NEW p \in Publishers, PublishRollback(p) PROVE Driven(k)'
  BY <1>1, <1>4, SameQueue DEF PublishRollback, jobVars, SameRow, brokerVars
<1>5. ASSUME NEW j \in Jobs, CreateJob(j) PROVE Driven(k)'
  <2>1. CASE j = k
    BY <1>5, <2>1 DEF CreateJob, SetStatus, TypeOK, RowTypeOK, Driven
  <2>2. CASE j # k
    <3>1. SameRow(k)
      BY <1>5, <2>2, RowElsewhere DEF CreateJob, Status
    <3>. QED BY <1>1, <1>5, <3>1, SameQueue DEF CreateJob, brokerVars
  <2>. QED BY <2>1, <2>2
<1>6. ASSUME NEW j \in Jobs, LeaseExpires(j) PROVE Driven(k)'
  <2>0. UNCHANGED workerVars /\ UNCHANGED <<ready, limbo>> /\ SetLease(j, "expired")
        /\ lease[j] = "live"
    BY <1>6 DEF LeaseExpires, brokerVars
  <2>1. CASE j = k
    <3>1. UNCHANGED <<status, token>>
      BY <2>0 DEF SetLease
    <3>2. status[k] = "RUNNING"
      BY <2>0, <2>1 DEF TypeOK, RowTypeOK
    <3>3. OwnerAlive(k) => OwnerAlive(k)'
      BY <2>0, <3>1 DEF OwnerAlive, workerVars, memory
    <3>4. InLimbo(k) => InLimbo(k)'
      BY <2>0, SameQueue DEF QueueGrows
    <3>. QED BY <2>0, <2>1, <3>1, <3>2, <3>3, <3>4 DEF Driven
  <2>2. CASE j # k
    <3>1. SameRow(k)
      BY <2>0, <2>2, RowElsewhere
    <3>. QED BY <1>1, <2>0, <3>1, SameQueue
  <2>. QED BY <2>1, <2>2
<1>7. ASSUME NEW m \in Messages, VisibilityTimeout(m) PROVE Driven(k)'
  <2>0. UNCHANGED workerVars /\ SameRow(k)
    BY <1>7 DEF VisibilityTimeout, jobVars, SameRow
  <2>1. CASE k # m[1]
    <3>1. QueueGrows(k)
      BY <1>7, <2>1, TimedOut DEF QueueGrows
    <3>. QED BY <1>1, <2>0, <3>1
  <2>2. CASE k = m[1]
    <3>1. InQueue(k)'
      BY <1>7, <2>2, TimedOut
    <3>2. OwnerAlive(k) => OwnerAlive(k)'
      BY <2>0 DEF OwnerAlive, workerVars, memory, SameRow
    <3>3. status[k] = "RUNNING" => OwnerAlive(k) \/ lease[k] = "expired"
      <4>1. OwnerAlive(k) \/ lease[k] # "live"
        BY <1>7, <2>2, Untolerated
      <4>. QED BY <4>1 DEF TypeOK, RowTypeOK
    <3>. QED BY <2>0, <3>1, <3>2, <3>3 DEF SameRow, Driven, Waits
  <2>. QED BY <2>1, <2>2
<1>8. ASSUME NEW w \in Workers, NEW m \in Messages, Deliver(w, m) PROVE Driven(k)'
  <2>0. SameRow(k) /\ pc[w] = "idle"
    BY <1>8 DEF Deliver, jobVars, SameRow
  <2>1. \A v \in Workers \ {w} : Stays(v)
    BY <1>8, OthersStay
  <2>2. /\ \A v \in Workers : v # w /\ Claiming(v, k) => Claiming(v, k)'
        /\ ~Claiming(w, k)
    BY <2>0, <2>1 DEF Stays, SameRow, Claiming
  <2>3. /\ Releasing(k) => Releasing(k)'
        /\ OwnerAlive(k) => OwnerAlive(k)'
    BY <2>0, <2>1
    DEF Stays, SameRow, Releasing, OwnerAlive, Holding, Running, Failing
  <2>4. (InQueue(k) => InQueue(k)' \/ Claiming(w, k)') /\ (InLimbo(k) => InLimbo(k)')
    BY <1>8, Delivered
  <2>5. Waits(k) => Waits(k)'
    BY <2>2, <2>4 DEF Waits
  <2>. QED BY <2>0, <2>3, <2>4, <2>5 DEF SameRow, Driven
<1>. QED BY <1>2, <1>3, <1>4, <1>5, <1>6, <1>7, <1>8

(* The dispatch. *)

\* Steps that leave the events alone neither queue a job nor take its message away.
LEMMA DispatchOn ==
  ASSUME DispatchInv, UNCHANGED outboxVars,
         \A j \in Jobs : status'[j] = "PENDING_DISPATCH" <=> status[j] = "PENDING_DISPATCH",
         \A p \in Publishers : sending[p] # NoJob /\ (InQueue(sending[p]) \/ AtClaim(sending[p]))
           => InQueue(sending[p])' \/ AtClaim(sending[p])'
  PROVE  DispatchInv'
BY DEF DispatchInv, outboxVars

LEMMA WorkerDispatch ==
  ASSUME TypeOK, TypeOK', NEW w \in Workers, KeepsMessage(w), Steps(w), DispatchInv
  PROVE  DispatchInv'
<1>1. UNCHANGED outboxVars
  BY DEF Steps, WorkerStep, Heartbeat, ClaimRead, ClaimUpdate, ListStale, DeleteStale,
         PersistFrames, PersistManifest, Succeed, CleanLost, FailPermanent, Release, RetrySend,
         FailQueued, SettleMessage, SucceedAmbiguous, RunFails, UploadFails, HostCrash
<1>2. \A j \in Jobs : status'[j] = "PENDING_DISPATCH" <=> status[j] = "PENDING_DISPATCH"
  BY RowSteps
  DEF RowStep, jobVars, ClaimMatches, Claimable, Owns, Exhausts, ClaimRow, SetLease, ReleaseRow,
      SucceedRow, FailRow, LeaveRunning, TypeOK, RowTypeOK
<1>3. ASSUME NEW p \in Publishers, sending[p] # NoJob,
             InQueue(sending[p]) \/ AtClaim(sending[p])
      PROVE  InQueue(sending[p])' \/ AtClaim(sending[p])'
  <2>1. PICK j \in Jobs : j = sending[p]
    BY <1>3 DEF TypeOK, BrokerTypeOK
  <2>2. sending'[p] = j /\ status[j] = "PENDING_DISPATCH"
    BY <1>1, <1>3, <2>1 DEF outboxVars, DispatchInv
  <2>3. InQueue(j) => InQueue(j)'
    BY QueuesStep DEF QueueGrows
  <2>4. ASSUME NEW v \in Workers, job[v] = j, pc[v] = "claim"
        PROVE  InQueue(j)' \/ AtClaim(j)'
    <3>1. CASE v # w
      <4>1. job'[v] = j /\ pc'[v] = "claim"
        BY <2>4, <3>1, OthersStay DEF Stays
      <4>. QED BY <4>1 DEF AtClaim
    <3>2. CASE v = w
      <4>1. HostCrash(w)
        BY <2>2, <2>4, <3>2
        DEF Steps, WorkerStep, Heartbeat, Beating, ClaimRead, ClaimUpdate, ListStale, DeleteStale,
            PersistFrames, PersistManifest, Succeed, CleanLost, FailPermanent, Release, RetrySend,
            FailQueued, SettleMessage, SucceedAmbiguous, RunFails, UploadFails
      <4>. QED BY <2>4, <3>2, <4>1, QueuesStep
    <3>. QED BY <3>1, <3>2
  <2>5. InQueue(j) \/ AtClaim(j)
    BY <1>3, <2>1
  <2>6. InQueue(j)' \/ AtClaim(j)'
    BY <2>3, <2>4, <2>5 DEF AtClaim
  <2>. QED BY <1>1, <2>1, <2>2, <2>6 DEF outboxVars
<1>. QED BY <1>1, <1>2, <1>3, DispatchOn

LEMMA OthersDispatch ==
  ASSUME TypeOK, TypeOK', DispatchInv,
         \/ \E p \in Publishers : PublishSend(p) \/ PublishCommit(p) \/ PublishRollback(p)
         \/ \E j \in Jobs : CreateJob(j) \/ LeaseExpires(j)
         \/ \E m \in Messages : VisibilityTimeout(m)
         \/ \E w \in Workers, m \in Messages : Deliver(w, m)
  PROVE  DispatchInv'
<1>0. /\ sending \in [Publishers -> Jobs \cup {NoJob}]
      /\ outbox \in [Jobs -> {"none", "pending", "published"}]
      /\ status \in [Jobs -> Status]
  BY DEF TypeOK, BrokerTypeOK, RowTypeOK
<1>1. ASSUME NEW p \in Publishers, PublishSend(p) PROVE DispatchInv'
  <2>1. PICK j \in Jobs : /\ outbox[j] = "pending"
                          /\ \A q \in Publishers : sending[q] # j
                          /\ sending' = [sending EXCEPT ![p] = j]
                          /\ ready' = Put(ready, <<j, 0>>)
    BY <1>1 DEF PublishSend
  <2>2. PICK m \in Messages : m[1] = j /\ ready' = Put(ready, m)
    BY <2>1
  <2>3. InQueue(j)' /\ \A k : InQueue(k) => InQueue(k)'
    BY <1>1, <2>2, Sent DEF PublishSend, QueueGrows
  <2>4. \A k : AtClaim(k) => AtClaim(k)'
    BY <1>1 DEF PublishSend, AtClaim, workerVars
  <2>5. UNCHANGED <<outbox, status>>
    BY <1>1 DEF PublishSend, jobVars
  <2>6. \A q \in Publishers : sending'[q] = IF q = p THEN j ELSE sending[q]
    BY <1>0, <2>1
  <2>7. ASSUME NEW q \in Publishers, sending'[q] # NoJob
        PROVE  /\ outbox'[sending'[q]] = "pending"
               /\ InQueue(sending[q])' \/ AtClaim(sending[q])'
    <3>1. CASE q = p
      <4>1. sending'[q] = j
        BY <2>6, <3>1
      <4>. QED BY <2>1, <2>3, <2>5, <4>1
    <3>2. CASE q # p
      <4>1. PICK k \in Jobs : k = sending[q] /\ sending'[q] = k
        BY <1>0, <2>6, <2>7, <3>2
      <4>2. outbox[k] = "pending" /\ (InQueue(k) \/ AtClaim(k))
        BY <2>7, <4>1 DEF DispatchInv
      <4>. QED BY <2>3, <2>4, <2>5, <4>1, <4>2
    <3>. QED BY <3>1, <3>2
  <2>. QED BY <2>1, <2>5, <2>6, <2>7 DEF DispatchInv
<1>2. ASSUME NEW p \in Publishers, PublishCommit(p) PROVE DispatchInv'
  <2>1. PICK j \in Jobs : sending[p] = j
    BY <1>0, <1>2 DEF PublishCommit
  <2>2. /\ outbox' = [outbox EXCEPT ![j] = "published"]
        /\ SetStatus(j, "QUEUED") /\ sending' = [sending EXCEPT ![p] = NoJob]
        /\ UNCHANGED <<ready, limbo>> /\ UNCHANGED <<pc, job>>
    BY <1>2, <2>1 DEF PublishCommit, DispatchInv, brokerVars, workerVars
  <2>3. \A k \in Jobs : /\ outbox'[k] = IF k = j THEN "published" ELSE outbox[k]
                        /\ status'[k] = IF k = j THEN "QUEUED" ELSE status[k]
    BY <1>0, <2>2 DEF SetStatus
  <2>4. \A q \in Publishers : sending'[q] = IF q = p THEN NoJob ELSE sending[q]
    BY <1>0, <2>2
  <2>5. \A k : (InQueue(k) => InQueue(k)') /\ (AtClaim(k) => AtClaim(k)')
    BY <2>2, SameQueue DEF QueueGrows, AtClaim
  <2>6. ASSUME NEW q \in Publishers, sending'[q] # NoJob
        PROVE  /\ outbox'[sending'[q]] = "pending"
               /\ InQueue(sending[q])' \/ AtClaim(sending[q])'
    <3>1. q # p
      BY <2>4, <2>6
    <3>2. PICK k \in Jobs : k = sending[q] /\ sending'[q] = k
      BY <1>0, <2>4, <2>6, <3>1
    <3>3. k # j
      BY <2>1, <2>6, <3>1, <3>2, <1>2 DEF DispatchInv, PublishCommit
    <3>4. outbox[k] = "pending" /\ (InQueue(k) \/ AtClaim(k))
      BY <2>6, <3>2 DEF DispatchInv
    <3>. QED BY <2>3, <2>5, <3>2, <3>3, <3>4
  <2>. QED BY <2>3, <2>4, <2>6 DEF DispatchInv
<1>3. ASSUME NEW p \in Publishers, PublishRollback(p) PROVE DispatchInv'
  <2>1. \A q \in Publishers : sending'[q] = IF q = p THEN NoJob ELSE sending[q]
    BY <1>0, <1>3 DEF PublishRollback
  <2>2. UNCHANGED <<outbox, status, ready, limbo, pc, job>>
    BY <1>3 DEF PublishRollback, jobVars, brokerVars, workerVars
  <2>3. \A k : (InQueue(k) => InQueue(k)') /\ (AtClaim(k) => AtClaim(k)')
    BY <2>2, SameQueue DEF QueueGrows, AtClaim
  <2>4. ASSUME NEW q \in Publishers, sending'[q] # NoJob
        PROVE  /\ outbox'[sending'[q]] = "pending"
               /\ InQueue(sending[q])' \/ AtClaim(sending[q])'
    <3>1. PICK k \in Jobs : k = sending[q] /\ sending'[q] = k
      BY <1>0, <2>1, <2>4
    <3>. QED BY <2>2, <2>3, <2>4, <3>1 DEF DispatchInv
  <2>. QED BY <2>1, <2>2, <2>4 DEF DispatchInv
<1>4. ASSUME NEW j \in Jobs, CreateJob(j) PROVE DispatchInv'
  <2>1. \A k \in Jobs : /\ outbox'[k] = IF k = j THEN "pending" ELSE outbox[k]
                        /\ status'[k] = IF k = j THEN "PENDING_DISPATCH" ELSE status[k]
    BY <1>0, <1>4 DEF CreateJob, SetStatus
  <2>2. UNCHANGED <<sending, ready, limbo, pc, job>>
    BY <1>4 DEF CreateJob, brokerVars, workerVars
  <2>3. \A k : (InQueue(k) => InQueue(k)') /\ (AtClaim(k) => AtClaim(k)')
    BY <2>2, SameQueue DEF QueueGrows, AtClaim
  <2>. QED BY <1>0, <2>1, <2>2, <2>3 DEF DispatchInv
<1>5. ASSUME NEW j \in Jobs, LeaseExpires(j) PROVE DispatchInv'
  <2>1. UNCHANGED <<outboxVars, status, ready, limbo, pc, job>>
    BY <1>5 DEF LeaseExpires, SetLease, outboxVars, brokerVars, workerVars
  <2>2. \A k : (InQueue(k) => InQueue(k)') /\ (AtClaim(k) => AtClaim(k)')
    BY <2>1, SameQueue DEF QueueGrows, AtClaim
  <2>. QED BY <2>1, <2>2, DispatchOn DEF outboxVars
<1>6. ASSUME NEW m \in Messages, VisibilityTimeout(m) PROVE DispatchInv'
  <2>1. UNCHANGED <<outboxVars, status, pc, job>>
    BY <1>6 DEF VisibilityTimeout, jobVars, workerVars
  <2>2. \A k : (InQueue(k) => InQueue(k)') /\ (AtClaim(k) => AtClaim(k)')
    BY <1>6, <2>1, TimedOut DEF AtClaim
  <2>. QED BY <2>1, <2>2, DispatchOn DEF outboxVars
<1>7. ASSUME NEW w \in Workers, NEW m \in Messages, Deliver(w, m) PROVE DispatchInv'
  <2>1. UNCHANGED <<outboxVars, status>>
    BY <1>7 DEF Deliver, jobVars
  <2>2. \A k : InQueue(k) => InQueue(k)' \/ AtClaim(k)'
    BY <1>7, Delivered DEF AtClaim
  <2>3. \A k : AtClaim(k) => AtClaim(k)'
    BY <1>7, OthersStay DEF Deliver, AtClaim, Stays
  <2>. QED BY <2>1, <2>2, <2>3, DispatchOn DEF outboxVars
<1>. QED BY <1>1, <1>2, <1>3, <1>4, <1>5, <1>6, <1>7

LEMMA RecoveryStep ==
  ASSUME Faults \subseteq ToleratedFaults
  PROVE  TypeOK /\ TypeOK' /\ Inv /\ RecoveryInv /\ [Next]_pipelineVars => RecoveryInv'
<1>. SUFFICES ASSUME TypeOK, TypeOK', Inv, RecoveryInv, [Next]_pipelineVars
              PROVE  RecoveryInv'
  OBVIOUS
<1>0. RowChange
  BY RowChanges
<1>1. ASSUME NEW w \in Workers, Steps(w) PROVE RecoveryInv'
  <2>1. (\A v \in Workers : KeepsMessage(v))'
    BY <1>0, <1>1, StepKeepsMessages DEF RecoveryInv
  <2>2. DispatchInv'
    BY <1>1, WorkerDispatch DEF RecoveryInv
  <2>3. \A k \in Jobs : Driven(k)'
    BY <1>1, WorkerDrives DEF RecoveryInv
  <2>. QED BY <2>1, <2>2, <2>3 DEF RecoveryInv
<1>2. CASE \/ \E p \in Publishers : PublishSend(p) \/ PublishCommit(p) \/ PublishRollback(p)
           \/ \E j \in Jobs : CreateJob(j) \/ LeaseExpires(j)
           \/ \E m \in Messages : VisibilityTimeout(m)
           \/ \E w \in Workers, m \in Messages : Deliver(w, m)
  <2>1. (\A v \in Workers : KeepsMessage(v))'
    <3>1. ASSUME NEW w \in Workers, NEW m \in Messages, Deliver(w, m)
          PROVE  (\A v \in Workers : KeepsMessage(v))'
      BY <1>0, <3>1, StepKeepsMessages DEF RecoveryInv
    <3>2. CASE UNCHANGED workerVars
      <4>1. \A v \in Workers : Stays(v)
        BY <3>2 DEF Stays, workerVars, memory
      <4>. QED BY <1>0, <4>1, StaysKeeps DEF RecoveryInv
    <3>. QED
      BY <1>2, <3>1, <3>2
      DEF PublishSend, PublishCommit, PublishRollback, CreateJob, LeaseExpires,
          VisibilityTimeout
  <2>2. DispatchInv'
    BY <1>2, OthersDispatch DEF RecoveryInv
  <2>3. \A k \in Jobs : Driven(k)'
    BY <1>2, OthersDrive DEF RecoveryInv
  <2>. QED BY <2>1, <2>2, <2>3 DEF RecoveryInv
<1>3. CASE UNCHANGED pipelineVars
  <2>1. UNCHANGED <<jobVars, outboxVars, brokerVars, workerVars>>
    BY <1>3 DEF pipelineVars
  <2>2. (\A v \in Workers : KeepsMessage(v))'
    BY <2>1 DEF RecoveryInv, KeepsMessage, jobVars, workerVars, memory
  <2>3. DispatchInv'
    BY <2>1
    DEF RecoveryInv, DispatchInv, InQueue, AtClaim, jobVars, outboxVars, brokerVars, workerVars
  <2>4. \A k \in Jobs : Driven(k)'
    BY <2>1
    DEF RecoveryInv, Driven, OwnerAlive, InQueue, InLimbo, Waits, Claiming, Releasing, jobVars,
        brokerVars, workerVars, memory
  <2>. QED BY <2>2, <2>3, <2>4 DEF RecoveryInv
<1>4. \A w \in Workers : WorkerStep(w) \/ Heartbeat(w) \/ Disturbance(w) => Steps(w)
  BY Untolerated DEF Steps
<1>. QED
  BY <1>1, <1>2, <1>3, <1>4, Untolerated DEF Next, Publishing

\* "Long-running work is recoverable" (README.md:5), for any number of jobs, workers,
\* publishers and faults, as long as the faults are of the kinds that the pipeline
\* tolerates: no job that has not ended is ever left with nobody to drive it.  (After a
\* lost worker child it can be, which is the finding of worker_lost.)
THEOREM SpecNoJobStranded ==
  ASSUME Faults \subseteq ToleratedFaults
  PROVE  Spec => []NoJobStranded
<1>1. TypeOK /\ TypeOK' /\ Inv /\ RecoveryInv /\ [Next]_pipelineVars => RecoveryInv'
  BY RecoveryStep
<1>. QED BY TypeCorrect, InvHolds, RecoveryInit, RecoveryCarries, <1>1, PTL DEF Spec

=============================================================================
