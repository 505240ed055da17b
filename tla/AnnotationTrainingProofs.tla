----------------------- MODULE AnnotationTrainingProofs -----------------------
(* Theorems of AnnotationTraining, for every value of its constants. *)
EXTENDS AnnotationTraining, TLAPS

USE TrainingAssumption DEF Messages, Attempts

-----------------------------------------------------------------------------
(* The inductive invariant *)

\* A run is active alone, and a start holds only a run that it may start.
OneActive == \A r, s \in Runs : status[r] \in Active /\ status[s] \in Active => r = s

StartInv ==
  \A q \in Requesters : wanted[q] # NoRun =>
    /\ status[wanted[q]] \in {"SNAPSHOT_READY", "FAILED"}
    /\ \A p \in Requesters : wanted[p] = wanted[q] => p = q

\* No two workers carry out one attempt, and no attempt is yet to be counted.
HolderInv ==
  \A w \in Workers : pc[w] \in Holding =>
    /\ mine[w] <= generation[run[w]]
    /\ \A v \in Workers : pc[v] \in Holding /\ run[v] = run[w] /\ mine[v] = mine[w] => v = w

\* A trainer that did not survive its termination is that of an attempt that owns its run,
\* and it has been ended before the model is uploaded.
Trained == {"upload", "copy", "clean", "commit"}
TrainerInv ==
  /\ \A a \in trainers \ survivors : token[a[1]] = a[2]
  /\ \A w \in Workers : pc[w] \in Trained => Mine(w) \notin trainers

\* What an attempt has copied is under the final names until it commits.
Copying == {"copy", "clean", "commit"}
CopyInv ==
  \A w \in Workers :
    /\ pc[w] \notin Copying \cup {"finalize"} => copied[w] = {}
    /\ pc[w] \in {"clean", "commit"} => copied[w] = Artifacts
    /\ pc[w] \in Copying =>
         \A n \in copied[w] : final[<<run[w], n>>] = mine[w]

IInv ==
  /\ TypeOK /\ OneActive /\ StartInv /\ HolderInv /\ AttemptKeepsRun
  /\ TrainerInv /\ CopyInv /\ TrainerKeepsWorkspace /\ ModelIsServed

\* What is left of an attempt is known: the final names it was copied to are among those it
\* will take back, and nothing of its working copies is left before it commits.
FinalInv ==
  \A r \in Runs, n \in Artifacts :
    /\ final[<<r, n>>] <= generation[r]
    /\ \A w \in Workers : pc[w] \in Holding /\ run[w] = r /\ mine[w] = final[<<r, n>>] =>
         n \in copied[w]

CleanInv == \A w \in Workers : pc[w] = "commit" => working \cap CopiesOf(Mine(w)) = {}

FinalizedInv == FinalInv /\ CleanInv /\ LetGoIsFinalized

\* What carries an active run on: the owner of its attempt, or, once it is let go, an event
\* that nobody has sent yet, a message, or a worker about to retry.
Held(r) == \E w \in Workers : run[w] = r /\ pc[w] \in Holding /\ Owns(w)
Unsent(r) == event[r] = "pending" /\ \A p \in Publishers : sending[p] # r
Queued(r) == \E m \in Messages : m[1] = r /\ ready[m] + limbo[m] > 0
Waiting(r) == \E w \in Workers : run[w] = r /\ pc[w] = "retry"

Carried(r) == Held(r) \/ (token[r] = 0 /\ (Unsent(r) \/ Queued(r) \/ Waiting(r)))

CarryInv == \A r \in Runs : status[r] \in Active => dropped[r] # "no" \/ Carried(r)

-----------------------------------------------------------------------------
(* Type correctness *)

LEMMA BudgetType ==
  ASSUME budget \in Nat, NEW f, Calm \/ Spend(f)
  PROVE  budget' \in Nat
BY DEF Calm, Spend

\* A busy worker has a run and a message; one that holds an attempt has one to name.
LEMMA BusyWorker ==
  ASSUME WorkerTypeOK, NEW w \in Workers, pc[w] # "idle"
  PROVE  /\ run[w] \in Runs /\ Message(w) \in Messages
         /\ pc[w] \in Holding => Mine(w) \in Attempts
BY DEF WorkerTypeOK, Message, Mine

(* Rows: a run is started, claimed, or let go by its owner. *)

Starts(r) ==
  /\ status[r] \in {"SNAPSHOT_READY", "FAILED"}
  /\ MayActivate(r)
  /\ status' = [status EXCEPT ![r] = "PENDING"]
  /\ code' = [code EXCEPT ![r] = "none"]
  /\ UNCHANGED <<token, generation, version, artifact>>

Claims(r) == Claimable(r) /\ ClaimRow(r)

Ends(w) ==
  /\ Owns(w)
  /\ \/ \E c \in {"TRAINING_FAILED", "TRAINING_CLEANUP_FAILED"} : FailRow(run[w], c)
     \/ ReleaseRow(run[w])
     \/ SucceedRow(run[w], mine[w])

LEMMA StartsType ==
  ASSUME RowTypeOK, NEW r \in Runs, Starts(r)
  PROVE  RowTypeOK'
<1>1. /\ status' \in [Runs -> Status]
      /\ code' \in [Runs -> {"none", "TRAINING_FAILED", "TRAINING_CLEANUP_FAILED"}]
  BY DEF RowTypeOK, Starts, Status
<1>2. ASSUME NEW s \in Runs
      PROVE  /\ token'[s] # 0 => status'[s] = "RUNNING" /\ token'[s] = generation'[s]
             /\ status'[s] = "FAILED" <=> code'[s] # "none"
             /\ status'[s] = "SUCCEEDED" <=> version'[s] # 0
             /\ status'[s] = "SUCCEEDED" <=> artifact'[s] # 0
  BY <1>2 DEF RowTypeOK, Starts
<1>. QED BY <1>1, <1>2 DEF RowTypeOK, Starts

LEMMA ClaimsType ==
  ASSUME RowTypeOK, NEW r \in Runs, Claims(r)
  PROVE  RowTypeOK'
<1>1. /\ status' \in [Runs -> Status]
      /\ token' \in [Runs -> Nat] /\ generation' \in [Runs -> Nat]
  BY DEF RowTypeOK, Claims, ClaimRow, Status
<1>2. ASSUME NEW s \in Runs
      PROVE  /\ token'[s] # 0 => status'[s] = "RUNNING" /\ token'[s] = generation'[s]
             /\ status'[s] = "FAILED" <=> code'[s] # "none"
             /\ status'[s] = "SUCCEEDED" <=> version'[s] # 0
             /\ status'[s] = "SUCCEEDED" <=> artifact'[s] # 0
  BY <1>2 DEF RowTypeOK, Claims, Claimable, ClaimRow, Active
<1>. QED BY <1>1, <1>2 DEF RowTypeOK, Claims, ClaimRow

LEMMA EndsType ==
  ASSUME RowTypeOK, WorkerTypeOK, NEW w \in Workers, run[w] \in Runs, mine[w] # 0, Ends(w)
  PROVE  RowTypeOK'
<1>. DEFINE r == run[w]
<1>1. ASSUME NEW c \in {"TRAINING_FAILED", "TRAINING_CLEANUP_FAILED"}, FailRow(r, c), Owns(w)
      PROVE  RowTypeOK'
  BY <1>1 DEF RowTypeOK, FailRow, LetGo, Owns, Status
<1>2. ASSUME ReleaseRow(r), Owns(w)
      PROVE  RowTypeOK'
  BY <1>2 DEF RowTypeOK, ReleaseRow, LetGo, Owns, Status
<1>3. ASSUME SucceedRow(r, mine[w]), Owns(w)
      PROVE  RowTypeOK'
  BY <1>3 DEF RowTypeOK, WorkerTypeOK, SucceedRow, LetGo, Owns, Status
<1>. QED BY <1>1, <1>2, <1>3 DEF Ends

\* Every step treats the rows in one of these ways.
LEMMA RowSteps ==
  ASSUME WorkerTypeOK, QueueTypeOK, StartInv, Next
  PROVE  \/ UNCHANGED rowVars
         \/ \E q \in Requesters : /\ wanted[q] \in Runs /\ StartCommit(q)
                                 /\ Starts(wanted[q])
         \/ \E w \in Workers, m \in Messages : /\ Deliver(w, m) /\ Claims(m[1])
         \/ \E w \in Workers : /\ pc[w] \in {"commit", "finalize"} /\ Ends(w)
                              /\ \/ Commit(w) \/ Finalize(w) \/ FinalizeDirty(w)
                                 \/ FinalizeUnkillable(w)
<1>1. ASSUME NEW q \in Requesters, StartRead(q) \/ StartCommit(q) \/ StartAbort(q)
      PROVE  UNCHANGED rowVars \/ (wanted[q] \in Runs /\ StartCommit(q) /\ Starts(wanted[q]))
  <2>1. CASE StartRead(q)
    BY <2>1 DEF StartRead
  <2>3. CASE StartAbort(q)
    BY <2>3 DEF StartAbort
  <2>2. CASE StartCommit(q)
    BY <2>2 DEF StartCommit, Starts, StartInv, QueueTypeOK
  <2>. QED BY <1>1, <2>1, <2>2, <2>3
<1>2. ASSUME NEW w \in Workers, NEW m \in Messages, Deliver(w, m)
      PROVE  UNCHANGED rowVars \/ Claims(m[1])
  BY <1>2 DEF Deliver, Claim, ClaimRaises, Claims
<1>3. ASSUME NEW w \in Workers, Commit(w)
      PROVE  pc[w] = "commit" /\ Ends(w)
  BY <1>3 DEF Commit, Ends
<1>4. ASSUME NEW w \in Workers, Finalize(w) \/ FinalizeDirty(w) \/ FinalizeUnkillable(w)
      PROVE  UNCHANGED rowVars \/ (pc[w] = "finalize" /\ Ends(w))
  BY <1>4 DEF Finalize, FinalizeDirty, FinalizeUnkillable, Verdict, Ends
<1>5. ASSUME NEW w \in Workers,
             \/ Prepare(w) \/ Train(w) \/ Upload(w) \/ Copy(w) \/ Clean(w)
             \/ Retry(w) \/ Exhausted(w) \/ SettleMessage(w)
             \/ PrepareFails(w) \/ TrainFails(w) \/ UploadFails(w)
             \/ CopyFails(w) \/ CleanFails(w) \/ CommitFails(w) \/ FinalizeRaises(w)
             \/ WorkerLost(w) \/ HostCrash(w) \/ HardTimeout(w)
      PROVE  UNCHANGED rowVars
  BY <1>5 DEF Prepare, Train, Upload, Copy, Clean, Retry, Exhausted, SettleMessage, PrepareFails,
    TrainFails, UploadFails, CopyFails, CleanFails, CommitFails, FinalizeRaises, WorkerLost,
    HostCrash, HardTimeout
<1>6. ASSUME \/ Publishing \/ \E m \in Messages : VisibilityTimeout(m)
             \/ \E a \in trainers : TrainerDies(a)
      PROVE  UNCHANGED rowVars
  BY <1>6 DEF Publishing, PublishSend, PublishEnd, VisibilityTimeout, TrainerDies
<1>. QED BY <1>1, <1>2, <1>3, <1>4, <1>5, <1>6 DEF Next, WorkerStep, Disturbance

(* Workers: they move on within an attempt, leave it, or take up a message. *)

LEMMA GotoType ==
  ASSUME WorkerTypeOK, NEW w \in Workers, NEW p \in Holding, pc[w] \in Holding, Goto(w, p)
  PROVE  WorkerTypeOK'
BY DEF WorkerTypeOK, Goto, memory, WorkerPC, Holding, Trying

LEMMA RaisesType ==
  ASSUME WorkerTypeOK, NEW w \in Workers, NEW f, pc[w] \in Holding, Raises(w, f),
         copied' \in [Workers -> SUBSET Artifacts]
  PROVE  WorkerTypeOK'
BY DEF WorkerTypeOK, Raises, WorkerPC, Holding, Trying

LEMMA SettleType ==
  ASSUME WorkerTypeOK, NEW w \in Workers, NEW p \in {"retry", "done"}, pc[w] # "idle",
         Settle(w, p)
  PROVE  WorkerTypeOK'
BY DEF WorkerTypeOK, Settle, ForgetAttempt, WorkerPC, Holding, Trying

LEMMA IdleType ==
  ASSUME WorkerTypeOK, NEW w \in Workers, Idle(w)
  PROVE  WorkerTypeOK'
BY DEF WorkerTypeOK, Idle, ForgetAttempt, WorkerPC, Holding, Trying

LEMMA DeliverType ==
  ASSUME WorkerTypeOK, RowTypeOK, NEW w \in Workers, NEW m \in Messages, Deliver(w, m)
  PROVE  WorkerTypeOK'
<1>1. /\ run' = [run EXCEPT ![w] = m[1]] /\ retries' = [retries EXCEPT ![w] = m[2]]
      /\ UNCHANGED <<permanent, copied>>
      /\ m[1] \in Runs /\ m[2] \in 0..MaxRetries
      /\ pc[w] = "idle" /\ mine[w] = 0
  BY DEF Deliver, WorkerTypeOK, Holding, Trying
<1>2. \/ /\ mine' = [mine EXCEPT ![w] = generation[m[1]] + 1]
         /\ pc' = [pc EXCEPT ![w] = "prepare"]
      \/ /\ pc' = [pc EXCEPT ![w] = "done"]
         /\ UNCHANGED mine
  BY DEF Deliver, Claim, ClaimRaises
<1>3. generation[m[1]] + 1 \in Nat \ {0}
  BY <1>1 DEF RowTypeOK
<1>. QED BY <1>1, <1>2, <1>3 DEF WorkerTypeOK, WorkerPC, Holding, Trying

\* Every step treats the workers in one of these ways.
LEMMA WorkerSteps ==
  ASSUME TypeOK, Next
  PROVE  WorkerTypeOK'
<1>1. CASE UNCHANGED workerVars
  BY <1>1 DEF TypeOK, WorkerTypeOK, workerVars, memory
<1>2. ASSUME NEW w \in Workers,
             \/ Prepare(w) \/ Train(w) \/ Upload(w) \/ Clean(w) \/ CleanFails(w)
      PROVE  WorkerTypeOK'
  BY <1>2, GotoType DEF TypeOK, Prepare, Train, Upload, Clean, CleanFails, Holding, Trying
<1>3. ASSUME NEW w \in Workers, Copy(w)
      PROVE  WorkerTypeOK'
  BY <1>3 DEF TypeOK, WorkerTypeOK, Copy, NextCopy, Artifacts, WorkerPC, Holding, Trying
<1>4. ASSUME NEW w \in Workers,
             \/ PrepareFails(w) \/ TrainFails(w) \/ UploadFails(w) \/ CopyFails(w) \/ CommitFails(w)
      PROVE  WorkerTypeOK'
  <2>1. copied' \in [Workers -> SUBSET Artifacts]
    BY <1>4 DEF TypeOK, WorkerTypeOK, PrepareFails, TrainFails, UploadFails, CopyFails, CommitFails,
      Tracked, NextCopy, Artifacts
  <2>2. pc[w] \in Holding /\ \E f \in {"transient", "invalid"} : Raises(w, f)
    BY <1>4 DEF PrepareFails, TrainFails, UploadFails, CopyFails, CommitFails, Fails, FailsOrLost,
      Holding, Trying
  <2>. QED BY <2>1, <2>2, RaisesType DEF TypeOK
<1>5. ASSUME NEW w \in Workers, Commit(w)
      PROVE  WorkerTypeOK'
  BY <1>5, GotoType, SettleType DEF TypeOK, Commit, Holding, Trying
<1>6. ASSUME NEW w \in Workers,
             \/ Finalize(w) \/ FinalizeDirty(w) \/ FinalizeUnkillable(w) \/ FinalizeRaises(w)
             \/ Retry(w) \/ Exhausted(w)
      PROVE  WorkerTypeOK'
  BY <1>6, SettleType DEF TypeOK, Finalize, FinalizeDirty, FinalizeUnkillable, FinalizeRaises,
    Retry, Exhausted
<1>7. ASSUME NEW w \in Workers, SettleMessage(w) \/ WorkerLost(w) \/ HostCrash(w) \/ HardTimeout(w)
      PROVE  WorkerTypeOK'
  BY <1>7, IdleType DEF TypeOK, SettleMessage, WorkerLost, HostCrash, HardTimeout
<1>8. ASSUME NEW w \in Workers, NEW m \in Messages, Deliver(w, m)
      PROVE  WorkerTypeOK'
  BY <1>8, DeliverType DEF TypeOK
<1>9. ASSUME \/ Publishing \/ \E m \in Messages : VisibilityTimeout(m)
             \/ \E a \in trainers : TrainerDies(a)
      PROVE  UNCHANGED workerVars
  BY <1>9 DEF Publishing, PublishSend, PublishEnd, VisibilityTimeout, TrainerDies
<1>10. ASSUME NEW q \in Requesters, StartRead(q) \/ StartCommit(q) \/ StartAbort(q)
       PROVE  UNCHANGED workerVars
  BY <1>10 DEF StartRead, StartCommit, StartAbort
<1>. QED
  BY <1>1, <1>2, <1>3, <1>4, <1>5, <1>6, <1>7, <1>8, <1>9, <1>10 DEF Next, WorkerStep, Disturbance

(* Queues and requests *)

LEMMA QueueType ==
  ASSUME NEW queue \in [Messages -> Nat], NEW m \in Messages
  PROVE  /\ Put(queue, m) \in [Messages -> Nat]
         /\ queue[m] > 0 => Take(queue, m) \in [Messages -> Nat]
BY DEF Put, Take

LEMMA QueueSteps ==
  ASSUME TypeOK, Next
  PROVE  QueueTypeOK'
<1>1. CASE UNCHANGED <<queueVars, requestVars>>
  BY <1>1 DEF TypeOK, QueueTypeOK, queueVars, requestVars
<1>2. ASSUME NEW q \in Requesters, StartRead(q) \/ StartCommit(q) \/ StartAbort(q)
      PROVE  QueueTypeOK'
  <2>1. CASE StartRead(q)
    BY <2>1 DEF TypeOK, QueueTypeOK, StartRead, queueVars
  <2>2. CASE StartCommit(q)
    BY <2>2 DEF TypeOK, QueueTypeOK, StartCommit, Answered, Announced
  <2>3. CASE StartAbort(q)
    BY <2>3 DEF TypeOK, QueueTypeOK, StartAbort, Answered, queueVars
  <2>. QED BY <1>2, <2>1, <2>2, <2>3
<1>3. ASSUME NEW p \in Publishers, PublishSend(p) \/ PublishEnd(p)
      PROVE  QueueTypeOK'
  <2>1. CASE PublishSend(p)
    <3>1. PICK r \in Runs : /\ sending' = [sending EXCEPT ![p] = r]
                            /\ ready' = Put(ready, <<r, 0>>)
      BY <2>1 DEF PublishSend
    <3>2. <<r, 0>> \in Messages
      OBVIOUS
    <3>. QED BY <2>1, <3>1, <3>2, QueueType DEF TypeOK, QueueTypeOK, PublishSend, requestVars
  <2>2. CASE PublishEnd(p)
    BY <2>2 DEF TypeOK, QueueTypeOK, PublishEnd, requestVars
  <2>. QED BY <1>3, <2>1, <2>2
<1>4. ASSUME NEW w \in Workers, NEW m \in Messages, Deliver(w, m)
      PROVE  QueueTypeOK'
  BY <1>4, QueueType DEF TypeOK, QueueTypeOK, Deliver, requestVars
<1>5. ASSUME NEW w \in Workers, Retry(w)
      PROVE  QueueTypeOK'
  <2>1. CASE UNCHANGED ready
    BY <1>5, <2>1 DEF TypeOK, QueueTypeOK, Retry, requestVars
  <2>2. CASE ready' = Put(ready, <<run[w], retries[w] + 1>>)
    <3>1. <<run[w], retries[w] + 1>> \in Messages
      BY <1>5, BusyWorker DEF TypeOK, WorkerTypeOK, Retry
    <3>2. ready \in [Messages -> Nat]
      BY DEF TypeOK, QueueTypeOK
    <3>3. ready' \in [Messages -> Nat]
      BY <2>2, <3>1, <3>2, QueueType
    <3>. QED BY <1>5, <3>3 DEF TypeOK, QueueTypeOK, Retry, requestVars
  <2>. QED BY <1>5, <2>1, <2>2 DEF Retry
<1>6. ASSUME NEW w \in Workers, WorkerLost(w) \/ HostCrash(w)
      PROVE  QueueTypeOK'
  <2>1. Message(w) \in Messages
    BY <1>6, BusyWorker DEF TypeOK, WorkerLost, HostCrash
  <2>2. CASE WorkerLost(w)
    BY <2>1, <2>2, QueueType DEF TypeOK, QueueTypeOK, WorkerLost, requestVars
  <2>3. CASE HostCrash(w)
    BY <2>1, <2>3, QueueType DEF TypeOK, QueueTypeOK, HostCrash, requestVars
  <2>. QED BY <1>6, <2>2, <2>3
<1>7. ASSUME NEW m \in Messages, VisibilityTimeout(m)
      PROVE  QueueTypeOK'
  BY <1>7, QueueType DEF TypeOK, QueueTypeOK, VisibilityTimeout, requestVars
<1>8. ASSUME NEW w \in Workers,
             \/ Prepare(w) \/ Train(w) \/ Upload(w) \/ Copy(w) \/ Clean(w) \/ Commit(w)
             \/ Finalize(w) \/ Exhausted(w) \/ SettleMessage(w)
             \/ PrepareFails(w) \/ TrainFails(w) \/ UploadFails(w)
             \/ CopyFails(w) \/ CleanFails(w) \/ CommitFails(w)
             \/ FinalizeDirty(w) \/ FinalizeUnkillable(w) \/ FinalizeRaises(w) \/ HardTimeout(w)
      PROVE  UNCHANGED <<queueVars, requestVars>>
  BY <1>8 DEF Prepare, Train, Upload, Copy, Clean, Commit, Finalize, Exhausted, SettleMessage,
    PrepareFails, TrainFails, UploadFails, CopyFails, CleanFails, CommitFails, FinalizeDirty,
    FinalizeUnkillable, FinalizeRaises, HardTimeout
<1>9. ASSUME \E a \in trainers : TrainerDies(a)
      PROVE  UNCHANGED <<queueVars, requestVars>>
  BY <1>9 DEF TrainerDies
<1>. QED
  BY <1>1, <1>2, <1>3, <1>4, <1>5, <1>6, <1>7, <1>8, <1>9
  DEF Next, Publishing, WorkerStep, Disturbance

(* What steps do outside the database *)

LEMMA StrandType ==
  ASSUME EffectTypeOK, NEW r \in Runs, NEW why \in {"exhausted", "fault"}, Strand(r, why)
  PROVE  dropped' \in [Runs -> {"no", "exhausted", "fault"}]
BY DEF EffectTypeOK, Strand

LEMMA CopiedType ==
  ASSUME TypeOK, NEW w \in Workers, pc[w] \in Holding
  PROVE  /\ Copied(w) \in [Runs \X Artifacts -> Nat]
         /\ \A names : Without(names) \in [Runs \X Artifacts -> Nat]
         /\ CopiesOf(Mine(w)) \subseteq Attempts \X Copies
BY BusyWorker DEF TypeOK, EffectTypeOK, WorkerTypeOK, Copied, Without, NextCopy, Artifacts,
  CopiesOf, Holding, Trying

LEMMA EffectSteps ==
  ASSUME TypeOK, Next
  PROVE  EffectTypeOK'
<1>1. budget' \in Nat
  <2>1. \E f : Calm \/ Spend(f)
    BY DEF Next, Publishing, PublishSend, PublishEnd, StartRead, StartCommit, StartAbort, Deliver,
      ClaimRaises, WorkerStep, Disturbance, Prepare, Train, Upload, Copy, Clean, Commit, Finalize,
      Retry, Exhausted, SettleMessage, PrepareFails, TrainFails, UploadFails, CopyFails,
      CleanFails, CommitFails, Fails, FailsOrLost, FinalizeDirty, FinalizeUnkillable,
      FinalizeRaises, WorkerLost, HostCrash, HardTimeout, VisibilityTimeout, TrainerDies
  <2>. QED BY <2>1, BudgetType DEF TypeOK, EffectTypeOK
<1>2. CASE UNCHANGED <<effects, history>>
  BY <1>1, <1>2 DEF TypeOK, EffectTypeOK, effects, history
<1>3. ASSUME NEW q \in Requesters, StartCommit(q)
      PROVE  EffectTypeOK'
  BY <1>1, <1>3 DEF TypeOK, EffectTypeOK, StartCommit, effects
<1>4. ASSUME NEW w \in Workers, NEW m \in Messages, Deliver(w, m)
      PROVE  EffectTypeOK'
  <2>1. dropped' \in [Runs -> {"no", "exhausted", "fault"}]
    <3>1. CASE Claim(w, m[1])
      BY <3>1 DEF TypeOK, EffectTypeOK, Claim
    <3>2. CASE ClaimRaises(w, m[1])
      BY <3>2, StrandType DEF TypeOK, ClaimRaises
    <3>. QED BY <1>4, <3>1, <3>2 DEF Deliver
  <2>. QED BY <1>1, <1>4, <2>1 DEF TypeOK, EffectTypeOK, Deliver, effects
<1>5. ASSUME NEW w \in Workers,
             \/ Prepare(w) \/ Train(w) \/ Upload(w) \/ Copy(w) \/ Clean(w)
             \/ PrepareFails(w) \/ TrainFails(w) \/ UploadFails(w) \/ CopyFails(w) \/ CleanFails(w)
      PROVE  EffectTypeOK'
  <2>1. /\ Mine(w) \in Attempts /\ Copied(w) \in [Runs \X Artifacts -> Nat]
    BY <1>5, BusyWorker, CopiedType DEF TypeOK, Prepare, Train, Upload, Copy, Clean, PrepareFails,
      TrainFails, UploadFails, CopyFails, CleanFails, Holding, Trying
  <2>2. /\ trainers' \subseteq Attempts /\ final' \in [Runs \X Artifacts -> Nat]
        /\ UNCHANGED history
    BY <1>5, <2>1 DEF TypeOK, EffectTypeOK, Prepare, Train, Upload, Copy, Clean, PrepareFails,
      TrainFails, UploadFails, CopyFails, CleanFails
  <2>3. working' \subseteq Attempts \X Copies
    BY <1>5, <2>1 DEF TypeOK, EffectTypeOK, Prepare, Train, Upload, Copy, Clean, PrepareFails,
      TrainFails, UploadFails, CopyFails, CleanFails, Copies, Artifacts, CopiesOf
  <2>. QED BY <1>1, <2>2, <2>3 DEF TypeOK, EffectTypeOK, history
<1>6. ASSUME NEW w \in Workers,
             \/ Finalize(w) \/ FinalizeDirty(w) \/ FinalizeUnkillable(w) \/ FinalizeRaises(w)
      PROVE  EffectTypeOK'
  <2>1. /\ Mine(w) \in Attempts /\ run[w] \in Runs
        /\ \A names : Without(names) \in [Runs \X Artifacts -> Nat]
    BY <1>6, BusyWorker, CopiedType DEF TypeOK, Finalize, FinalizeDirty, FinalizeUnkillable,
      FinalizeRaises, Holding
  <2>2. /\ trainers' \subseteq Attempts /\ survivors' \subseteq Attempts
        /\ working' \subseteq Attempts \X Copies
    BY <1>6, <2>1 DEF TypeOK, EffectTypeOK, Finalize, FinalizeDirty, FinalizeUnkillable,
      FinalizeRaises, CleanedUp, KeptForSurvivor, history
  <2>4. final' \in [Runs \X Artifacts -> Nat]
    <3>1. \/ UNCHANGED final
          \/ \E names : final' = Without(names)
      BY <1>6 DEF Finalize, FinalizeDirty, FinalizeUnkillable, FinalizeRaises, CleanedUp
    <3>. QED BY <2>1, <3>1 DEF TypeOK, EffectTypeOK
  <2>3. dropped' \in [Runs -> {"no", "exhausted", "fault"}]
    BY <1>6, <2>1, StrandType DEF TypeOK, EffectTypeOK, Finalize, FinalizeDirty,
      FinalizeUnkillable, FinalizeRaises, history
  <2>. QED BY <1>1, <2>2, <2>3, <2>4 DEF EffectTypeOK
<1>7. ASSUME NEW w \in Workers,
             \/ Retry(w) \/ Exhausted(w) \/ WorkerLost(w) \/ HostCrash(w) \/ HardTimeout(w)
      PROVE  EffectTypeOK'
  <2>1. run[w] \in Runs
    BY <1>7, BusyWorker DEF TypeOK, Retry, Exhausted, WorkerLost, HostCrash, HardTimeout, Holding,
      Trying
  <2>2. dropped' \in [Runs -> {"no", "exhausted", "fault"}]
    BY <1>7, <2>1, StrandType DEF TypeOK, EffectTypeOK, Retry, Exhausted, WorkerLost, HostCrash,
      HardTimeout, StrandIfOwned
  <2>. QED
    BY <1>1, <1>7, <2>2 DEF TypeOK, EffectTypeOK, Retry, Exhausted, WorkerLost, HostCrash,
      HardTimeout, effects
<1>8. ASSUME NEW a \in trainers, TrainerDies(a)
      PROVE  EffectTypeOK'
  BY <1>1, <1>8 DEF TypeOK, EffectTypeOK, TrainerDies, history
<1>9. ASSUME NEW w \in Workers, Commit(w) \/ CommitFails(w) \/ SettleMessage(w)
      PROVE  UNCHANGED <<effects, history>>
  BY <1>9 DEF Commit, CommitFails, SettleMessage
<1>10. ASSUME \/ Publishing \/ \E m \in Messages : VisibilityTimeout(m)
              \/ \E q \in Requesters : StartRead(q) \/ StartAbort(q)
       PROVE  UNCHANGED <<effects, history>>
  BY <1>10 DEF Publishing, PublishSend, PublishEnd, VisibilityTimeout, StartRead, StartAbort
<1>. QED
  BY <1>2, <1>3, <1>4, <1>5, <1>6, <1>7, <1>8, <1>9, <1>10 DEF Next, WorkerStep, Disturbance

-----------------------------------------------------------------------------
(* Runs and the starts of runs *)

LEMMA OneActiveSteps ==
  ASSUME IInv, Next
  PROVE  OneActive'
<1>. USE DEF IInv, TypeOK
<1>1. CASE UNCHANGED rowVars
  BY <1>1 DEF OneActive, rowVars
<1>2. ASSUME NEW r \in Runs, Starts(r)
      PROVE  OneActive'
  BY <1>2 DEF OneActive, Starts, MayActivate, OtherActive, RowTypeOK
<1>3. ASSUME NEW r \in Runs, Claims(r)
      PROVE  OneActive'
  BY <1>3 DEF OneActive, Claims, Claimable, ClaimRow, RowTypeOK, Active
<1>4. ASSUME NEW w \in Workers, run[w] \in Runs, Ends(w)
      PROVE  OneActive'
  BY <1>4 DEF OneActive, Ends, Owns, FailRow, ReleaseRow, SucceedRow, RowTypeOK, Active
<1>5. \A w \in Workers : pc[w] \in {"commit", "finalize"} => run[w] \in Runs
  BY BusyWorker
<1>. QED BY <1>1, <1>2, <1>3, <1>4, <1>5, RowSteps

LEMMA RowTypeSteps ==
  ASSUME IInv, Next
  PROVE  RowTypeOK'
<1>. USE DEF IInv, TypeOK
<1>1. CASE UNCHANGED rowVars
  BY <1>1 DEF RowTypeOK, rowVars
<1>2. \A w \in Workers : pc[w] \in {"commit", "finalize"} => run[w] \in Runs /\ mine[w] # 0
  BY BusyWorker DEF WorkerTypeOK, Holding, Trying
<1>. QED BY <1>1, <1>2, RowSteps, StartsType, ClaimsType, EndsType

LEMMA StartSteps ==
  ASSUME IInv, Next
  PROVE  StartInv'
<1>. USE DEF IInv, TypeOK
<1>1. \/ UNCHANGED wanted
      \/ \E q \in Requesters : StartRead(q)
      \/ \E q \in Requesters : wanted[q] # NoRun /\ wanted' = [wanted EXCEPT ![q] = NoRun]
  BY DEF Next, Publishing, PublishSend, PublishEnd, StartCommit, StartAbort, Answered, Deliver,
    WorkerStep, Disturbance, Prepare, Train, Upload, Copy, Clean, Commit, Finalize, Retry,
    Exhausted, SettleMessage, PrepareFails, TrainFails, UploadFails, CopyFails, CleanFails,
    CommitFails, FinalizeDirty, FinalizeUnkillable, FinalizeRaises, WorkerLost, HostCrash,
    HardTimeout, VisibilityTimeout, TrainerDies, requestVars
<1>2. CASE UNCHANGED rowVars
  <2>1. CASE \E q \in Requesters : StartRead(q)
    <3>1. PICK q \in Requesters, r \in Runs :
            /\ status[r] \in {"SNAPSHOT_READY", "FAILED"} /\ ~Locked(r)
            /\ wanted' = [wanted EXCEPT ![q] = r]
      BY <2>1 DEF StartRead
    <3>. QED BY <1>2, <3>1 DEF StartInv, Locked, QueueTypeOK, rowVars
  <2>. QED BY <1>1, <1>2, <2>1 DEF StartInv, QueueTypeOK, rowVars
<1>3. ASSUME NEW q \in Requesters, StartCommit(q), wanted[q] \in Runs, Starts(wanted[q])
      PROVE  StartInv'
  BY <1>3 DEF StartInv, StartCommit, Answered, Starts, QueueTypeOK, RowTypeOK
<1>4. ASSUME NEW r \in Runs, status[r] \in Active, UNCHANGED wanted,
             \A s \in Runs \ {r} : status'[s] = status[s]
      PROVE  StartInv'
  BY <1>4 DEF StartInv, QueueTypeOK, RowTypeOK, Active
<1>5. ASSUME NEW w \in Workers, NEW m \in Messages, Deliver(w, m), Claims(m[1])
      PROVE  StartInv'
  BY <1>4, <1>5 DEF Deliver, requestVars, Claims, Claimable, ClaimRow, RowTypeOK
<1>6. ASSUME NEW w \in Workers, pc[w] \in {"commit", "finalize"}, Ends(w),
             Commit(w) \/ Finalize(w) \/ FinalizeDirty(w) \/ FinalizeUnkillable(w)
      PROVE  StartInv'
  <2>1. run[w] \in Runs /\ status[run[w]] \in Active /\ UNCHANGED wanted
    BY <1>6, BusyWorker DEF Ends, Owns, Active, Commit, Finalize, FinalizeDirty,
      FinalizeUnkillable, requestVars
  <2>2. \A s \in Runs \ {run[w]} : status'[s] = status[s]
    BY <1>6 DEF Ends, FailRow, ReleaseRow, SucceedRow, RowTypeOK
  <2>. QED BY <1>4, <2>1, <2>2
<1>. QED BY <1>2, <1>3, <1>5, <1>6, RowSteps

-----------------------------------------------------------------------------
(* Attempts *)

\* A worker goes on with its attempt, is left without one, or takes one up.
Keeps(w) ==
  /\ pc[w] \in Holding
  /\ \E p \in Holding : /\ p \in Trying => pc[w] \in Trying
                        /\ pc' = [pc EXCEPT ![w] = p]
  /\ UNCHANGED <<run, mine>>

Leaves(w) ==
  /\ \E p \in WorkerPC \ Holding : pc' = [pc EXCEPT ![w] = p]
  /\ \A v \in Workers \ {w} : run'[v] = run[v] /\ mine'[v] = mine[v]

Takes(w, m) ==
  /\ Claims(m[1])
  /\ pc' = [pc EXCEPT ![w] = "prepare"]
  /\ run' = [run EXCEPT ![w] = m[1]]
  /\ mine' = [mine EXCEPT ![w] = generation[m[1]] + 1]

LEMMA Moves ==
  ASSUME TypeOK, Next
  PROVE  \/ UNCHANGED <<pc, run, mine>>
         \/ \E w \in Workers : Keeps(w) \/ Leaves(w)
         \/ \E w \in Workers, m \in Messages : Deliver(w, m) /\ Takes(w, m)
<1>. USE DEF TypeOK, WorkerTypeOK
<1>1. ASSUME NEW w \in Workers, NEW p, Settle(w, p), p \in {"retry", "done"}
      PROVE  Leaves(w)
  BY <1>1 DEF Settle, ForgetAttempt, Leaves, WorkerPC, Holding, Trying
<1>2. ASSUME NEW w \in Workers, Idle(w)
      PROVE  Leaves(w)
  BY <1>2 DEF Idle, ForgetAttempt, Leaves, WorkerPC, Holding, Trying
<1>3. ASSUME NEW w \in Workers,
             \/ Prepare(w) \/ Train(w) \/ Upload(w) \/ Copy(w) \/ Clean(w) \/ CleanFails(w)
             \/ PrepareFails(w) \/ TrainFails(w) \/ UploadFails(w) \/ CopyFails(w) \/ CommitFails(w)
      PROVE  Keeps(w)
  BY <1>3 DEF Prepare, Train, Upload, Copy, Clean, CleanFails, PrepareFails, TrainFails,
    UploadFails, CopyFails, CommitFails, Fails, FailsOrLost, Raises, Goto, memory, Keeps, Holding,
    Trying
<1>4. ASSUME NEW w \in Workers, Commit(w)
      PROVE  Keeps(w) \/ Leaves(w)
  <2>1. CASE Goto(w, "finalize")
    BY <1>4, <2>1 DEF Commit, Goto, memory, Keeps, Holding, Trying
  <2>. QED BY <1>1, <1>4, <2>1 DEF Commit
<1>5. ASSUME NEW w \in Workers,
             \/ Finalize(w) \/ FinalizeDirty(w) \/ FinalizeUnkillable(w) \/ FinalizeRaises(w)
             \/ Retry(w) \/ Exhausted(w) \/ SettleMessage(w)
             \/ WorkerLost(w) \/ HostCrash(w) \/ HardTimeout(w)
      PROVE  Leaves(w)
  BY <1>1, <1>2, <1>5 DEF Finalize, FinalizeDirty, FinalizeUnkillable, FinalizeRaises, Retry,
    Exhausted, SettleMessage, WorkerLost, HostCrash, HardTimeout
<1>6. ASSUME NEW w \in Workers, NEW m \in Messages, Deliver(w, m)
      PROVE  Leaves(w) \/ Takes(w, m)
  <2>1. CASE Claim(w, m[1]) /\ Claimable(m[1])
    BY <1>6, <2>1 DEF Deliver, Claim, Takes, Claims
  <2>2. CASE ClaimRaises(w, m[1]) \/ ~Claimable(m[1])
    BY <1>6, <2>2 DEF Deliver, Claim, ClaimRaises, Leaves, WorkerPC, Holding, Trying
  <2>. QED BY <1>6, <2>1, <2>2 DEF Deliver
<1>7. ASSUME \/ Publishing \/ \E m \in Messages : VisibilityTimeout(m)
             \/ \E a \in trainers : TrainerDies(a)
             \/ \E q \in Requesters : StartRead(q) \/ StartCommit(q) \/ StartAbort(q)
      PROVE  UNCHANGED <<pc, run, mine>>
  BY <1>7 DEF Publishing, PublishSend, PublishEnd, VisibilityTimeout, TrainerDies, StartRead,
    StartCommit, StartAbort, workerVars, memory
<1>. QED BY <1>3, <1>4, <1>5, <1>6, <1>7 DEF Next, WorkerStep, Disturbance

\* While a worker goes on, its attempt owns the run: only its own transactions let it go.
LEMMA OwnedKept ==
  ASSUME IInv, Next, NEW w \in Workers, pc[w] \in Trying, pc'[w] \in Trying,
         run'[w] = run[w], mine'[w] = mine[w]
  PROVE  Owns(w)'
<1>. USE DEF IInv, TypeOK
<1>1. /\ Owns(w) /\ run[w] \in Runs /\ mine[w] # 0
  BY BusyWorker DEF AttemptKeepsRun, WorkerTypeOK, Holding, Trying
<1>2. CASE UNCHANGED rowVars
  BY <1>1, <1>2 DEF Owns, rowVars
<1>3. ASSUME NEW r \in Runs, Starts(r)
      PROVE  Owns(w)'
  BY <1>1, <1>3 DEF Owns, Starts, RowTypeOK
<1>4. ASSUME NEW r \in Runs, Claims(r)
      PROVE  Owns(w)'
  BY <1>1, <1>4 DEF Owns, Claims, Claimable, ClaimRow, RowTypeOK
<1>5. ASSUME NEW v \in Workers, pc[v] \in {"commit", "finalize"}, Ends(v),
             Commit(v) \/ Finalize(v) \/ FinalizeDirty(v) \/ FinalizeUnkillable(v)
      PROVE  Owns(w)'
  <2>1. v # w
    BY <1>5 DEF Commit, Finalize, FinalizeDirty, FinalizeUnkillable, Goto, Settle, WorkerTypeOK,
      Trying
  <2>2. run[v] # run[w]
    BY <1>1, <1>5, <2>1 DEF Ends, Owns, HolderInv, Holding, Trying
  <2>. QED
    BY <1>1, <1>5, <2>2 DEF Ends, Owns, FailRow, ReleaseRow, SucceedRow, LetGo, RowTypeOK
<1>. QED BY <1>2, <1>3, <1>4, <1>5, RowSteps

\* Attempts that go on stay distinct and counted.
LEMMA HolderKept ==
  ASSUME RowTypeOK, WorkerTypeOK, HolderInv, RowTypeOK',
         \A r \in Runs : generation'[r] >= generation[r],
         \A w \in Workers : pc'[w] \in Holding =>
           pc[w] \in Holding /\ run'[w] = run[w] /\ mine'[w] = mine[w]
  PROVE  HolderInv'
<1>1. ASSUME NEW w \in Workers, pc'[w] \in Holding
      PROVE  mine'[w] <= generation'[run'[w]]
  <2>1. run[w] \in Runs /\ mine[w] <= generation[run[w]] /\ mine[w] \in Nat
    BY <1>1, BusyWorker DEF HolderInv, Holding, Trying, WorkerTypeOK
  <2>2. /\ generation[run[w]] \in Nat /\ generation'[run[w]] \in Nat
        /\ generation'[run[w]] >= generation[run[w]]
    BY <2>1 DEF RowTypeOK
  <2>. QED BY <1>1, <2>1, <2>2
<1>2. ASSUME NEW w \in Workers, NEW v \in Workers, pc'[w] \in Holding, pc'[v] \in Holding,
             run'[v] = run'[w], mine'[v] = mine'[w]
      PROVE  v = w
  BY <1>2 DEF HolderInv
<1>. QED BY <1>1, <1>2 DEF HolderInv

LEMMA GenerationGrows ==
  ASSUME IInv, Next
  PROVE  \A r \in Runs : generation'[r] >= generation[r]
<1>. USE DEF IInv, TypeOK
<1>1. CASE UNCHANGED rowVars
  BY <1>1 DEF rowVars, RowTypeOK
<1>2. ASSUME NEW r \in Runs, Starts(r) \/ Claims(r)
      PROVE  \A s \in Runs : generation'[s] >= generation[s]
  BY <1>2 DEF Starts, Claims, ClaimRow, RowTypeOK
<1>3. ASSUME NEW w \in Workers, Ends(w)
      PROVE  UNCHANGED generation
  BY <1>3 DEF Ends, FailRow, ReleaseRow, SucceedRow
<1>. QED BY <1>1, <1>2, <1>3, RowSteps DEF RowTypeOK

LEMMA HolderSteps ==
  ASSUME IInv, Next
  PROVE  HolderInv' /\ AttemptKeepsRun'
<1>. USE DEF IInv, TypeOK
<1>1. \A r \in Runs : generation'[r] >= generation[r]
  BY GenerationGrows
<1>2. \A w \in Workers : pc[w] \in Holding => run[w] \in Runs
  BY BusyWorker DEF Holding, Trying
<1>3. RowTypeOK'
  BY RowTypeSteps
<1>4. CASE UNCHANGED <<pc, run, mine>>
  <2>1. HolderInv'
    BY <1>1, <1>4, <1>3, HolderKept
  <2>2. AttemptKeepsRun'
    BY <1>4, OwnedKept DEF AttemptKeepsRun
  <2>. QED BY <2>1, <2>2
<1>5. ASSUME NEW w \in Workers, Keeps(w)
      PROVE  HolderInv' /\ AttemptKeepsRun'
  <2>1. HolderInv'
    BY <1>1, <1>5, <1>3, HolderKept DEF Keeps, WorkerTypeOK
  <2>2. ASSUME NEW v \in Workers, pc'[v] \in Trying
        PROVE  Owns(v)'
    BY <1>5, <2>2, OwnedKept DEF Keeps, WorkerTypeOK
  <2>. QED BY <2>1, <2>2 DEF AttemptKeepsRun
<1>6. ASSUME NEW w \in Workers, Leaves(w)
      PROVE  HolderInv' /\ AttemptKeepsRun'
  <2>1. \A v \in Workers : pc'[v] \in Holding =>
          v # w /\ pc[v] = pc'[v] /\ run'[v] = run[v] /\ mine'[v] = mine[v]
    BY <1>6 DEF Leaves, WorkerTypeOK
  <2>2. HolderInv'
    BY <1>1, <1>3, <2>1, HolderKept
  <2>3. AttemptKeepsRun'
    BY <2>1, OwnedKept DEF AttemptKeepsRun, Holding
  <2>. QED BY <2>2, <2>3
<1>7. ASSUME NEW w \in Workers, NEW m \in Messages, Takes(w, m)
      PROVE  HolderInv' /\ AttemptKeepsRun'
  <2>1. /\ pc'[w] = "prepare" /\ run'[w] = m[1] /\ mine'[w] = generation[m[1]] + 1
        /\ generation'[m[1]] = generation[m[1]] + 1
        /\ \A v \in Workers \ {w} : pc'[v] = pc[v] /\ run'[v] = run[v] /\ mine'[v] = mine[v]
    BY <1>7 DEF Takes, Claims, ClaimRow, RowTypeOK, WorkerTypeOK
  <2>2. HolderInv'
    <3>1. ASSUME NEW v \in Workers \ {w}, pc'[v] \in Holding
          PROVE  /\ mine'[v] <= generation[run'[v]] /\ mine'[v] <= generation'[run'[v]]
                 /\ run'[v] = run'[w] => mine'[v] # mine'[w]
      <4>1. /\ run'[v] \in Runs /\ mine'[v] <= generation[run'[v]] /\ mine'[v] \in Nat
        BY <1>2, <2>1, <3>1 DEF HolderInv, WorkerTypeOK
      <4>2. /\ generation[run'[v]] \in Nat /\ generation'[run'[v]] \in Nat
            /\ generation'[run'[v]] >= generation[run'[v]]
        BY <1>1, <1>3, <4>1 DEF RowTypeOK
      <4>. QED BY <2>1, <4>1, <4>2
    <3>2. mine'[w] <= generation'[run'[w]]
      BY <2>1 DEF RowTypeOK
    <3>3. ASSUME NEW u \in Workers, NEW v \in Workers, pc'[u] \in Holding, pc'[v] \in Holding,
                 run'[v] = run'[u], mine'[v] = mine'[u]
          PROVE  v = u
      BY <2>1, <3>1, <3>3 DEF HolderInv
    <3>. QED BY <3>1, <3>2, <3>3 DEF HolderInv
  <2>3. Owns(w)'
    BY <1>7, <2>1 DEF Owns, Takes, Claims, ClaimRow, RowTypeOK
  <2>4. ASSUME NEW v \in Workers \ {w}, pc'[v] \in Trying
        PROVE  Owns(v)'
    BY <2>1, <2>4, OwnedKept
  <2>. QED BY <2>2, <2>3, <2>4 DEF AttemptKeepsRun
<1>. QED BY <1>4, <1>5, <1>6, <1>7, Moves

-----------------------------------------------------------------------------
(* Trainers *)

\* Two workers that hold attempts hold different ones.
LEMMA Distinct ==
  ASSUME WorkerTypeOK, HolderInv, NEW v \in Workers, NEW w \in Workers,
         pc[v] \in Holding, pc[w] \in Holding, Mine(v) = Mine(w)
  PROVE  v = w
BY DEF HolderInv, Mine

\* What a step does to the trainers and to their record.
LEMMA TrainerMoves ==
  ASSUME TypeOK, Next
  PROVE  \/ UNCHANGED <<trainers, survivors>>
         \/ \E w \in Workers : Prepare(w) /\ trainers' = trainers \cup {Mine(w)} /\ UNCHANGED survivors
         \/ \E w \in Workers : /\ FinalizeUnkillable(w) /\ UNCHANGED trainers
                              /\ survivors' = survivors \cup {Mine(w)}
         \/ trainers' \subseteq trainers /\ UNCHANGED survivors
<1>1. ASSUME Publishing \/ \E q \in Requesters : StartRead(q) \/ StartCommit(q) \/ StartAbort(q)
      PROVE  UNCHANGED <<trainers, survivors>>
  BY <1>1 DEF Publishing, PublishSend, PublishEnd, StartRead, StartCommit, StartAbort, effects,
    history
<1>2. ASSUME NEW m \in Messages, VisibilityTimeout(m) \/ \E w \in Workers : Deliver(w, m)
      PROVE  UNCHANGED <<trainers, survivors>>
  BY <1>2 DEF VisibilityTimeout, Deliver, effects, history
<1>3. ASSUME NEW a \in trainers, TrainerDies(a)
      PROVE  trainers' \subseteq trainers /\ UNCHANGED survivors
  BY <1>3 DEF TrainerDies, history
<1>4. ASSUME NEW w \in Workers, WorkerStep(w)
      PROVE  \/ Prepare(w) /\ trainers' = trainers \cup {Mine(w)} /\ UNCHANGED survivors
             \/ trainers' \subseteq trainers /\ UNCHANGED survivors
  BY <1>4 DEF WorkerStep, Prepare, Train, Upload, Copy, Clean, Commit, Finalize, CleanedUp, Retry,
    Exhausted, SettleMessage, effects, history
<1>5. ASSUME NEW w \in Workers, Disturbance(w)
      PROVE  \/ /\ FinalizeUnkillable(w) /\ UNCHANGED trainers
                /\ survivors' = survivors \cup {Mine(w)}
             \/ trainers' \subseteq trainers /\ UNCHANGED survivors
  BY <1>5 DEF Disturbance, PrepareFails, TrainFails, UploadFails, CopyFails, CleanFails, CommitFails,
    FinalizeDirty, CleanedUp, FinalizeUnkillable, FinalizeRaises, WorkerLost, HostCrash, HardTimeout,
    effects, history
<1>. QED BY <1>1, <1>2, <1>3, <1>4, <1>5 DEF Next

LEMMA TrainerOwnsSteps ==
  ASSUME IInv, Next
  PROVE  \A a \in (trainers \ survivors)' : token'[a[1]] = a[2]
<1>. USE DEF IInv, TypeOK
<1>1. ASSUME NEW a \in trainers'
      PROVE  a \in trainers \/ \E w \in Workers : Prepare(w) /\ a = Mine(w)
  BY <1>1, TrainerMoves
<1>2. survivors \subseteq survivors'
  BY TrainerMoves
<1>3. trainers \subseteq Runs \X (Nat \ {0})
  BY DEF EffectTypeOK
<1>4. CASE UNCHANGED rowVars
  <2>1. ASSUME NEW w \in Workers, Prepare(w)
        PROVE  token[run[w]] = mine[w]
    BY <2>1 DEF Prepare, AttemptKeepsRun, Owns, Trying
  <2>. QED BY <1>1, <1>2, <1>4, <2>1 DEF TrainerInv, Mine, rowVars
<1>5. ASSUME ~ UNCHANGED rowVars, NEW w \in Workers
      PROVE  ~Prepare(w)
  BY <1>5 DEF Prepare
<1>6. ASSUME ~ UNCHANGED rowVars
      PROVE  trainers' \subseteq trainers
  BY <1>1, <1>5, <1>6
<1>7. ASSUME NEW r \in Runs, Starts(r), trainers' \subseteq trainers
      PROVE  \A a \in (trainers \ survivors)' : token'[a[1]] = a[2]
  BY <1>2, <1>7 DEF TrainerInv, Starts
<1>8. ASSUME NEW r \in Runs, Claims(r), trainers' \subseteq trainers
      PROVE  \A a \in (trainers \ survivors)' : token'[a[1]] = a[2]
  <2>1. ASSUME NEW a \in trainers \ survivors
        PROVE  a[1] \in Runs \ {r} /\ token[a[1]] = a[2]
    BY <1>3, <1>8, <2>1 DEF TrainerInv, Claims, Claimable
  <2>. QED BY <1>2, <1>8, <2>1 DEF Claims, ClaimRow, RowTypeOK
<1>9. ASSUME NEW w \in Workers, pc[w] \in {"commit", "finalize"}, Ends(w), trainers' \subseteq trainers,
             Commit(w) \/ Finalize(w) \/ FinalizeDirty(w) \/ FinalizeUnkillable(w)
      PROVE  \A a \in (trainers \ survivors)' : token'[a[1]] = a[2]
  <2>1. Mine(w) \notin (trainers \ survivors)'
    BY <1>9 DEF Commit, Finalize, FinalizeDirty, FinalizeUnkillable, CleanedUp, TrainerInv, Trained,
      effects
  <2>2. run[w] \in Runs /\ token[run[w]] = mine[w]
    BY <1>9, BusyWorker DEF Ends, Owns
  <2>3. \A r \in Runs \ {run[w]} : token'[r] = token[r]
    BY <1>9 DEF Ends, FailRow, ReleaseRow, SucceedRow, LetGo, RowTypeOK
  <2>4. ASSUME NEW a \in (trainers \ survivors)'
        PROVE  token'[a[1]] = a[2]
    <3>1. a \in trainers \ survivors /\ a[1] \in Runs /\ a = <<a[1], a[2]>>
      BY <1>2, <1>3, <1>9, <2>4
    <3>2. a[1] # run[w]
      BY <2>1, <2>2, <2>4, <3>1 DEF TrainerInv, Mine
    <3>. QED BY <2>3, <3>1, <3>2 DEF TrainerInv
  <2>. QED BY <2>4
<1>. QED BY <1>4, <1>6, <1>7, <1>8, <1>9, RowSteps

\* Only the end of the trainer leads to the upload.
LEMMA BecomesTrained ==
  ASSUME TypeOK, Next, NEW w \in Workers, pc'[w] \in Trained, pc[w] \notin Trained
  PROVE  Train(w)
<1>. USE DEF TypeOK, WorkerTypeOK
<1>1. ASSUME NEW v \in Workers, Train(v)
      PROVE  v = w
  BY <1>1 DEF Train, Goto
<1>2. ASSUME NEW v \in Workers,
             \/ Prepare(v) \/ Upload(v) \/ Copy(v) \/ Clean(v) \/ Commit(v) \/ CleanFails(v)
      PROVE  FALSE
  BY <1>2 DEF Prepare, Upload, Copy, Clean, Commit, CleanFails, Goto, Settle, Trained
<1>3. ASSUME NEW v \in Workers,
             \/ PrepareFails(v) \/ TrainFails(v) \/ UploadFails(v) \/ CopyFails(v) \/ CommitFails(v)
      PROVE  FALSE
  BY <1>3 DEF PrepareFails, TrainFails, UploadFails, CopyFails, CommitFails, Fails, FailsOrLost,
    Raises, Trained
<1>4. ASSUME NEW v \in Workers, NEW p \in {"retry", "done"}, Settle(v, p)
      PROVE  FALSE
  BY <1>4 DEF Settle, Trained
<1>5. ASSUME NEW v \in Workers, Idle(v)
      PROVE  FALSE
  BY <1>5 DEF Idle, Trained
<1>6. ASSUME NEW v \in Workers,
             \/ Finalize(v) \/ FinalizeDirty(v) \/ FinalizeUnkillable(v) \/ FinalizeRaises(v)
             \/ Retry(v) \/ Exhausted(v) \/ SettleMessage(v)
             \/ WorkerLost(v) \/ HostCrash(v) \/ HardTimeout(v)
      PROVE  FALSE
  BY <1>4, <1>5, <1>6 DEF Finalize, FinalizeDirty, FinalizeUnkillable, FinalizeRaises, Retry,
    Exhausted, SettleMessage, WorkerLost, HostCrash, HardTimeout
<1>7. ASSUME NEW v \in Workers, NEW m \in Messages, Deliver(v, m)
      PROVE  FALSE
  BY <1>7 DEF Deliver, Claim, ClaimRaises, Trained
<1>8. ASSUME \/ Publishing \/ \E m \in Messages : VisibilityTimeout(m)
             \/ \E a \in trainers : TrainerDies(a)
             \/ \E q \in Requesters : StartRead(q) \/ StartCommit(q) \/ StartAbort(q)
      PROVE  FALSE
  BY <1>8 DEF Publishing, PublishSend, PublishEnd, VisibilityTimeout, TrainerDies, StartRead,
    StartCommit, StartAbort, workerVars
<1>. QED BY <1>1, <1>2, <1>3, <1>6, <1>7, <1>8 DEF Next, WorkerStep, Disturbance

LEMMA TrainedSteps ==
  ASSUME IInv, Next
  PROVE  \A w \in Workers : pc'[w] \in Trained => Mine(w)' \notin trainers'
<1>. USE DEF IInv, TypeOK
<1>1. SUFFICES ASSUME NEW w \in Workers, pc'[w] \in Trained
               PROVE  Mine(w)' \notin trainers'
  OBVIOUS
<1>2. pc[w] \in Holding /\ run'[w] = run[w] /\ mine'[w] = mine[w]
  BY <1>1, Moves DEF Keeps, Leaves, Takes, Trained, Holding, Trying, WorkerTypeOK
<1>3. ASSUME NEW v \in Workers, Prepare(v)
      PROVE  Mine(w) # Mine(v) /\ pc[w] \in Trained
  BY <1>1, <1>2, <1>3, Distinct DEF Prepare, Goto, Trained, Holding, Trying, WorkerTypeOK
<1>4. CASE pc[w] \in Trained
  <2>1. Mine(w) \notin trainers
    BY <1>4 DEF TrainerInv
  <2>. QED BY <1>2, <1>3, <2>1, TrainerMoves DEF Mine
<1>5. CASE pc[w] \notin Trained
  <2>1. Train(w)
    BY <1>1, <1>5, BecomesTrained
  <2>. QED BY <1>2, <2>1 DEF Train, Mine
<1>. QED BY <1>4, <1>5

LEMMA WorkspaceSteps ==
  ASSUME IInv, Next
  PROVE  TrainerKeepsWorkspace'
<1>. USE DEF IInv, TypeOK
<1>1. ASSUME NEW w \in Workers, Prepare(w)
      PROVE  TrainerKeepsWorkspace'
  BY <1>1 DEF Prepare, TrainerKeepsWorkspace
<1>2. CASE working \subseteq working' /\ trainers' \subseteq trainers
  BY <1>2 DEF TrainerKeepsWorkspace
<1>3. ASSUME NEW w \in Workers, Mine(w) \notin trainers', trainers' \subseteq trainers,
             working \ CopiesOf(Mine(w)) \subseteq working'
      PROVE  TrainerKeepsWorkspace'
  BY <1>3 DEF TrainerKeepsWorkspace, CopiesOf
<1>4. ASSUME NEW w \in Workers, Clean(w) \/ CleanFails(w)
      PROVE  TrainerKeepsWorkspace'
  <2>1. Mine(w) \notin trainers /\ UNCHANGED trainers
    BY <1>4 DEF Clean, CleanFails, TrainerInv, Trained
  <2>2. working \ CopiesOf(Mine(w)) \subseteq working'
    BY <1>4 DEF Clean, CleanFails, CopiesOf
  <2>. QED BY <1>3, <2>1, <2>2
<1>5. ASSUME NEW w \in Workers, Finalize(w) \/ FinalizeDirty(w) \/ FinalizeRaises(w)
      PROVE  TrainerKeepsWorkspace'
  <2>1. Mine(w) \notin trainers' /\ trainers' \subseteq trainers
    BY <1>5 DEF Finalize, FinalizeDirty, FinalizeRaises, CleanedUp
  <2>2. working \ CopiesOf(Mine(w)) \subseteq working'
    BY <1>5 DEF Finalize, FinalizeDirty, FinalizeRaises, CleanedUp, CopiesOf
  <2>. QED BY <1>3, <2>1, <2>2
<1>6. ASSUME NEW w \in Workers,
             \/ Train(w) \/ Upload(w) \/ Copy(w) \/ Commit(w)
             \/ Retry(w) \/ Exhausted(w) \/ SettleMessage(w)
             \/ PrepareFails(w) \/ TrainFails(w) \/ UploadFails(w) \/ CopyFails(w) \/ CommitFails(w)
             \/ FinalizeUnkillable(w) \/ WorkerLost(w) \/ HostCrash(w) \/ HardTimeout(w)
      PROVE  working \subseteq working' /\ trainers' \subseteq trainers
  BY <1>6 DEF Train, Upload, Copy, Commit, Retry, Exhausted, SettleMessage, PrepareFails,
    TrainFails, UploadFails, CopyFails, CommitFails, FinalizeUnkillable, KeptForSurvivor,
    WorkerLost, HostCrash, HardTimeout, effects
<1>7. ASSUME \/ Publishing \/ \E m \in Messages : VisibilityTimeout(m)
             \/ \E a \in trainers : TrainerDies(a)
             \/ \E q \in Requesters : StartRead(q) \/ StartCommit(q) \/ StartAbort(q)
             \/ \E w \in Workers, m \in Messages : Deliver(w, m)
      PROVE  working \subseteq working' /\ trainers' \subseteq trainers
  BY <1>7 DEF Publishing, PublishSend, PublishEnd, VisibilityTimeout, TrainerDies, StartRead,
    StartCommit, StartAbort, Deliver, effects
<1>. QED BY <1>1, <1>2, <1>4, <1>5, <1>6, <1>7 DEF Next, WorkerStep, Disturbance

-----------------------------------------------------------------------------
(* Final artifacts *)

\* A final name changes only by an attempt that owns its run: it copies to it, or it
\* finalizes itself.
LEMMA FinalMoves ==
  ASSUME IInv, Next, NEW r \in Runs, NEW n \in Artifacts, final'[<<r, n>>] # final[<<r, n>>]
  PROVE  \E w \in Workers : /\ run[w] = r /\ Owns(w) /\ pc[w] \in {"copy", "finalize"}
                            /\ Copy(w) \/ pc'[w] \notin Copying
<1>. USE DEF IInv, TypeOK, WorkerTypeOK, EffectTypeOK
<1>1. ASSUME NEW w \in Workers, Copy(w) \/ CopyFails(w)
      PROVE  /\ run[w] = r /\ Owns(w) /\ pc[w] = "copy"
             /\ Copy(w) \/ pc'[w] \notin Copying
  <2>1. pc[w] = "copy" /\ Owns(w)
    BY <1>1 DEF Copy, CopyFails, AttemptKeepsRun, Trying
  <2>2. run[w] = r
    BY <1>1 DEF Copy, CopyFails, Copied
  <2>3. CopyFails(w) => pc'[w] \notin Copying
    BY DEF CopyFails, FailsOrLost, Raises, Copying
  <2>. QED BY <1>1, <2>1, <2>2, <2>3
<1>2. ASSUME NEW w \in Workers, Finalize(w) \/ FinalizeDirty(w) \/ FinalizeRaises(w)
      PROVE  /\ run[w] = r /\ Owns(w) /\ pc[w] = "finalize" /\ pc'[w] \notin Copying
  <2>1. PICK names \in SUBSET TakenBack(w) : final' = Without(names) \/ final' = final
    BY <1>2 DEF Finalize, FinalizeDirty, FinalizeRaises, CleanedUp
  <2>2. run[w] = r /\ Owns(w)
    BY <2>1 DEF Without, TakenBack
  <2>3. pc[w] = "finalize" /\ pc'[w] \notin Copying
    BY <1>2 DEF Finalize, FinalizeDirty, FinalizeRaises, Settle, Copying
  <2>. QED BY <2>2, <2>3
<1>3. ASSUME NEW w \in Workers,
             \/ Prepare(w) \/ Train(w) \/ Upload(w) \/ Clean(w) \/ Commit(w)
             \/ Retry(w) \/ Exhausted(w) \/ SettleMessage(w)
             \/ PrepareFails(w) \/ TrainFails(w) \/ UploadFails(w) \/ CleanFails(w) \/ CommitFails(w)
             \/ FinalizeUnkillable(w) \/ WorkerLost(w) \/ HostCrash(w) \/ HardTimeout(w)
      PROVE  FALSE
  BY <1>3 DEF Prepare, Train, Upload, Clean, Commit, Retry, Exhausted, SettleMessage,
    PrepareFails, TrainFails, UploadFails, CleanFails, CommitFails, FinalizeUnkillable,
    WorkerLost, HostCrash, HardTimeout, effects
<1>4. ASSUME \/ Publishing \/ \E m \in Messages : VisibilityTimeout(m)
             \/ \E a \in trainers : TrainerDies(a)
             \/ \E q \in Requesters : StartRead(q) \/ StartCommit(q) \/ StartAbort(q)
             \/ \E w \in Workers, m \in Messages : Deliver(w, m)
      PROVE  FALSE
  BY <1>4 DEF Publishing, PublishSend, PublishEnd, VisibilityTimeout, TrainerDies, StartRead,
    StartCommit, StartAbort, Deliver, effects
<1>. QED BY <1>1, <1>2, <1>3, <1>4 DEF Next, WorkerStep, Disturbance

\* What a step does to one worker's place and to what it has copied.
LEMMA CopyMoves ==
  ASSUME TypeOK, Next, NEW w \in Workers
  PROVE  \/ pc'[w] = pc[w] /\ copied'[w] = copied[w] /\ (run'[w] = run[w] /\ mine'[w] = mine[w])
         \/ Copy(w) \/ Clean(w)
         \/ pc'[w] = "finalize"
         \/ pc'[w] \notin Copying \cup {"finalize"} /\ copied'[w] = {}
         \/ /\ pc[w] \notin Copying \cup {"finalize"} /\ copied'[w] = copied[w]
            /\ pc'[w] \notin {"clean", "commit"}
<1>. USE DEF TypeOK, WorkerTypeOK, Copying
<1>1. ASSUME NEW v \in Workers, Prepare(v) \/ Train(v) \/ Upload(v) \/ CleanFails(v)
      PROVE  \/ v # w /\ pc'[w] = pc[w] /\ copied'[w] = copied[w] /\ (run'[w] = run[w] /\ mine'[w] = mine[w])
             \/ pc'[w] = "finalize"
             \/ /\ pc[w] \notin Copying \cup {"finalize"} /\ copied'[w] = copied[w]
                /\ pc'[w] \notin {"clean", "commit"}
  BY <1>1 DEF Prepare, Train, Upload, CleanFails, Goto, memory
<1>2. ASSUME NEW v \in Workers, v # w, Copy(v) \/ Clean(v)
      PROVE  pc'[w] = pc[w] /\ copied'[w] = copied[w] /\ (run'[w] = run[w] /\ mine'[w] = mine[w])
  BY <1>2 DEF Copy, Clean, Goto, memory
<1>3. ASSUME NEW v \in Workers,
             \/ PrepareFails(v) \/ TrainFails(v) \/ UploadFails(v) \/ CopyFails(v) \/ CommitFails(v)
      PROVE  \/ pc'[w] = pc[w] /\ copied'[w] = copied[w] /\ (run'[w] = run[w] /\ mine'[w] = mine[w])
             \/ pc'[w] = "finalize"
  BY <1>3 DEF PrepareFails, TrainFails, UploadFails, CopyFails, CommitFails, Fails, FailsOrLost,
    Raises
<1>4. ASSUME NEW v \in Workers, NEW p \in {"retry", "done"}, Settle(v, p)
      PROVE  \/ pc'[w] = pc[w] /\ copied'[w] = copied[w] /\ (run'[w] = run[w] /\ mine'[w] = mine[w])
             \/ pc'[w] \notin Copying \cup {"finalize"} /\ copied'[w] = {}
  BY <1>4 DEF Settle, ForgetAttempt
<1>5. ASSUME NEW v \in Workers, Idle(v)
      PROVE  \/ pc'[w] = pc[w] /\ copied'[w] = copied[w] /\ (run'[w] = run[w] /\ mine'[w] = mine[w])
             \/ pc'[w] \notin Copying \cup {"finalize"} /\ copied'[w] = {}
  BY <1>5 DEF Idle, ForgetAttempt
<1>6. ASSUME NEW v \in Workers, Commit(v)
      PROVE  \/ Settle(v, "done")
             \/ pc'[w] = pc[w] /\ copied'[w] = copied[w] /\ (run'[w] = run[w] /\ mine'[w] = mine[w])
             \/ pc'[w] = "finalize"
  BY <1>6 DEF Commit, Goto, memory
<1>7. ASSUME NEW v \in Workers,
             \/ Finalize(v) \/ FinalizeDirty(v) \/ FinalizeUnkillable(v) \/ FinalizeRaises(v)
             \/ Retry(v) \/ Exhausted(v) \/ SettleMessage(v)
             \/ WorkerLost(v) \/ HostCrash(v) \/ HardTimeout(v)
      PROVE  Settle(v, "done") \/ Settle(v, "retry") \/ Idle(v)
  BY <1>7 DEF Finalize, FinalizeDirty, FinalizeUnkillable, FinalizeRaises, Retry, Exhausted,
    SettleMessage, WorkerLost, HostCrash, HardTimeout
<1>8. ASSUME NEW v \in Workers, NEW m \in Messages, Deliver(v, m)
      PROVE  \/ pc'[w] = pc[w] /\ copied'[w] = copied[w] /\ (run'[w] = run[w] /\ mine'[w] = mine[w])
             \/ /\ pc[w] \notin Copying \cup {"finalize"} /\ copied'[w] = copied[w]
                /\ pc'[w] \notin {"clean", "commit"}
  BY <1>8 DEF Deliver, Claim, ClaimRaises
<1>9. ASSUME \/ Publishing \/ \E m \in Messages : VisibilityTimeout(m)
             \/ \E a \in trainers : TrainerDies(a)
             \/ \E q \in Requesters : StartRead(q) \/ StartCommit(q) \/ StartAbort(q)
      PROVE  UNCHANGED <<pc, run, mine, copied>>
  BY <1>9 DEF Publishing, PublishSend, PublishEnd, VisibilityTimeout, TrainerDies, StartRead,
    StartCommit, StartAbort, workerVars, memory
<1>. QED
  BY <1>1, <1>2, <1>3, <1>4, <1>5, <1>6, <1>7, <1>8, <1>9 DEF Next, WorkerStep, Disturbance

LEMMA CopySteps ==
  ASSUME IInv, Next
  PROVE  CopyInv'
<1>. USE DEF IInv, TypeOK
<1>1. SUFFICES ASSUME NEW w \in Workers
      PROVE  /\ pc'[w] \notin Copying \cup {"finalize"} => copied'[w] = {}
             /\ pc'[w] \in {"clean", "commit"} => copied'[w] = Artifacts
             /\ pc'[w] \in Copying =>
                  \A n \in copied'[w] : final'[<<run'[w], n>>] = mine'[w]
  BY DEF CopyInv
<1>. DEFINE Stays == run'[w] = run[w] /\ mine'[w] = mine[w]
<1>2. /\ pc[w] \notin Copying \cup {"finalize"} => copied[w] = {}
      /\ pc[w] \in {"clean", "commit"} => copied[w] = Artifacts
      /\ pc[w] \in Copying => \A n \in copied[w] : final[<<run[w], n>>] = mine[w]
  BY DEF CopyInv
<1>3. CASE Copy(w)
  <2>1. /\ pc[w] = "copy" /\ Stays /\ run[w] \in Runs
        /\ copied'[w] = copied[w] \cup {NextCopy(w)} /\ copied[w] \subseteq Artifacts
        /\ pc'[w] = IF NextCopy(w) = "snapshot" THEN "clean" ELSE "copy"
        /\ final' = Copied(w) /\ NextCopy(w) \in Artifacts
    BY <1>3, BusyWorker DEF Copy, WorkerTypeOK, NextCopy, Artifacts
  <2>2. pc'[w] = "clean" => copied'[w] = Artifacts
    BY <2>1 DEF NextCopy, Artifacts
  <2>3. \A n \in copied'[w] : final'[<<run[w], n>>] = mine[w]
    <3>1. \A n \in copied[w] : final[<<run[w], n>>] = mine[w]
      BY <1>2, <2>1 DEF Copying
    <3>. QED BY <2>1, <3>1 DEF Copied, EffectTypeOK
  <2>. QED BY <2>1, <2>2, <2>3 DEF Copying
<1>4. ASSUME ~Copy(w), pc[w] \in Copying, pc'[w] \in Copying, Stays, NEW n \in Artifacts
      PROVE  final'[<<run[w], n>>] = final[<<run[w], n>>]
  <2>1. run[w] \in Runs /\ Owns(w) /\ pc[w] \in Holding
    BY <1>4, BusyWorker DEF Copying, AttemptKeepsRun, Trying, Holding
  <2>2. SUFFICES ASSUME final'[<<run[w], n>>] # final[<<run[w], n>>]
                 PROVE  FALSE
    OBVIOUS
  <2>3. PICK v \in Workers : /\ run[v] = run[w] /\ Owns(v) /\ pc[v] \in {"copy", "finalize"}
                             /\ Copy(v) \/ pc'[v] \notin Copying
    BY <1>4, <2>1, <2>2, FinalMoves
  <2>4. v = w
    BY <2>1, <2>3, Distinct DEF Owns, Mine, Holding, Trying
  <2>. QED BY <1>4, <2>3, <2>4
<1>5. CASE Clean(w)
  <2>1. pc[w] = "clean" /\ pc'[w] = "commit" /\ Stays /\ copied'[w] = copied[w] /\ ~Copy(w)
    BY <1>5 DEF Clean, Goto, memory, WorkerTypeOK, Copy
  <2>2. \A n \in Artifacts : final'[<<run[w], n>>] = final[<<run[w], n>>]
    BY <1>4, <2>1 DEF Copying
  <2>. QED BY <1>2, <2>1, <2>2 DEF Copying
<1>6. CASE ~Copy(w) /\ pc'[w] = pc[w] /\ copied'[w] = copied[w] /\ Stays
  <2>1. pc[w] \in Copying => \A n \in Artifacts : final'[<<run[w], n>>] = final[<<run[w], n>>]
    BY <1>4, <1>6
  <2>2. copied[w] \subseteq Artifacts
    BY DEF WorkerTypeOK
  <2>. QED BY <1>2, <1>6, <2>1, <2>2
<1>7. CASE pc'[w] = "finalize"
  BY <1>7 DEF Copying
<1>8. CASE pc'[w] \notin Copying \cup {"finalize"} /\ copied'[w] = {}
  BY <1>8 DEF Copying
<1>9. CASE /\ pc[w] \notin Copying \cup {"finalize"} /\ copied'[w] = copied[w]
           /\ pc'[w] \notin {"clean", "commit"}
  BY <1>2, <1>9
<1>. QED BY <1>3, <1>5, <1>6, <1>7, <1>8, <1>9, CopyMoves

\* A succeeded row stays as it is, and a run succeeds only by the commit of its owner.
LEMMA Succeeds ==
  ASSUME IInv, Next, NEW r \in Runs, status'[r] = "SUCCEEDED"
  PROVE  \/ status[r] = "SUCCEEDED" /\ artifact'[r] = artifact[r] /\ version'[r] = version[r]
         \/ \E w \in Workers : /\ Commit(w) /\ Owns(w) /\ run[w] = r
                              /\ SucceedRow(r, mine[w]) /\ artifact'[r] = mine[w]
<1>. USE DEF IInv, TypeOK
<1>1. CASE UNCHANGED rowVars
  BY <1>1 DEF rowVars
<1>2. ASSUME NEW s \in Runs, Starts(s)
      PROVE  status[r] = "SUCCEEDED" /\ artifact'[r] = artifact[r] /\ version'[r] = version[r]
  BY <1>2 DEF Starts, RowTypeOK
<1>3. ASSUME NEW s \in Runs, Claims(s)
      PROVE  status[r] = "SUCCEEDED" /\ artifact'[r] = artifact[r] /\ version'[r] = version[r]
  BY <1>3 DEF Claims, ClaimRow, RowTypeOK
<1>4. ASSUME NEW w \in Workers, Finalize(w) \/ FinalizeDirty(w) \/ FinalizeUnkillable(w), Ends(w)
      PROVE  status[r] = "SUCCEEDED" /\ artifact'[r] = artifact[r] /\ version'[r] = version[r]
  BY <1>4 DEF Finalize, FinalizeDirty, FinalizeUnkillable, Verdict, Owns, FailRow, ReleaseRow,
    rowVars, RowTypeOK
<1>5. ASSUME NEW w \in Workers, Commit(w)
      PROVE  \/ status[r] = "SUCCEEDED" /\ artifact'[r] = artifact[r] /\ version'[r] = version[r]
             \/ /\ Commit(w) /\ Owns(w) /\ run[w] = r
                /\ SucceedRow(r, mine[w]) /\ artifact'[r] = mine[w]
  BY <1>5 DEF Commit, SucceedRow, RowTypeOK
<1>. QED BY <1>1, <1>2, <1>3, <1>4, <1>5, RowSteps

LEMMA ServedSteps ==
  ASSUME IInv, Next
  PROVE  ModelIsServed'
<1>. USE DEF IInv, TypeOK
<1>1. SUFFICES ASSUME NEW r \in Runs, status'[r] = "SUCCEEDED", NEW n \in Artifacts
               PROVE  final'[<<r, n>>] = artifact'[r]
  BY DEF ModelIsServed
<1>2. CASE status[r] = "SUCCEEDED" /\ artifact'[r] = artifact[r]
  <2>1. final[<<r, n>>] = artifact[r]
    BY <1>2 DEF ModelIsServed
  <2>2. final'[<<r, n>>] = final[<<r, n>>]
    BY <1>2, FinalMoves DEF Owns
  <2>. QED BY <1>2, <2>1, <2>2
<1>3. ASSUME NEW w \in Workers, Commit(w), run[w] = r, artifact'[r] = mine[w]
      PROVE  final'[<<r, n>>] = artifact'[r]
  BY <1>3 DEF Commit, CopyInv, Copying, effects
<1>. QED BY <1>1, <1>2, <1>3, Succeeds

-----------------------------------------------------------------------------
(* Letting go *)

\* What a step does to one worker's attempt.
LEMMA HoldingMoves ==
  ASSUME TypeOK, Next, NEW w \in Workers, pc'[w] \in Holding
  PROVE  \/ /\ pc[w] \in Holding /\ run'[w] = run[w] /\ mine'[w] = mine[w]
            /\ copied[w] \subseteq copied'[w]
         \/ \E m \in Messages : Deliver(w, m) /\ Takes(w, m)
<1>. USE DEF TypeOK, WorkerTypeOK
<1>1. CASE UNCHANGED <<pc, run, mine, copied>>
  BY <1>1
<1>2. ASSUME NEW v \in Workers,
             \/ Prepare(v) \/ Train(v) \/ Upload(v) \/ Copy(v) \/ Clean(v) \/ CleanFails(v)
             \/ PrepareFails(v) \/ TrainFails(v) \/ UploadFails(v) \/ CopyFails(v) \/ CommitFails(v)
      PROVE  /\ pc[w] \in Holding /\ run'[w] = run[w] /\ mine'[w] = mine[w]
             /\ copied[w] \subseteq copied'[w]
  <2>1. pc[v] \in Holding /\ UNCHANGED <<run, mine>> /\ (v # w => pc'[w] = pc[w])
    BY <1>2 DEF Prepare, Train, Upload, Copy, Clean, CleanFails, PrepareFails, TrainFails,
      UploadFails, CopyFails, CommitFails, Fails, FailsOrLost, Raises, Goto, memory, Holding, Trying
  <2>2. copied[w] \subseteq copied'[w]
    BY <1>2 DEF Prepare, Train, Upload, Copy, Clean, CleanFails, PrepareFails, TrainFails,
      UploadFails, CopyFails, CommitFails, Tracked, Goto, memory
  <2>. QED BY <2>1, <2>2
<1>3. ASSUME NEW v \in Workers, NEW p \in {"retry", "done"}, Settle(v, p)
      PROVE  /\ pc[w] \in Holding /\ run'[w] = run[w] /\ mine'[w] = mine[w]
             /\ copied[w] \subseteq copied'[w]
  BY <1>3 DEF Settle, ForgetAttempt, Holding, Trying
<1>4. ASSUME NEW v \in Workers, Idle(v)
      PROVE  /\ pc[w] \in Holding /\ run'[w] = run[w] /\ mine'[w] = mine[w]
             /\ copied[w] \subseteq copied'[w]
  BY <1>4 DEF Idle, ForgetAttempt, Holding, Trying
<1>5. ASSUME NEW v \in Workers, Commit(v), Goto(v, "finalize")
      PROVE  /\ pc[w] \in Holding /\ run'[w] = run[w] /\ mine'[w] = mine[w]
             /\ copied[w] \subseteq copied'[w]
  BY <1>5 DEF Commit, Goto, memory, Holding, Trying
<1>6. ASSUME NEW v \in Workers,
             \/ Finalize(v) \/ FinalizeDirty(v) \/ FinalizeUnkillable(v) \/ FinalizeRaises(v)
             \/ Retry(v) \/ Exhausted(v) \/ SettleMessage(v) \/ Commit(v)
             \/ WorkerLost(v) \/ HostCrash(v) \/ HardTimeout(v)
      PROVE  Settle(v, "done") \/ Settle(v, "retry") \/ Idle(v) \/ (Commit(v) /\ Goto(v, "finalize"))
  BY <1>6 DEF Finalize, FinalizeDirty, FinalizeUnkillable, FinalizeRaises, Retry, Exhausted,
    SettleMessage, Commit, WorkerLost, HostCrash, HardTimeout
<1>7. ASSUME NEW v \in Workers, NEW m \in Messages, Deliver(v, m)
      PROVE  \/ /\ pc[w] \in Holding /\ run'[w] = run[w] /\ mine'[w] = mine[w]
                /\ copied[w] \subseteq copied'[w]
             \/ v = w /\ Takes(w, m)
  <2>1. CASE v # w
    BY <1>7, <2>1 DEF Deliver, Claim, ClaimRaises
  <2>2. CASE v = w
    BY <1>7, <2>2 DEF Deliver, Claim, ClaimRaises, Takes, Claims, Holding, Trying
  <2>. QED BY <2>1, <2>2
<1>8. ASSUME \/ Publishing \/ \E m \in Messages : VisibilityTimeout(m)
             \/ \E a \in trainers : TrainerDies(a)
             \/ \E q \in Requesters : StartRead(q) \/ StartCommit(q) \/ StartAbort(q)
      PROVE  UNCHANGED <<pc, run, mine, copied>>
  BY <1>8 DEF Publishing, PublishSend, PublishEnd, VisibilityTimeout, TrainerDies, StartRead,
    StartCommit, StartAbort, workerVars, memory
<1>. QED
  BY <1>1, <1>2, <1>3, <1>4, <1>5, <1>6, <1>7, <1>8 DEF Next, WorkerStep, Disturbance

\* Working copies are made by an attempt that is preparing or uploading.
LEMMA WorkingMoves ==
  ASSUME TypeOK, Next
  PROVE  \/ working' \subseteq working
         \/ \E w \in Workers : /\ pc[w] \in {"prepare", "upload"}
                              /\ working' \subseteq working \cup CopiesOf(Mine(w))
<1>1. ASSUME NEW w \in Workers, Prepare(w) \/ PrepareFails(w) \/ Upload(w) \/ UploadFails(w)
      PROVE  pc[w] \in {"prepare", "upload"} /\ working' \subseteq working \cup CopiesOf(Mine(w))
  BY <1>1 DEF Prepare, PrepareFails, Upload, UploadFails, CopiesOf, Copies, Artifacts
<1>2. ASSUME NEW w \in Workers,
             \/ Clean(w) \/ CleanFails(w)
             \/ Finalize(w) \/ FinalizeDirty(w) \/ FinalizeUnkillable(w) \/ FinalizeRaises(w)
      PROVE  working' \subseteq working
  BY <1>2 DEF Clean, CleanFails, Finalize, FinalizeDirty, FinalizeUnkillable, FinalizeRaises,
    CleanedUp, KeptForSurvivor
<1>3. ASSUME NEW w \in Workers,
             \/ Train(w) \/ Copy(w) \/ Commit(w) \/ Retry(w) \/ Exhausted(w) \/ SettleMessage(w)
             \/ TrainFails(w) \/ CopyFails(w) \/ CommitFails(w)
             \/ WorkerLost(w) \/ HostCrash(w) \/ HardTimeout(w)
      PROVE  working' = working
  BY <1>3 DEF Train, Copy, Commit, Retry, Exhausted, SettleMessage, TrainFails, CopyFails,
    CommitFails, WorkerLost, HostCrash, HardTimeout, effects
<1>4. ASSUME \/ Publishing \/ \E m \in Messages : VisibilityTimeout(m)
             \/ \E a \in trainers : TrainerDies(a)
             \/ \E q \in Requesters : StartRead(q) \/ StartCommit(q) \/ StartAbort(q)
             \/ \E w \in Workers, m \in Messages : Deliver(w, m)
      PROVE  working' = working
  BY <1>4 DEF Publishing, PublishSend, PublishEnd, VisibilityTimeout, TrainerDies, StartRead,
    StartCommit, StartAbort, Deliver, effects
<1>. QED BY <1>1, <1>2, <1>3, <1>4 DEF Next, WorkerStep, Disturbance

\* A final name is removed, or gets the attempt of a worker that owns its run and notes it.
LEMMA FinalValues ==
  ASSUME IInv, Next, NEW r \in Runs, NEW n \in Artifacts
  PROVE  \/ final'[<<r, n>>] \in {final[<<r, n>>], 0}
         \/ \E w \in Workers : /\ pc[w] = "copy" /\ Owns(w) /\ run[w] = r
                              /\ final'[<<r, n>>] = mine[w] /\ n \in copied'[w]
<1>. USE DEF IInv, TypeOK, WorkerTypeOK, EffectTypeOK
<1>1. ASSUME NEW w \in Workers, Copy(w) \/ CopyFails(w)
      PROVE  \/ final'[<<r, n>>] = final[<<r, n>>]
             \/ /\ pc[w] = "copy" /\ Owns(w) /\ run[w] = r
                /\ final'[<<r, n>>] = mine[w] /\ n \in copied'[w]
  <2>1. pc[w] = "copy" /\ Owns(w) /\ final' \in {final, Copied(w)}
        /\ copied'[w] = copied[w] \cup {NextCopy(w)}
    BY <1>1 DEF Copy, CopyFails, AttemptKeepsRun, Trying, Tracked
  <2>. QED BY <2>1 DEF Copied
<1>2. ASSUME NEW w \in Workers, Finalize(w) \/ FinalizeDirty(w) \/ FinalizeRaises(w)
      PROVE  final'[<<r, n>>] \in {final[<<r, n>>], 0}
  <2>1. final' = final \/ \E names \in SUBSET TakenBack(w) : final' = Without(names)
    BY <1>2 DEF Finalize, FinalizeDirty, FinalizeRaises, CleanedUp
  <2>. QED BY <2>1 DEF Without
<1>3. ASSUME NEW w \in Workers,
             \/ Prepare(w) \/ Train(w) \/ Upload(w) \/ Clean(w) \/ Commit(w)
             \/ Retry(w) \/ Exhausted(w) \/ SettleMessage(w)
             \/ PrepareFails(w) \/ TrainFails(w) \/ UploadFails(w) \/ CleanFails(w) \/ CommitFails(w)
             \/ FinalizeUnkillable(w) \/ WorkerLost(w) \/ HostCrash(w) \/ HardTimeout(w)
      PROVE  final' = final
  BY <1>3 DEF Prepare, Train, Upload, Clean, Commit, Retry, Exhausted, SettleMessage,
    PrepareFails, TrainFails, UploadFails, CleanFails, CommitFails, FinalizeUnkillable,
    WorkerLost, HostCrash, HardTimeout, effects
<1>4. ASSUME \/ Publishing \/ \E m \in Messages : VisibilityTimeout(m)
             \/ \E a \in trainers : TrainerDies(a)
             \/ \E q \in Requesters : StartRead(q) \/ StartCommit(q) \/ StartAbort(q)
             \/ \E w \in Workers, m \in Messages : Deliver(w, m)
      PROVE  final' = final
  BY <1>4 DEF Publishing, PublishSend, PublishEnd, VisibilityTimeout, TrainerDies, StartRead,
    StartCommit, StartAbort, Deliver, effects
<1>. QED BY <1>1, <1>2, <1>3, <1>4 DEF Next, WorkerStep, Disturbance

LEMMA FinalSteps ==
  ASSUME IInv, FinalInv, Next
  PROVE  FinalInv'
<1>. USE DEF IInv, TypeOK
<1>. SUFFICES ASSUME NEW r \in Runs, NEW n \in Artifacts
              PROVE  /\ final'[<<r, n>>] <= generation'[r]
                     /\ \A w \in Workers :
                          pc'[w] \in Holding /\ run'[w] = r /\ mine'[w] = final'[<<r, n>>] =>
                            n \in copied'[w]
  BY DEF FinalInv
<1>1. /\ generation[r] \in Nat /\ generation'[r] \in Nat /\ generation'[r] >= generation[r]
      /\ final[<<r, n>>] \in Nat /\ final[<<r, n>>] <= generation[r]
  BY GenerationGrows, RowTypeSteps DEF RowTypeOK, EffectTypeOK, FinalInv
<1>2. final'[<<r, n>>] <= generation[r] /\ final'[<<r, n>>] \in Nat
  <2>1. ASSUME NEW w \in Workers, pc[w] = "copy", run[w] = r
        PROVE  mine[w] <= generation[r] /\ mine[w] \in Nat
    BY <2>1 DEF HolderInv, Holding, Trying, WorkerTypeOK
  <2>. QED BY <1>1, <2>1, FinalValues
<1>3. ASSUME NEW w \in Workers, pc'[w] \in Holding, run'[w] = r, mine'[w] = final'[<<r, n>>]
      PROVE  n \in copied'[w]
  <2>1. CASE \E m \in Messages : Takes(w, m)
    BY <1>1, <1>2, <1>3, <2>1 DEF Takes, WorkerTypeOK
  <2>2. CASE /\ pc[w] \in Holding /\ run'[w] = run[w] /\ mine'[w] = mine[w]
             /\ copied[w] \subseteq copied'[w]
    <3>1. mine[w] # 0
      BY <2>2 DEF WorkerTypeOK
    <3>2. CASE final'[<<r, n>>] = final[<<r, n>>]
      BY <1>3, <2>2, <3>2 DEF FinalInv
    <3>3. ASSUME NEW v \in Workers, pc[v] = "copy", run[v] = r, final'[<<r, n>>] = mine[v],
                 n \in copied'[v]
          PROVE  n \in copied'[w]
      <4>1. v = w
        BY <1>3, <2>2, <3>3, Distinct DEF Mine, Holding, Trying
      <4>. QED BY <3>3, <4>1
    <3>. QED BY <1>3, <2>2, <3>1, <3>2, <3>3, FinalValues
  <2>. QED BY <1>3, <2>1, <2>2, HoldingMoves
<1>. QED BY <1>1, <1>2, <1>3

\* Only the removal of its working copies leads an attempt to its commit.
LEMMA BecomesCommit ==
  ASSUME TypeOK, Next, NEW w \in Workers, pc'[w] = "commit"
  PROVE  Clean(w) \/ (pc[w] = "commit" /\ run'[w] = run[w] /\ mine'[w] = mine[w])
<1>. USE DEF TypeOK, WorkerTypeOK
<1>1. CASE pc[w] = "commit"
  <2>1. \A m \in Messages : ~Takes(w, m)
    BY DEF Takes
  <2>2. \A m \in Messages : ~Deliver(w, m)
    BY <1>1 DEF Deliver
  <2>. QED BY <1>1, <2>1, <2>2, HoldingMoves DEF Holding, Trying
<1>2. CASE pc[w] # "commit"
  <2>. QED BY <1>2, CopyMoves DEF Copying, Copy, NextCopy
<1>. QED BY <1>1, <1>2

LEMMA CleanSteps ==
  ASSUME IInv, CleanInv, Next
  PROVE  CleanInv'
<1>. USE DEF IInv, TypeOK
<1>. SUFFICES ASSUME NEW w \in Workers, pc'[w] = "commit"
              PROVE  working' \cap CopiesOf(Mine(w))' = {}
  BY DEF CleanInv
<1>1. CASE Clean(w)
  BY <1>1 DEF Clean, CopiesOf, Mine, Goto, memory
<1>2. CASE pc[w] = "commit" /\ run'[w] = run[w] /\ mine'[w] = mine[w]
  <2>1. working \cap CopiesOf(Mine(w)) = {} /\ CopiesOf(Mine(w))' = CopiesOf(Mine(w))
    BY <1>2 DEF CleanInv, CopiesOf, Mine
  <2>2. ASSUME NEW v \in Workers, pc[v] \in {"prepare", "upload"}
        PROVE  CopiesOf(Mine(v)) \cap CopiesOf(Mine(w)) = {}
    <3>1. Mine(v) # Mine(w)
      BY <1>2, <2>2, Distinct DEF Holding, Trying
    <3>. QED BY <3>1 DEF CopiesOf
  <2>. QED BY <2>1, <2>2, WorkingMoves
<1>. QED BY <1>1, <1>2, BecomesCommit

\* What is gone when a run is let go.
Gone(r) ==
  /\ <<r, generation[r]>> \notin trainers
  /\ working \cap CopiesOf(<<r, generation[r]>>) = {}
  /\ generation[r] # 0 /\ status[r] # "SUCCEEDED" =>
       \A n \in Artifacts : final[<<r, n>>] # generation[r]

SaysGone(r) ==
  token[r] = 0 /\ (status[r] \in {"RUNNING", "SUCCEEDED"} \/ code[r] = "TRAINING_FAILED")

LEMMA LetGoMeans ==
  /\ LetGoIsFinalized <=> \A r \in Runs : SaysGone(r) => Gone(r)
  /\ LetGoIsFinalized' <=> \A r \in Runs : SaysGone(r)' => Gone(r)'
BY DEF LetGoIsFinalized, SaysGone, Gone

\* A run that nobody owns stays as it was left: only owners make copies and trainers.
LEMMA GoneStays ==
  ASSUME IInv, Next, NEW r \in Runs, token[r] = 0, Gone(r),
         UNCHANGED <<status[r], generation[r]>>
  PROVE  Gone(r)'
<1>. USE DEF IInv, TypeOK
<1>1. \A w \in Workers : pc[w] \in Trying => run[w] # r
  BY DEF AttemptKeepsRun, Owns, WorkerTypeOK, Holding
<1>2. <<r, generation[r]>> \notin trainers'
  <2>1. \A w \in Workers : Prepare(w) => run[w] # r
    BY <1>1 DEF Prepare, Trying
  <2>. QED BY <2>1, TrainerMoves DEF Gone, Mine
<1>3. working' \cap CopiesOf(<<r, generation[r]>>) = {}
  <2>1. ASSUME NEW w \in Workers, pc[w] \in {"prepare", "upload"}
        PROVE  CopiesOf(Mine(w)) \cap CopiesOf(<<r, generation[r]>>) = {}
    BY <1>1, <2>1 DEF CopiesOf, Mine, Trying
  <2>. QED BY <2>1, WorkingMoves DEF Gone
<1>4. \A n \in Artifacts : final'[<<r, n>>] \in {final[<<r, n>>], 0}
  BY <1>1, FinalValues DEF Trying
<1>5. CopiesOf(<<r, generation[r]>>)' = CopiesOf(<<r, generation[r]>>)
  BY DEF CopiesOf
<1>. QED BY <1>2, <1>3, <1>4, <1>5 DEF Gone

\* The owner's own transactions leave it so, or say that they could not.
LEMMA EndIsGone ==
  ASSUME IInv, FinalizedInv, Next, NEW w \in Workers, Ends(w), pc[w] \in {"commit", "finalize"},
         Commit(w) \/ Finalize(w) \/ FinalizeDirty(w) \/ FinalizeUnkillable(w),
         NEW r \in Runs, run[w] = r, SaysGone(r)'
  PROVE  Gone(r)'
<1>. USE DEF IInv, TypeOK
<1>0. /\ mine[w] # 0 /\ mine[w] \in Nat /\ Owns(w) /\ generation[r] = mine[w]
      /\ Mine(w) = <<r, generation[r]>>
  BY BusyWorker DEF Ends, Owns, WorkerTypeOK, Holding, Trying, Mine
<1>1. UNCHANGED generation
  BY DEF Ends, FailRow, ReleaseRow, SucceedRow
<1>2. CopiesOf(<<r, generation[r]>>)' = CopiesOf(Mine(w)) /\ Gone(r)' =
        /\ Mine(w) \notin trainers'
        /\ working' \cap CopiesOf(Mine(w)) = {}
        /\ mine[w] # 0 /\ status'[r] # "SUCCEEDED" =>
             \A n \in Artifacts : final'[<<r, n>>] # mine[w]
  BY <1>0, <1>1 DEF Gone, CopiesOf
<1>3. CASE Commit(w)
  <2>1. status'[r] = "SUCCEEDED" /\ UNCHANGED <<trainers, working>> /\ pc[w] = "commit"
    BY <1>0, <1>3 DEF Commit, SucceedRow, effects, RowTypeOK
  <2>2. Mine(w) \notin trainers /\ working \cap CopiesOf(Mine(w)) = {}
    BY <2>1 DEF TrainerInv, Trained, FinalizedInv, CleanInv
  <2>. QED BY <1>2, <2>1, <2>2
<1>4. CASE Finalize(w)
  <2>1. Mine(w) \notin trainers' /\ working' \cap CopiesOf(Mine(w)) = {} /\ pc[w] = "finalize"
        /\ final' = Without({r} \X copied[w])
    BY <1>0, <1>4 DEF Finalize, CleanedUp, TakenBack
  <2>2. \A n \in Artifacts : final[<<r, n>>] = mine[w] => n \in copied[w]
    BY <1>0, <2>1 DEF FinalizedInv, FinalInv, Holding
  <2>3. \A n \in Artifacts : final'[<<r, n>>] # mine[w]
    BY <1>0, <2>1, <2>2 DEF Without, EffectTypeOK
  <2>. QED BY <1>2, <2>1, <2>3
<1>5. CASE FinalizeDirty(w) \/ FinalizeUnkillable(w)
  <2>1. FailRow(r, "TRAINING_CLEANUP_FAILED")
    BY <1>0, <1>5 DEF FinalizeDirty, FinalizeUnkillable
  <2>2. status'[r] = "FAILED" /\ code'[r] = "TRAINING_CLEANUP_FAILED"
    BY <1>0, <2>1 DEF FailRow, RowTypeOK
  <2>. QED BY <2>2 DEF SaysGone
<1>. QED BY <1>3, <1>4, <1>5

LEMMA LetGoSteps ==
  ASSUME IInv, FinalizedInv, Next
  PROVE  LetGoIsFinalized'
<1>. USE DEF IInv, TypeOK
<1>. SUFFICES ASSUME NEW r \in Runs, SaysGone(r)'
              PROVE  Gone(r)'
  BY LetGoMeans
<1>1. CASE UNCHANGED <<status[r], code[r], token[r], generation[r]>>
  <2>1. SaysGone(r) /\ token[r] = 0
    BY <1>1 DEF SaysGone
  <2>2. Gone(r)
    BY <2>1, LetGoMeans DEF FinalizedInv
  <2>. QED BY <1>1, <2>1, <2>2, GoneStays
<1>2. CASE UNCHANGED rowVars
  BY <1>1, <1>2 DEF rowVars
<1>3. ASSUME NEW s \in Runs, Starts(s)
      PROVE  Gone(r)'
  <2>1. CASE s = r
    BY <1>3, <2>1 DEF Starts, SaysGone, RowTypeOK
  <2>2. CASE s # r
    BY <1>1, <1>3, <2>2 DEF Starts, RowTypeOK
  <2>. QED BY <2>1, <2>2
<1>4. ASSUME NEW s \in Runs, Claims(s)
      PROVE  Gone(r)'
  <2>1. CASE s = r
    BY <1>4, <2>1 DEF Claims, ClaimRow, SaysGone, RowTypeOK
  <2>2. CASE s # r
    BY <1>1, <1>4, <2>2 DEF Claims, ClaimRow, RowTypeOK
  <2>. QED BY <2>1, <2>2
<1>5. ASSUME NEW w \in Workers, Ends(w), pc[w] \in {"commit", "finalize"},
             Commit(w) \/ Finalize(w) \/ FinalizeDirty(w) \/ FinalizeUnkillable(w)
      PROVE  Gone(r)'
  <2>1. CASE run[w] = r
    BY <1>5, <2>1, EndIsGone
  <2>2. CASE run[w] # r
    BY <1>1, <1>5, <2>2 DEF Ends, FailRow, ReleaseRow, SucceedRow, LetGo, RowTypeOK
  <2>. QED BY <2>1, <2>2
<1>. QED BY <1>2, <1>3, <1>4, <1>5, RowSteps

-----------------------------------------------------------------------------
(* Nothing stranded *)

CarriedOrDropped(r) == status[r] \in Active => dropped[r] # "no" \/ Carried(r)

\* A run goes on being carried while its row, its event or message, and its workers stay.
LEMMA CarriedStays ==
  ASSUME NEW r \in Runs, CarriedOrDropped(r),
         UNCHANGED <<status[r], token[r], generation[r], dropped[r]>>,
         Unsent(r) \/ Queued(r) => Unsent(r)' \/ Queued(r)',
         \A w \in Workers : run[w] = r =>
           /\ run'[w] = r /\ mine'[w] = mine[w]
           /\ pc[w] \in Holding => pc'[w] \in Holding
           /\ pc[w] = "retry" => pc'[w] = "retry"
  PROVE  CarriedOrDropped(r)'
BY DEF CarriedOrDropped, Carried, Held, Waiting, Owns

LEMMA QueuesStay ==
  ASSUME NEW r \in Runs, UNCHANGED queueVars
  PROVE  Unsent(r) \/ Queued(r) => Unsent(r)' \/ Queued(r)'
BY DEF Unsent, Queued, queueVars

\* A message that is sent, lost with its worker or made visible again is one for its run.
LEMMA PutQueued ==
  ASSUME QueueTypeOK, NEW m \in Messages, NEW r \in Runs, UNCHANGED <<event, sending>>,
         \/ ready' = Put(ready, m) /\ UNCHANGED limbo
         \/ limbo' = Put(limbo, m) /\ UNCHANGED ready
         \/ limbo' = Take(limbo, m) /\ ready' = Put(ready, m) /\ limbo[m] > 0
  PROVE  /\ Unsent(r) \/ Queued(r) => Unsent(r)' \/ Queued(r)'
         /\ m[1] = r => Queued(r)'
<1>. ready \in [Messages -> Nat] /\ limbo \in [Messages -> Nat]
  BY DEF QueueTypeOK
<1>1. \A n \in Messages : ready'[n] + limbo'[n] >= ready[n] + limbo[n]
  BY DEF Put, Take
<1>2. ready'[m] + limbo'[m] > 0
  BY DEF Put, Take
<1>3. \A n \in Messages : ready[n] + limbo[n] > 0 => ready'[n] + limbo'[n] > 0
  <2>1. \A n \in Messages : /\ ready[n] \in Nat /\ limbo[n] \in Nat
                            /\ ready'[n] \in Nat /\ limbo'[n] \in Nat
    BY DEF Put, Take
  <2>. QED BY <1>1, <2>1
<1>. QED BY <1>2, <1>3 DEF Unsent, Queued

\* What one worker does with its own run does not concern the others.
LEMMA ElsewhereStays ==
  ASSUME TypeOK, NEW r \in Runs, CarriedOrDropped(r), NEW w \in Workers, run[w] # r,
         UNCHANGED <<status[r], token[r], generation[r], dropped[r]>>,
         Unsent(r) \/ Queued(r) => Unsent(r)' \/ Queued(r)',
         \A v \in Workers \ {w} : pc'[v] = pc[v] /\ run'[v] = run[v] /\ mine'[v] = mine[v]
  PROVE  CarriedOrDropped(r)'
BY CarriedStays

LEMMA StrandDrops ==
  ASSUME EffectTypeOK, NEW r \in Runs, NEW why \in {"exhausted", "fault"}, Strand(r, why),
         UNCHANGED status
  PROVE  /\ CarriedOrDropped(r)' /\ \A s \in Runs \ {r} : dropped'[s] = dropped[s]
BY DEF Strand, CarriedOrDropped, EffectTypeOK

LEMMA StartCarries ==
  ASSUME IInv, NEW r \in Runs, CarriedOrDropped(r), NEW q \in Requesters,
         StartRead(q) \/ StartCommit(q) \/ StartAbort(q)
  PROVE  CarriedOrDropped(r)'
<1>. USE DEF IInv, TypeOK
<1>1. CASE StartRead(q) \/ StartAbort(q)
  BY <1>1, CarriedStays, QueuesStay
     DEF StartRead, StartAbort, rowVars, workerVars, memory, history
<1>2. CASE StartCommit(q)
  <2>1. CASE wanted[q] = r
    <3>1. token'[r] = 0
      BY <1>2, <2>1 DEF StartCommit, StartInv, RowTypeOK
    <3>2. Unsent(r)'
      BY <1>2, <2>1 DEF StartCommit, Unsent, Announced, QueueTypeOK
    <3>. QED BY <3>1, <3>2 DEF CarriedOrDropped, Carried
  <2>2. CASE wanted[q] # r
    <3>1. UNCHANGED <<status[r], token[r], generation[r], dropped[r]>>
          /\ UNCHANGED <<pc, run, mine>>
      BY <1>2, <2>2 DEF StartCommit, workerVars, memory, RowTypeOK, EffectTypeOK
    <3>2. Unsent(r) \/ Queued(r) => Unsent(r)' \/ Queued(r)'
      BY <1>2, <2>2 DEF StartCommit, Unsent, Queued, QueueTypeOK
    <3>. QED BY <3>1, <3>2, CarriedStays
  <2>. QED BY <2>1, <2>2
<1>. QED BY <1>1, <1>2

LEMMA PublishCarries ==
  ASSUME IInv, NEW r \in Runs, CarriedOrDropped(r), NEW p \in Publishers,
         PublishSend(p) \/ PublishEnd(p)
  PROVE  CarriedOrDropped(r)'
<1>. USE DEF IInv, TypeOK
<1>0. /\ UNCHANGED <<status[r], token[r], generation[r], dropped[r]>>
      /\ UNCHANGED <<pc, run, mine>>
  BY DEF PublishSend, PublishEnd, rowVars, workerVars, memory, history
<1>1. CASE PublishSend(p)
  <2>1. PICK s \in Runs : /\ sending' = [sending EXCEPT ![p] = s]
                          /\ ready' = Put(ready, <<s, 0>>)
    BY <1>1 DEF PublishSend
  <2>2. <<s, 0>> \in Messages /\ UNCHANGED <<event, limbo>>
    BY <1>1 DEF PublishSend
  <2>3. ready \in [Messages -> Nat] /\ limbo \in [Messages -> Nat]
    BY DEF QueueTypeOK
  <2>4. Queued(r) => Queued(r)'
    BY <2>1, <2>2, <2>3 DEF Queued, Put
  <2>5. s = r => Queued(r)'
    <3>1. ready'[<<s, 0>>] + limbo'[<<s, 0>>] > 0
      BY <2>1, <2>2, <2>3 DEF Put
    <3>. QED BY <2>2, <3>1 DEF Queued
  <2>6. s # r /\ Unsent(r) => Unsent(r)'
    BY <2>1, <2>2 DEF Unsent, QueueTypeOK
  <2>. QED BY <1>0, <2>4, <2>5, <2>6, CarriedStays
<1>2. CASE PublishEnd(p)
  <2>1. Queued(r) => Queued(r)'
    BY <1>2 DEF PublishEnd, Queued
  <2>2. Unsent(r) => Unsent(r)'
    BY <1>2 DEF PublishEnd, Unsent, QueueTypeOK
  <2>. QED BY <1>0, <2>1, <2>2, CarriedStays
<1>. QED BY <1>1, <1>2

\* A delivery that claims holds its run; one that does not leaves it to its holder.
LEMMA DeliverCarries ==
  ASSUME IInv, NEW r \in Runs, CarriedOrDropped(r),
         NEW w \in Workers, NEW m \in Messages, Deliver(w, m)
  PROVE  CarriedOrDropped(r)'
<1>. USE DEF IInv, TypeOK
<1>0. /\ m[1] \in Runs /\ pc[w] = "idle" /\ run[w] = NoRun /\ run'[w] = m[1]
      /\ UNCHANGED <<event, sending, limbo>> /\ ready' = Take(ready, m)
      /\ \A v \in Workers \ {w} : pc'[v] = pc[v] /\ run'[v] = run[v] /\ mine'[v] = mine[v]
  BY DEF Deliver, Claim, ClaimRaises, WorkerTypeOK
<1>1. CASE m[1] # r
  <2>1. Unsent(r) \/ Queued(r) => Unsent(r)' \/ Queued(r)'
    BY <1>0, <1>1 DEF Unsent, Queued, Take, QueueTypeOK
  <2>2. UNCHANGED <<status[r], token[r], generation[r], dropped[r]>>
    BY <1>1 DEF Deliver, Claim, ClaimRaises, ClaimRow, Strand, rowVars, RowTypeOK, EffectTypeOK
  <2>. QED BY <1>0, <2>1, <2>2, ElsewhereStays
<1>2. CASE m[1] = r /\ ClaimRaises(w, r)
  <2>1. CASE UNCHANGED rowVars
    BY <1>2, <2>1, StrandDrops DEF ClaimRaises, rowVars
  <2>2. CASE Claimable(r)
    BY <1>2, <2>2 DEF ClaimRaises, Strand, Claimable, CarriedOrDropped, EffectTypeOK
  <2>. QED BY <1>2, <2>1, <2>2 DEF ClaimRaises
<1>3. CASE m[1] = r /\ Claim(w, r) /\ Claimable(r)
  <2>1. Takes(w, m)
    BY <1>3 DEF Deliver, Claim, Takes, Claims
  <2>2. /\ pc'[w] = "prepare" /\ run'[w] = r /\ mine'[w] = generation[r] + 1
        /\ status'[r] = "RUNNING" /\ token'[r] = generation[r] + 1
        /\ generation'[r] = generation[r] + 1
    BY <1>0, <1>3, <2>1 DEF Takes, Claims, ClaimRow, RowTypeOK, WorkerTypeOK
  <2>. QED BY <2>2 DEF CarriedOrDropped, Carried, Held, Owns, Holding, Trying
<1>4. CASE m[1] = r /\ Claim(w, r) /\ ~Claimable(r)
  <2>1. UNCHANGED <<rowVars, dropped>>
    BY <1>4 DEF Claim
  <2>2. status[r] \in Active => dropped[r] # "no" \/ Held(r)
    BY <1>4 DEF CarriedOrDropped, Carried, Claimable
  <2>3. Held(r) => Held(r)'
    BY <1>0, <2>1 DEF Held, Owns, rowVars, Holding, Trying
  <2>. QED BY <2>1, <2>2, <2>3 DEF CarriedOrDropped, Carried, rowVars
<1>. QED BY <1>1, <1>2, <1>3, <1>4 DEF Deliver, Claim

LEMMA AttemptCarries ==
  ASSUME IInv, NEW r \in Runs, CarriedOrDropped(r), NEW w \in Workers,
         \/ Prepare(w) \/ Train(w) \/ Upload(w) \/ Copy(w) \/ Clean(w) \/ CleanFails(w)
         \/ PrepareFails(w) \/ TrainFails(w) \/ UploadFails(w) \/ CopyFails(w) \/ CommitFails(w)
  PROVE  CarriedOrDropped(r)'
<1>. USE DEF IInv, TypeOK
<1>1. UNCHANGED <<rowVars, queueVars, dropped, run, mine>>
  BY DEF Prepare, Train, Upload, Copy, Clean, CleanFails, PrepareFails, TrainFails, UploadFails,
    CopyFails, CommitFails, Fails, FailsOrLost, Raises, Goto, memory, history
<1>2. \A v \in Workers : /\ pc[v] \in Holding => pc'[v] \in Holding
                         /\ pc[v] = "retry" => pc'[v] = "retry"
  BY DEF Prepare, Train, Upload, Copy, Clean, CleanFails, PrepareFails, TrainFails, UploadFails,
    CopyFails, CommitFails, Fails, FailsOrLost, Raises, Goto, Holding, Trying, WorkerTypeOK
<1>. QED BY <1>1, <1>2, CarriedStays, QueuesStay DEF rowVars

\* An end of the attempt by its owner, and by another, whose run is carried by its owner or,
\* if it was let go, by what it was left to.
LEMMA EndCarries ==
  ASSUME IInv, NEW r \in Runs, CarriedOrDropped(r), NEW w \in Workers,
         Commit(w) \/ Finalize(w) \/ FinalizeDirty(w) \/ FinalizeUnkillable(w)
  PROVE  CarriedOrDropped(r)'
<1>. USE DEF IInv, TypeOK
<1>0. /\ pc[w] \in {"commit", "finalize"} /\ run[w] \in Runs /\ UNCHANGED <<queueVars, dropped, run>>
      /\ \A v \in Workers \ {w} : pc'[v] = pc[v] /\ run'[v] = run[v] /\ mine'[v] = mine[v]
  <2>1. pc[w] \in {"commit", "finalize"} /\ UNCHANGED <<queueVars, dropped>>
        /\ (Goto(w, "finalize") \/ \E p \in {"retry", "done"} : Settle(w, p))
    BY DEF Commit, Finalize, FinalizeDirty, FinalizeUnkillable, history
  <2>2. run[w] \in Runs
    BY <2>1, BusyWorker
  <2>3. UNCHANGED run
        /\ \A v \in Workers \ {w} : pc'[v] = pc[v] /\ mine'[v] = mine[v]
    BY <2>1 DEF Goto, Settle, ForgetAttempt, memory, WorkerTypeOK
  <2>. QED BY <2>1, <2>2, <2>3
<1>1. CASE UNCHANGED rowVars /\ ~Owns(w)
  <2>1. Held(r) => Held(r)'
    BY <1>0, <1>1 DEF Held, Owns, rowVars
  <2>2. Waiting(r) => Waiting(r)'
    BY <1>0 DEF Waiting
  <2>. QED BY <1>0, <1>1, <2>1, <2>2, QueuesStay DEF CarriedOrDropped, Carried, rowVars
<1>2. CASE Owns(w) /\ run[w] = r
  <2>1. CASE \/ \E c \in {"TRAINING_FAILED", "TRAINING_CLEANUP_FAILED"} : FailRow(r, c)
             \/ SucceedRow(r, mine[w])
    BY <2>1 DEF FailRow, SucceedRow, CarriedOrDropped, Active, RowTypeOK
  <2>2. CASE ReleaseRow(r) /\ Finalize(w) /\ ~permanent[w]
    <3>1. token'[r] = 0 /\ pc'[w] = "retry" /\ run'[w] = r
      BY <1>0, <1>2, <2>2 DEF ReleaseRow, LetGo, Finalize, Settle, RowTypeOK, WorkerTypeOK
    <3>. QED BY <3>1 DEF CarriedOrDropped, Carried, Waiting
  <2>. QED BY <1>2, <2>1, <2>2 DEF Commit, Finalize, FinalizeDirty, FinalizeUnkillable, Verdict
<1>3. CASE Owns(w) /\ run[w] # r
  <2>1. Ends(w)
    BY <1>3 DEF Commit, Finalize, FinalizeDirty, FinalizeUnkillable, Verdict, Ends
  <2>2. UNCHANGED <<status[r], token[r], generation[r]>>
    BY <1>3, <2>1 DEF Ends, FailRow, ReleaseRow, SucceedRow, LetGo, RowTypeOK
  <2>. QED BY <1>0, <1>3, <2>2, ElsewhereStays, QueuesStay
<1>. QED
  BY <1>1, <1>2, <1>3 DEF Commit, Finalize, FinalizeDirty, FinalizeUnkillable, Verdict

\* A worker whose step leaves its run without a mark of its own did not carry it.
LEMMA LeaveCarries ==
  ASSUME IInv, NEW r \in Runs, CarriedOrDropped(r), NEW w \in Workers,
         UNCHANGED <<rowVars, dropped>>,
         run[w] = r => ~(pc[w] \in Holding /\ Owns(w)) /\ (pc[w] = "retry" => Queued(r)'),
         Unsent(r) \/ Queued(r) => Unsent(r)' \/ Queued(r)',
         \A v \in Workers \ {w} : pc'[v] = pc[v] /\ run'[v] = run[v] /\ mine'[v] = mine[v]
  PROVE  CarriedOrDropped(r)'
<1>1. Held(r) => Held(r)'
  BY DEF Held, Owns, rowVars
<1>2. Waiting(r) => Waiting(r)' \/ Queued(r)'
  BY DEF Waiting
<1>. QED BY <1>1, <1>2 DEF CarriedOrDropped, Carried, rowVars

LEMMA LostCarries ==
  ASSUME IInv, NEW r \in Runs, CarriedOrDropped(r), NEW w \in Workers,
         \/ FinalizeRaises(w) \/ Retry(w) \/ Exhausted(w) \/ SettleMessage(w)
         \/ WorkerLost(w) \/ HostCrash(w) \/ HardTimeout(w)
  PROVE  CarriedOrDropped(r)'
<1>. USE DEF IInv, TypeOK
<1>0. /\ run[w] \in Runs /\ UNCHANGED rowVars /\ Message(w) \in Messages
      /\ \A v \in Workers \ {w} : pc'[v] = pc[v] /\ run'[v] = run[v] /\ mine'[v] = mine[v]
  <2>1. pc[w] # "idle" /\ UNCHANGED rowVars
        /\ (Idle(w) \/ \E p \in {"retry", "done"} : Settle(w, p))
    BY DEF FinalizeRaises, Retry, Exhausted, SettleMessage, WorkerLost, HostCrash, HardTimeout,
      Holding, Trying
  <2>2. run[w] \in Runs /\ Message(w) \in Messages
    BY <2>1, BusyWorker
  <2>3. \A v \in Workers \ {w} : pc'[v] = pc[v] /\ run'[v] = run[v] /\ mine'[v] = mine[v]
    BY <2>1 DEF Idle, Settle, ForgetAttempt, WorkerTypeOK
  <2>. QED BY <2>1, <2>2, <2>3
<1>1. Unsent(r) \/ Queued(r) => Unsent(r)' \/ Queued(r)'
  <2>1. CASE UNCHANGED queueVars
    BY <2>1, QueuesStay
  <2>2. CASE Retry(w)
    <3>1. CASE ready' = Put(ready, <<run[w], retries[w] + 1>>)
      <4>1. <<run[w], retries[w] + 1>> \in Messages
        BY <1>0, <2>2 DEF Retry, WorkerTypeOK
      <4>. QED BY <2>2, <3>1, <4>1, PutQueued DEF Retry
    <3>2. CASE UNCHANGED ready
      BY <2>1, <2>2, <3>2 DEF Retry, queueVars
    <3>. QED BY <2>2, <3>1, <3>2 DEF Retry
  <2>3. CASE WorkerLost(w)
    BY <1>0, <2>3, PutQueued DEF WorkerLost
  <2>4. CASE HostCrash(w)
    BY <1>0, <2>4, PutQueued DEF HostCrash
  <2>. QED BY <2>1, <2>2, <2>3, <2>4 DEF FinalizeRaises, Exhausted, SettleMessage, HardTimeout
<1>2. ASSUME NEW why \in {"exhausted", "fault"}, Strand(run[w], why)
      PROVE  CarriedOrDropped(r)'
  <2>0. UNCHANGED status
    BY <1>0 DEF rowVars
  <2>1. CASE r = run[w]
    BY <1>2, <2>0, <2>1, StrandDrops
  <2>2. CASE r # run[w]
    <3>1. dropped'[r] = dropped[r]
      BY <1>0, <1>2, <2>0, <2>2, StrandDrops
    <3>. QED BY <1>0, <1>1, <2>2, <3>1, ElsewhereStays DEF rowVars
  <2>. QED BY <2>1, <2>2
<1>3. CASE ~\E why \in {"exhausted", "fault"} : Strand(run[w], why)
  <2>1. UNCHANGED dropped
    BY <1>3 DEF FinalizeRaises, Retry, Exhausted, SettleMessage, WorkerLost, HostCrash,
      HardTimeout, StrandIfOwned, history
  <2>2. ~(pc[w] \in Holding /\ Owns(w))
    BY <1>3 DEF FinalizeRaises, Retry, Exhausted, SettleMessage, WorkerLost, HostCrash,
      HardTimeout, StrandIfOwned, Holding, Trying
  <2>3. ASSUME run[w] = r, pc[w] = "retry"
        PROVE  Queued(r)'
    <3>1. CASE Retry(w)
      <4>1. ready' = Put(ready, <<run[w], retries[w] + 1>>)
        BY <1>3, <3>1 DEF Retry
      <4>2. <<run[w], retries[w] + 1>> \in Messages
        BY <1>0, <3>1 DEF Retry, WorkerTypeOK
      <4>. QED BY <2>3, <3>1, <4>1, <4>2, PutQueued DEF Retry
    <3>2. CASE WorkerLost(w)
      BY <1>0, <2>3, <3>2, PutQueued DEF WorkerLost, Message
    <3>3. CASE HostCrash(w)
      BY <1>0, <2>3, <3>3, PutQueued DEF HostCrash, Message
    <3>. QED BY <1>3, <2>3, <3>1, <3>2, <3>3 DEF FinalizeRaises, Exhausted, SettleMessage, HardTimeout
  <2>. QED BY <1>0, <1>1, <2>1, <2>2, <2>3, LeaveCarries
<1>. QED BY <1>2, <1>3

LEMMA CarrySteps ==
  ASSUME IInv, CarryInv, [Next]_trainingVars
  PROVE  CarryInv'
<1>. USE DEF IInv, TypeOK
<1>. SUFFICES ASSUME NEW r \in Runs
              PROVE  CarriedOrDropped(r)'
  BY DEF CarryInv, CarriedOrDropped
<1>0. CarriedOrDropped(r)
  BY DEF CarryInv, CarriedOrDropped
<1>1. ASSUME NEW m \in Messages, VisibilityTimeout(m)
      PROVE  CarriedOrDropped(r)'
  <2>1. Unsent(r) \/ Queued(r) => Unsent(r)' \/ Queued(r)'
    BY <1>1, PutQueued DEF VisibilityTimeout
  <2>. QED BY <1>0, <1>1, <2>1, CarriedStays
           DEF VisibilityTimeout, rowVars, workerVars, memory, history
<1>2. CASE UNCHANGED trainingVars \/ \E a \in trainers : TrainerDies(a)
  BY <1>0, <1>2, CarriedStays, QueuesStay
     DEF TrainerDies, trainingVars, rowVars, workerVars, memory, history
<1>. QED
  BY <1>0, <1>1, <1>2, StartCarries, PublishCarries, DeliverCarries, AttemptCarries, EndCarries,
     LostCarries
  DEF Next, Publishing, WorkerStep, Disturbance

-----------------------------------------------------------------------------
(* The theorems *)

LEMMA InitInv ==
  ASSUME Init
  PROVE  IInv
<1>1. RowTypeOK
  BY DEF Init, RowTypeOK, Status
<1>2. QueueTypeOK
  BY DEF Init, QueueTypeOK
<1>3. WorkerTypeOK
  BY DEF Init, WorkerTypeOK, WorkerPC, Holding, Trying
<1>4. EffectTypeOK
  BY DEF Init, EffectTypeOK
<1>5. OneActive /\ StartInv
  BY DEF Init, OneActive, StartInv, Active
<1>6. HolderInv /\ AttemptKeepsRun /\ TrainerInv /\ CopyInv
  BY DEF Init, HolderInv, AttemptKeepsRun, TrainerInv, CopyInv, Holding, Trying, Trained, Copying
<1>7. TrainerKeepsWorkspace /\ ModelIsServed
  BY DEF Init, TrainerKeepsWorkspace, ModelIsServed
<1>. QED BY <1>1, <1>2, <1>3, <1>4, <1>5, <1>6, <1>7 DEF IInv, TypeOK

LEMMA StutterInv ==
  ASSUME IInv, UNCHANGED trainingVars
  PROVE  IInv'
<1>. USE DEF IInv, TypeOK, trainingVars, rowVars, queueVars, requestVars, workerVars, memory,
       effects, history
<1>1. RowTypeOK' /\ QueueTypeOK' /\ WorkerTypeOK'
  BY DEF RowTypeOK, QueueTypeOK, WorkerTypeOK
<1>2. EffectTypeOK' /\ OneActive' /\ StartInv'
  BY DEF EffectTypeOK, OneActive, StartInv
<1>3. HolderInv' /\ AttemptKeepsRun' /\ TrainerInv'
  BY DEF HolderInv, AttemptKeepsRun, TrainerInv, Owns, Mine
<1>4. CopyInv' /\ TrainerKeepsWorkspace' /\ ModelIsServed'
  BY DEF CopyInv, TrainerKeepsWorkspace, ModelIsServed
<1>. QED BY <1>1, <1>2, <1>3, <1>4

LEMMA StepInv ==
  ASSUME IInv, Next
  PROVE  IInv'
<1>1. TypeOK'
  BY RowTypeSteps, QueueSteps, WorkerSteps, EffectSteps DEF IInv, TypeOK
<1>2. TrainerInv'
  BY TrainerOwnsSteps, TrainedSteps DEF TrainerInv
<1>. QED
  BY <1>1, <1>2, OneActiveSteps, StartSteps, HolderSteps, CopySteps, WorkspaceSteps, ServedSteps
  DEF IInv

\* The inductive invariant holds throughout, whatever starts, faults and crashes come.
THEOREM SpecIInv == Spec => []IInv
<1>1. Init => IInv
  BY InitInv
<1>2. IInv /\ [Next]_trainingVars => IInv'
  BY StepInv, StutterInv
<1>. QED BY <1>1, <1>2, PTL DEF Spec

\* Every row, message, worker and artifact keeps to its type; in particular only a RUNNING
\* row has a token, and exactly the succeeded runs have a version and a model.
THEOREM SpecTypeOK == Spec => []TypeOK
<1>1. IInv => TypeOK
  BY DEF IInv
<1>. QED BY <1>1, SpecIInv, PTL

\* An attempt owns its run until it has finalized it: no message, start or other attempt
\* takes it away.
THEOREM SpecAttemptKeepsRun == Spec => []AttemptKeepsRun
<1>1. IInv => AttemptKeepsRun
  BY DEF IInv
<1>. QED BY <1>1, SpecIInv, PTL

\* At most one trainer works for a project, but for those that survived their termination:
\* its attempt owns an active run, and the project has one.
THEOREM SpecOneTrainer == Spec => []OneTrainer
<1>1. ASSUME IInv
      PROVE  OneTrainer
  <2>1. ASSUME NEW a \in trainers \ survivors
        PROVE  /\ a[1] \in Runs /\ a = <<a[1], a[2]>> /\ a[2] = token[a[1]]
               /\ status[a[1]] \in Active
    BY <1>1, <2>1 DEF IInv, TypeOK, EffectTypeOK, RowTypeOK, TrainerInv, Active
  <2>. QED BY <1>1, <2>1 DEF IInv, OneActive, OneTrainer
<1>. QED BY <1>1, SpecIInv, PTL

\* No finalization removes the workspace or the snapshot under a trainer that is alive.
THEOREM SpecTrainerKeepsWorkspace == Spec => []TrainerKeepsWorkspace
<1>1. IInv => TrainerKeepsWorkspace
  BY DEF IInv
<1>. QED BY <1>1, SpecIInv, PTL

\* A succeeded run keeps both artifacts of the attempt its row names.
THEOREM SpecModelIsServed == Spec => []ModelIsServed
<1>1. IInv => ModelIsServed
  BY DEF IInv
<1>. QED BY <1>1, SpecIInv, PTL

\* Versions of models only grow over a project, and a model once available does not change.
THEOREM SpecNewerModels == Spec => NewerModels
<1>. DEFINE Newer ==
       \A r \in Runs : status[r] = "SUCCEEDED" =>
         /\ status'[r] = status[r] /\ version'[r] = version[r] /\ artifact'[r] = artifact[r]
         /\ \A q \in Runs : version[q] = 0 /\ version'[q] # 0 => version'[q] > version[r]
<1>1. ASSUME IInv, Next
      PROVE  Newer
  <2>. USE DEF IInv, TypeOK
  <2>1. SUFFICES ASSUME NEW r \in Runs, status[r] = "SUCCEEDED"
                 PROVE  /\ status'[r] = status[r] /\ version'[r] = version[r]
                        /\ artifact'[r] = artifact[r]
                        /\ \A q \in Runs : version[q] = 0 /\ version'[q] # 0 =>
                                             version'[q] > version[r]
    OBVIOUS
  <2>2. ASSUME NEW q \in Runs, version[q] = 0, version'[q] # 0
        PROVE  version'[q] > version[r]
    <3>1. status'[q] = "SUCCEEDED"
      BY <1>1, <2>2, RowTypeSteps DEF RowTypeOK
    <3>2. PICK w \in Workers : SucceedRow(q, mine[w])
      BY <1>1, <2>2, <3>1, Succeeds
    <3>3. PICK v \in {version[s] : s \in Runs} : LastVersion(v) /\ version'[q] = v + 1
      BY <1>1, <3>2 DEF SucceedRow, RowTypeOK
    <3>. QED BY <1>1, <3>3 DEF LastVersion, RowTypeOK
  <2>3. status'[r] = status[r] /\ version'[r] = version[r] /\ artifact'[r] = artifact[r]
    <3>1. CASE UNCHANGED rowVars
      BY <3>1 DEF rowVars
    <3>2. ASSUME NEW s \in Runs, Starts(s) \/ Claims(s)
          PROVE  status'[r] = status[r] /\ version'[r] = version[r] /\ artifact'[r] = artifact[r]
      BY <1>1, <2>1, <3>2 DEF Starts, Claims, Claimable, ClaimRow, RowTypeOK, Active
    <3>3. ASSUME NEW w \in Workers, Ends(w)
          PROVE  status'[r] = status[r] /\ version'[r] = version[r] /\ artifact'[r] = artifact[r]
      BY <1>1, <2>1, <3>3 DEF Ends, Owns, FailRow, ReleaseRow, SucceedRow, RowTypeOK
    <3>. QED BY <1>1, <3>1, <3>2, <3>3, RowSteps
  <2>. QED BY <2>2, <2>3
<1>2. IInv /\ [Next]_trainingVars => [Newer]_trainingVars
  BY <1>1
<1>. QED BY <1>2, SpecIInv, PTL DEF Spec, NewerModels

\* When a run is let go, the attempt's trainer, working copies and final artifacts are gone,
\* or the row says that they are not (_finalize_failed_attempt() and the publication).
THEOREM SpecLetGoIsFinalized == Spec => []LetGoIsFinalized
<1>1. Init => FinalizedInv
  <2>. SUFFICES ASSUME Init
                PROVE  FinalizedInv
    OBVIOUS
  <2>1. FinalInv /\ CleanInv
    BY DEF Init, FinalInv, CleanInv, Holding, Trying
  <2>2. LetGoIsFinalized
    BY DEF Init, LetGoIsFinalized
  <2>. QED BY <2>1, <2>2 DEF FinalizedInv
<1>2. IInv /\ FinalizedInv /\ [Next]_trainingVars => FinalizedInv'
  <2>1. CASE IInv /\ FinalizedInv /\ Next
    BY <2>1, FinalSteps, CleanSteps, LetGoSteps DEF FinalizedInv
  <2>2. ASSUME FinalizedInv, UNCHANGED trainingVars
        PROVE  FinalizedInv'
    <3>1. FinalInv' /\ CleanInv'
      BY <2>2 DEF FinalizedInv, FinalInv, CleanInv, CopiesOf, Mine, trainingVars, rowVars,
        workerVars, memory, effects
    <3>2. LetGoIsFinalized'
      BY <2>2 DEF FinalizedInv, LetGoIsFinalized, CopiesOf, trainingVars, rowVars, effects
    <3>. QED BY <3>1, <3>2 DEF FinalizedInv
  <2>. QED BY <2>1, <2>2
<1>3. FinalizedInv => LetGoIsFinalized
  BY DEF FinalizedInv
<1>. QED BY <1>1, <1>2, <1>3, SpecIInv, PTL DEF Spec

\* An active run has its owner, or an event, a message or a retry that will claim it, unless
\* the model has noted the fault or the last retry that left it.
THEOREM SpecNoRunStranded == Spec => []NoRunStranded
<1>1. Init => CarryInv
  BY DEF Init, CarryInv, Active
<1>2. IInv /\ CarryInv /\ [Next]_trainingVars => CarryInv'
  BY CarrySteps
<1>3. CarryInv => NoRunStranded
  BY DEF CarryInv, Carried, Held, Unsent, Queued, Waiting, NoRunStranded, Tended
<1>. QED BY <1>1, <1>2, <1>3, SpecIInv, PTL DEF Spec

=============================================================================
