---------------------- MODULE AnnotationInferenceProofs ----------------------
(* Theorems of AnnotationInference, for every value of its constants. *)
EXTENDS AnnotationInference, AnnotationTablesProofs

USE LabellingAssumption DEF Runs, Messages, NoGeneration, Undone

-----------------------------------------------------------------------------
(* The inductive invariant *)

\* What is announced, queued or taken is a run that was started.
StartedInv ==
  /\ \A r \in Runs : event[r] # "none" => status[r] # "none"
  /\ \A m \in Messages : ready[m] > 0 => status[m[1]] # "none"
  /\ \A w \in Workers : wpc[w] # "idle" => status[run[w]] # "none"

\* A worker that will end its run or hand it on: an attempt that is not superseded, or
\* one without a generation of its own.
Queued(r) == \E m \in Messages : m[1] = r /\ ready[m] > 0
Announced(r) == status[r] = "PENDING" /\ event[r] = "pending"
Tends(w) ==
  \/ wpc[w] \in Working \cup {"retry", "fail"} /\ FailsOwn(w)
  \/ wpc[w] \in {"retry", "fail"} /\ mine[w] \in {NoGeneration, Undone}

\* The event counts only until the run has begun: later it is marked without a message.
TendedInv ==
  \A r \in Runs : status[r] \in Active =>
    \/ r \in dropped \/ Announced(r) \/ Queued(r)
    \/ \E w \in Workers : run[w] = r /\ Tends(w)

IInv ==
  /\ TableInv /\ LabellingTypeOK /\ OneWriterPerImage /\ StartedInv /\ TendedInv

-----------------------------------------------------------------------------
(* The tables *)

\* People, the brand and the labelling write the tables, each through its commit.
LEMMA Writers ==
  ASSUME LabellingTypeOK, Next
  PROVE  \/ UNCHANGED tableVars
         \/ \E i \in DOMAIN images, cs \in SUBSET Present, done \in BOOLEAN :
              WithinLimit(i, Cardinality(cs)) /\ CommitSave(i, cs, done) /\ UNCHANGED labellingVars
         \/ \E c \in Present : CommitDelete(c) /\ UNCHANGED labellingVars
         \/ \E missing \in SUBSET (Sources \ Range(images)) :
              CommitAttach(missing, NextYolo) /\ UNCHANGED labellingVars
         \/ \E w \in Workers :
              /\ Write(w) /\ Fills(w) /\ run[w] \in Runs
              /\ CommitPredictions(Target(w), run[w])
<1>1. CASE Edit
  BY <1>1 DEF Edit
<1>2. ASSUME NEW w \in Workers, Write(w)
      PROVE  UNCHANGED tableVars \/ (Fills(w) /\ run[w] \in Runs /\ CommitPredictions(Target(w), run[w]))
  BY <1>2 DEF Write, LabellingTypeOK, WorkerTypeOK, Working
<1>3. ASSUME Start \/ Publish
             \/ \E w \in Workers, m \in Messages : Deliver(w, m) \/ DeliverFails(w, m)
      PROVE  UNCHANGED tableVars
  BY <1>3 DEF Start, Publish, Deliver, DeliverFails
<1>4. ASSUME NEW w \in Workers,
             \/ Progress(w) \/ Finish(w) \/ Retry(w) \/ Exhausted(w) \/ Fail(w)
             \/ Raises(w) \/ WorkerLost(w) \/ Redelivered(w) \/ HardTimeout(w)
      PROVE  UNCHANGED tableVars
  BY <1>4 DEF Progress, Finish, Retry, Exhausted, Fail, Raises, WorkerLost, Redelivered,
    HardTimeout
<1>. QED BY <1>1, <1>2, <1>3, <1>4 DEF Next, WorkerStep

LEMMA TableSteps ==
  ASSUME TableInv, OneWriterPerImage, LabellingTypeOK, Next
  PROVE  TableInv' /\ OneWriterPerImage'
<1>. TableTypeOK
  BY DEF TableInv
<1>1. CASE UNCHANGED tableVars
  BY <1>1, TablesStay DEF tableVars, OneWriterPerImage, Indexes
<1>2. ASSUME NEW i \in DOMAIN images, NEW cs \in SUBSET Present, NEW done \in BOOLEAN,
             WithinLimit(i, Cardinality(cs)), CommitSave(i, cs, done)
      PROVE  TableInv' /\ OneWriterPerImage'
  BY <1>2, SaveInv, SaveIsOneWriter
<1>3. ASSUME NEW c \in Present, CommitDelete(c)
      PROVE  TableInv' /\ OneWriterPerImage'
  BY <1>3, DeleteInv, DeleteKeepsOneWriter
<1>4. ASSUME NEW missing \in SUBSET (Sources \ Range(images)), CommitAttach(missing, NextYolo)
      PROVE  TableInv' /\ OneWriterPerImage'
  <2>1. TableInv'
    BY <1>4, NextYoloIsNew, AttachInv
  <2>2. OneWriterPerImage'
    BY <1>4 DEF CommitAttach, OneWriterPerImage, Indexes
  <2>. QED BY <2>1, <2>2
<1>5. ASSUME NEW w \in Workers, Fills(w), run[w] \in Runs, CommitPredictions(Target(w), run[w])
      PROVE  TableInv' /\ OneWriterPerImage'
  <2>1. Unlabelled(Target(w)) /\ run[w] \in Nat
    BY <1>5 DEF Fills
  <2>. QED BY <1>5, <2>1, PredictionInv, PredictionIsOneWriter
<1>. QED BY <1>1, <1>2, <1>3, <1>4, <1>5, Writers

-----------------------------------------------------------------------------
(* Runs and messages *)

LEMMA InitTypes == Init => LabellingTypeOK
BY EmptySeq DEF Init, LabellingTypeOK, RunTypeOK, QueueTypeOK, WorkerTypeOK, Status, WorkerPC, Working

\* A worker with a message has a run.
LEMMA BusyWorker ==
  ASSUME WorkerTypeOK, NEW w \in Workers, wpc[w] # "idle"
  PROVE  run[w] \in Runs /\ Message(w) \in Messages
BY DEF WorkerTypeOK, Message

LEMMA TargetCount ==
  ASSUME RunTypeOK, NEW r \in Runs
  PROVE  /\ Len(targets[r]) \in Nat /\ DOMAIN targets[r] = 1..Len(targets[r])
         /\ status[r] # "none" => Len(targets[r]) > 0
BY LenProperties, EmptySeq DEF RunTypeOK

\* What a step does to a run: it is started, claimed, furthered or ended by an attempt, or
\* failed.
Started(r) ==
  /\ status[r] = "none" /\ status'[r] = "PENDING" /\ event'[r] = "pending"
  /\ generation'[r] = generation[r] /\ processed'[r] = processed[r]
  /\ targets'[r] \in Seq(Indexes) /\ targets'[r] # <<>>
Claimed(r, w) ==
  /\ \E m \in Messages : m[1] = r /\ (Deliver(w, m) \/ DeliverFails(w, m))
  /\ status[r] \in Active /\ status'[r] = "RUNNING"
  /\ generation'[r] = generation[r] + 1
  /\ processed'[r] = processed[r] /\ targets'[r] = targets[r]
  /\ wpc'[w] \in {"write", "retry"} /\ run'[w] = r /\ mine'[w] = generation'[r]
Furthered(r, w) ==
  /\ Owns(w) /\ run[w] = r /\ wpc[w] = "progress"
  /\ status'[r] = "RUNNING" /\ generation'[r] = generation[r] /\ targets'[r] = targets[r]
  /\ processed'[r] = Progressed(w)
Succeeded(r, w) ==
  /\ Owns(w) /\ run[w] = r /\ wpc[w] = "finish"
  /\ status'[r] = "SUCCEEDED" /\ generation'[r] = generation[r] /\ targets'[r] = targets[r]
  /\ processed'[r] = Len(targets[r])
Failed(r, w) ==
  /\ FailsOwn(w) /\ run[w] = r /\ wpc[w] = "fail"
  /\ status'[r] = "FAILED" /\ generation'[r] = generation[r] /\ targets'[r] = targets[r]
  /\ processed'[r] = processed[r]
Kept(r) ==
  /\ status'[r] = status[r] /\ generation'[r] = generation[r]
  /\ processed'[r] = processed[r] /\ targets'[r] = targets[r]

RunChange(r) ==
  \/ Kept(r) \/ Started(r)
  \/ \E w \in Workers : Claimed(r, w) \/ Furthered(r, w) \/ Succeeded(r, w) \/ Failed(r, w)

LEMMA StartTargets ==
  ASSUME TableTypeOK, NEW order \in InOrder({i \in Indexes : Unlabelled(i)}),
         {i \in Indexes : Unlabelled(i)} # {}
  PROVE  order \in Seq(Indexes) /\ order # <<>>
<1>. DEFINE todo == {i \in Indexes : Unlabelled(i)}
<1>1. todo \in SUBSET Nat /\ IsFiniteSet(todo) /\ todo # {}
  BY IndexesFinite, FS_Subset DEF Indexes
<1>2. order \in Seq(todo) /\ Len(order) = Cardinality(todo)
  BY <1>1, InOrderIsSeq
<1>3. Cardinality(todo) # 0
  BY <1>1, FS_EmptySet
<1>4. order \in Seq(Indexes)
  BY <1>2, SeqMonotonic
<1>. QED BY <1>2, <1>3, <1>4, EmptySeq

LEMMA RunChanges ==
  ASSUME TableTypeOK, LabellingTypeOK, Next, NEW r \in Runs
  PROVE  RunChange(r)
<1>. RunTypeOK /\ QueueTypeOK /\ WorkerTypeOK
  BY DEF LabellingTypeOK
<1>1. CASE UNCHANGED rowVars
  BY <1>1 DEF RunChange, Kept, rowVars
<1>2. CASE Start
  <2>1. PICK q \in Runs, order \in InOrder({i \in Indexes : Unlabelled(i)}) :
          /\ status[q] = "none" /\ {i \in Indexes : Unlabelled(i)} # {}
          /\ targets' = [targets EXCEPT ![q] = order]
          /\ status' = [status EXCEPT ![q] = "PENDING"]
          /\ event' = [event EXCEPT ![q] = "pending"]
          /\ UNCHANGED <<generation, processed>>
    BY <1>2 DEF Start
  <2>2. order \in Seq(Indexes) /\ order # <<>>
    BY <2>1, StartTargets
  <2>. QED BY <2>1, <2>2 DEF RunChange, Kept, Started, RunTypeOK, QueueTypeOK
<1>3. ASSUME NEW w \in Workers, NEW m \in Messages, Deliver(w, m) \/ DeliverFails(w, m),
             ~UNCHANGED rowVars
      PROVE  RunChange(r)
  <2>1. /\ ClaimRow(m[1]) /\ Claimable(m[1])
        /\ \E p \in {"write", "retry"} : Begin(w, m, p, generation[m[1]] + 1)
    BY <1>3 DEF Deliver, DeliverFails
  <2>2. CASE m[1] = r
    <3>1. Claimed(r, w)
      BY <1>3, <2>1, <2>2 DEF ClaimRow, Claimable, Begin, Goto, Claimed, RunTypeOK, WorkerTypeOK
    <3>. QED BY <3>1 DEF RunChange
  <2>3. CASE m[1] # r
    BY <2>1, <2>3 DEF ClaimRow, RunChange, Kept, RunTypeOK
  <2>. QED BY <2>2, <2>3
<1>4. ASSUME NEW w \in Workers, Progress(w)
      PROVE  RunChange(r)
  <2>1. CASE Owns(w) /\ run[w] = r
    <3>1. Furthered(r, w)
      BY <1>4, <2>1 DEF Progress, Furthered, Owns, RunTypeOK
    <3>. QED BY <3>1 DEF RunChange
  <2>2. CASE ~(Owns(w) /\ run[w] = r)
    BY <1>4, <2>2 DEF Progress, RunChange, Kept, RunTypeOK
  <2>. QED BY <2>1, <2>2
<1>5. ASSUME NEW w \in Workers, Finish(w), ~UNCHANGED rowVars
      PROVE  RunChange(r)
  <2>1. Owns(w) /\ SucceedRow(run[w]) /\ wpc[w] = "finish"
    BY <1>5 DEF Finish
  <2>2. CASE run[w] = r
    <3>1. Succeeded(r, w)
      BY <2>1, <2>2 DEF SucceedRow, Succeeded, RunTypeOK
    <3>. QED BY <3>1 DEF RunChange
  <2>3. CASE run[w] # r
    BY <2>1, <2>3 DEF SucceedRow, RunChange, Kept, RunTypeOK
  <2>. QED BY <2>2, <2>3
<1>6. ASSUME NEW w \in Workers, Fail(w), ~UNCHANGED status
      PROVE  RunChange(r)
  <2>1. /\ FailsOwn(w) /\ wpc[w] = "fail" /\ status' = [status EXCEPT ![run[w]] = "FAILED"]
        /\ UNCHANGED <<generation, processed, targets>>
    BY <1>6 DEF Fail
  <2>2. CASE run[w] = r
    <3>1. Failed(r, w)
      BY <2>1, <2>2 DEF Failed, RunTypeOK
    <3>. QED BY <3>1 DEF RunChange
  <2>3. CASE run[w] # r
    BY <2>1, <2>3 DEF RunChange, Kept, RunTypeOK
  <2>. QED BY <2>2, <2>3
<1>7. ASSUME NEW w \in Workers, Fail(w), UNCHANGED status
      PROVE  UNCHANGED rowVars
  BY <1>7 DEF Fail, rowVars
<1>8. ASSUME NEW w \in Workers,
             \/ Write(w) \/ Retry(w) \/ Exhausted(w)
             \/ Raises(w) \/ WorkerLost(w) \/ Redelivered(w) \/ HardTimeout(w)
      PROVE  UNCHANGED rowVars
  BY <1>8 DEF Write, Retry, Exhausted, Raises, WorkerLost, Redelivered, HardTimeout
<1>9. ASSUME Edit \/ Publish
      PROVE  UNCHANGED rowVars
  BY <1>9 DEF Edit, Publish, labellingVars
<1>. QED BY <1>1, <1>2, <1>3, <1>4, <1>5, <1>6, <1>7, <1>8, <1>9 DEF Next, WorkerStep

LEMMA FurtherWithin ==
  ASSUME RunTypeOK, WorkerTypeOK, NEW w \in Workers, wpc[w] \in Working
  PROVE  /\ run[w] \in Runs /\ position[w] \in Nat /\ position[w] > 0
         /\ position[w] <= Len(targets[run[w]]) /\ Len(targets[run[w]]) \in Nat
         /\ Progressed(w) \in Nat /\ Progressed(w) <= Len(targets[run[w]])
         /\ Progressed(w) >= processed[run[w]]
<1>1. run[w] \in Runs
  BY BusyWorker DEF Working
<1>2. position[w] \in 1..Len(targets[run[w]]) /\ Len(targets[run[w]]) \in Nat
  BY <1>1, TargetCount DEF WorkerTypeOK
<1>3. processed[run[w]] \in Nat /\ processed[run[w]] <= Len(targets[run[w]])
  BY <1>1 DEF RunTypeOK
<1>. QED BY <1>1, <1>2, <1>3 DEF Progressed

LEMMA RunTypes ==
  ASSUME TableTypeOK, LabellingTypeOK, Next
  PROVE  RunTypeOK'
<1>. RunTypeOK /\ QueueTypeOK /\ WorkerTypeOK
  BY DEF LabellingTypeOK
<1>1. /\ status' = [r \in Runs |-> status'[r]] /\ generation' = [r \in Runs |-> generation'[r]]
      /\ processed' = [r \in Runs |-> processed'[r]] /\ targets' = [r \in Runs |-> targets'[r]]
  <2>1. CASE UNCHANGED rowVars
    BY <2>1 DEF rowVars, RunTypeOK
  <2>2. CASE Start
    BY <2>2 DEF Start, RunTypeOK
  <2>3. ASSUME NEW w \in Workers, NEW m \in Messages, Deliver(w, m) \/ DeliverFails(w, m)
        PROVE  UNCHANGED rowVars \/ ClaimRow(m[1])
    BY <2>3 DEF Deliver, DeliverFails
  <2>4. ASSUME NEW r \in Runs, ClaimRow(r) \/ SucceedRow(r)
        PROVE  /\ status' = [q \in Runs |-> status'[q]]
               /\ generation' = [q \in Runs |-> generation'[q]]
               /\ processed' = [q \in Runs |-> processed'[q]]
               /\ targets' = [q \in Runs |-> targets'[q]]
    BY <2>4 DEF ClaimRow, SucceedRow, RunTypeOK
  <2>5. ASSUME NEW w \in Workers, Progress(w) \/ Fail(w)
        PROVE  /\ status' = [q \in Runs |-> status'[q]]
               /\ generation' = [q \in Runs |-> generation'[q]]
               /\ processed' = [q \in Runs |-> processed'[q]]
               /\ targets' = [q \in Runs |-> targets'[q]]
    BY <2>5 DEF Progress, Fail, RunTypeOK
  <2>6. ASSUME NEW w \in Workers, Finish(w)
        PROVE  UNCHANGED rowVars \/ (SucceedRow(run[w]) /\ run[w] \in Runs)
    BY <2>6, BusyWorker DEF Finish, Working
  <2>7. ASSUME NEW w \in Workers,
               \/ Write(w) \/ Retry(w) \/ Exhausted(w)
               \/ Raises(w) \/ WorkerLost(w) \/ Redelivered(w) \/ HardTimeout(w)
        PROVE  UNCHANGED rowVars
    BY <2>7 DEF Write, Retry, Exhausted, Raises, WorkerLost, Redelivered, HardTimeout
  <2>8. ASSUME Edit \/ Publish
        PROVE  UNCHANGED rowVars
    BY <2>8 DEF Edit, Publish, labellingVars
  <2>. QED BY <2>1, <2>2, <2>3, <2>4, <2>5, <2>6, <2>7, <2>8 DEF Next, WorkerStep
<1>2. ASSUME NEW r \in Runs
      PROVE  /\ status'[r] \in Status /\ generation'[r] \in Nat /\ processed'[r] \in Nat
             /\ targets'[r] \in Seq(Indexes)
             /\ status'[r] = "none" <=> targets'[r] = <<>>
             /\ status'[r] \in {"RUNNING", "SUCCEEDED"} => generation'[r] # 0
             /\ processed'[r] <= Len(targets'[r])
  <2>1. CASE Kept(r)
    BY <2>1 DEF Kept, RunTypeOK
  <2>2. CASE Started(r)
    <3>1. processed[r] = 0 /\ processed[r] \in Nat /\ Len(targets'[r]) \in Nat
      <4>1. Len(targets[r]) = 0
        BY <2>2, EmptySeq DEF Started, RunTypeOK
      <4>2. processed[r] \in Nat /\ processed[r] <= Len(targets[r])
        BY DEF RunTypeOK
      <4>. QED BY <2>2, <4>1, <4>2, LenProperties DEF Started
    <3>2. /\ status'[r] = "PENDING" /\ generation'[r] \in Nat /\ processed'[r] = processed[r]
          /\ targets'[r] \in Seq(Indexes) /\ targets'[r] # <<>>
      BY <2>2 DEF Started, RunTypeOK
    <3>. QED BY <3>1, <3>2 DEF Status, Active
  <2>3. ASSUME NEW w \in Workers, Claimed(r, w)
        PROVE  /\ status'[r] = "RUNNING" /\ generation'[r] \in Nat \ {0}
               /\ processed'[r] = processed[r] /\ targets'[r] = targets[r] /\ targets[r] # <<>>
    <3>1. status[r] # "none" /\ generation[r] \in Nat /\ targets[r] # <<>>
      BY <2>3 DEF Claimed, RunTypeOK, Active
    <3>. QED BY <2>3, <3>1 DEF Claimed
  <2>4. ASSUME NEW w \in Workers, Furthered(r, w) \/ Succeeded(r, w)
        PROVE  /\ status'[r] \in {"RUNNING", "SUCCEEDED"} /\ generation'[r] \in Nat \ {0}
               /\ processed'[r] \in Nat /\ processed'[r] <= Len(targets[r])
               /\ targets'[r] = targets[r] /\ targets[r] # <<>>
    <3>1. wpc[w] \in Working
      BY <2>4 DEF Furthered, Succeeded, Working
    <3>2. status[r] = "RUNNING" /\ generation[r] \in Nat \ {0} /\ targets[r] # <<>>
      BY <2>4 DEF Furthered, Succeeded, Owns, RunTypeOK
    <3>. QED BY <2>4, <3>1, <3>2, FurtherWithin DEF Furthered, Succeeded
  <2>5. ASSUME NEW w \in Workers, Failed(r, w)
        PROVE  /\ status'[r] = "FAILED" /\ generation'[r] = generation[r]
               /\ processed'[r] = processed[r] /\ targets'[r] = targets[r] /\ targets[r] # <<>>
    BY <2>5 DEF Failed, FailsOwn, RunTypeOK, Active
  <2>. QED BY <2>1, <2>2, <2>3, <2>4, <2>5, RunChanges DEF RunChange, RunTypeOK, Status, Active
<1>. QED BY <1>1, <1>2 DEF RunTypeOK

\* What a message put into the queue changes.
LEMMA PutCounts ==
  ASSUME NEW q \in [Messages -> Nat], NEW n
  PROVE  /\ Put(q, n) \in [Messages -> Nat]
         /\ \A m \in Messages : Put(q, n)[m] >= q[m] /\ (Put(q, n)[m] # q[m] => m = n)
         /\ n \in Messages => Put(q, n)[n] > 0
<1>1. Put(q, n) = [m \in Messages |-> IF m = n THEN q[m] + 1 ELSE q[m]]
  BY DEF Put
<1>2. \A m \in Messages : Put(q, n)[m] = IF m = n THEN q[m] + 1 ELSE q[m]
  BY <1>1
<1>3. \A m \in Messages : q[m] \in Nat
  OBVIOUS
<1>4. Put(q, n) \in [Messages -> Nat]
  <2>1. \A m \in Messages : (IF m = n THEN q[m] + 1 ELSE q[m]) \in Nat
    BY <1>3
  <2>. QED BY <1>1, <2>1
<1>5. ASSUME NEW m \in Messages
      PROVE  Put(q, n)[m] >= q[m] /\ (Put(q, n)[m] # q[m] => m = n)
  <2>1. Put(q, n)[m] = (IF m = n THEN q[m] + 1 ELSE q[m]) /\ q[m] \in Nat
    BY <1>2, <1>3
  <2>. QED BY <2>1
<1>6. n \in Messages => Put(q, n)[n] > 0
  BY <1>2, <1>3
<1>. QED BY <1>4, <1>5, <1>6

LEMMA PutsCount ==
  ASSUME NEW q \in [Messages -> Nat], NEW n, NEW k
  PROVE  /\ Put(Put(q, n), k) \in [Messages -> Nat]
         /\ \A m \in Messages : /\ Put(Put(q, n), k)[m] >= q[m]
                                /\ Put(Put(q, n), k)[m] # q[m] => m = n \/ m = k
<1>. DEFINE once == Put(q, n)
<1>. DEFINE twice == Put(once, k)
<1>1. once \in [Messages -> Nat] /\ \A m \in Messages : once[m] >= q[m] /\ (once[m] # q[m] => m = n)
  BY PutCounts
<1>2. /\ twice \in [Messages -> Nat]
      /\ \A m \in Messages : twice[m] >= once[m] /\ (twice[m] # once[m] => m = k)
  BY <1>1, PutCounts
<1>. HIDE DEF once, twice
<1>3. ASSUME NEW m \in Messages
      PROVE  twice[m] >= q[m] /\ (twice[m] # q[m] => m = n \/ m = k)
  <2>1. q[m] \in Nat /\ once[m] \in Nat /\ twice[m] \in Nat
    BY <1>1, <1>2
  <2>. QED BY <1>1, <1>2, <2>1
<1>4. /\ twice \in [Messages -> Nat]
      /\ \A m \in Messages : twice[m] >= q[m] /\ (twice[m] # q[m] => m = n \/ m = k)
  BY <1>2, <1>3
<1>. QED BY <1>4 DEF once, twice

\* Workers only put messages of their own runs into the queue: a retry, its own that comes
\* back, or both.
LEMMA WorkerPuts ==
  ASSUME QueueTypeOK, NEW w \in Workers,
         WorkerStep(w) \/ Raises(w) \/ WorkerLost(w) \/ Redelivered(w) \/ HardTimeout(w)
  PROVE  /\ UNCHANGED event /\ ready' \in [Messages -> Nat]
         /\ \A m \in Messages :
              ready'[m] >= ready[m] /\ (ready'[m] # ready[m] => wpc[w] # "idle" /\ m[1] = run[w])
<1>. ready \in [Messages -> Nat]
  BY DEF QueueTypeOK
<1>1. CASE Retry(w)
  <2>1. PICK next : /\ next = <<run[w], retries[w] + 1>>
                    /\ ready' \in {ready, Put(ready, next), Put(Put(ready, next), Message(w))}
    BY <1>1 DEF Retry, Returns, Acknowledged, Unacknowledged
  <2>2. UNCHANGED event /\ wpc[w] # "idle"
    BY <1>1 DEF Retry
  <2>3. next[1] = run[w] /\ Message(w)[1] = run[w]
    BY <2>1 DEF Message
  <2>4. CASE ready' = ready
    BY <2>2, <2>4
  <2>5. CASE ready' = Put(ready, next)
    <3>1. /\ ready' \in [Messages -> Nat]
          /\ \A m \in Messages : ready'[m] >= ready[m] /\ (ready'[m] # ready[m] => m = next)
      BY <2>5, PutCounts
    <3>. QED BY <2>2, <2>3, <3>1
  <2>6. CASE ready' = Put(Put(ready, next), Message(w))
    <3>1. /\ ready' \in [Messages -> Nat]
          /\ \A m \in Messages : /\ ready'[m] >= ready[m]
                                 /\ ready'[m] # ready[m] => m = next \/ m = Message(w)
      BY <2>6, PutsCount
    <3>2. ASSUME NEW m \in Messages, ready'[m] # ready[m]
          PROVE  m[1] = run[w]
      <4>1. m = next \/ m = Message(w)
        BY <3>1, <3>2
      <4>. QED BY <2>3, <4>1
    <3>. QED BY <2>2, <3>1, <3>2
  <2>. QED BY <2>1, <2>4, <2>5, <2>6
<1>2. CASE Finish(w) \/ Fail(w) \/ WorkerLost(w) \/ Redelivered(w)
  <2>1. UNCHANGED event /\ wpc[w] # "idle" /\ ready' \in {ready, Put(ready, Message(w))}
    BY <1>2 DEF Finish, Fail, WorkerLost, Redelivered, Returns, Acknowledged, Unacknowledged, Working
  <2>2. Message(w)[1] = run[w]
    BY DEF Message
  <2>3. /\ Put(ready, Message(w)) \in [Messages -> Nat]
        /\ \A m \in Messages : /\ Put(ready, Message(w))[m] >= ready[m]
                               /\ Put(ready, Message(w))[m] # ready[m] => m = Message(w)
    BY PutCounts
  <2>4. CASE ready' = ready
    BY <2>1, <2>4
  <2>5. CASE ready' = Put(ready, Message(w))
    <3>1. ASSUME NEW m \in Messages, ready'[m] # ready[m]
          PROVE  m[1] = run[w]
      <4>1. m = Message(w)
        BY <2>3, <2>5, <3>1
      <4>. QED BY <2>2, <4>1
    <3>. QED BY <2>1, <2>3, <2>5, <3>1
  <2>. QED BY <2>1, <2>4, <2>5
<1>3. CASE Write(w) \/ Progress(w) \/ Exhausted(w) \/ Raises(w) \/ HardTimeout(w)
  BY <1>3 DEF Write, Progress, Exhausted, Raises, HardTimeout, queueVars
<1>. QED BY <1>1, <1>2, <1>3 DEF WorkerStep

LEMMA QueueTypes ==
  ASSUME LabellingTypeOK, Next
  PROVE  QueueTypeOK'
<1>. RunTypeOK /\ QueueTypeOK /\ WorkerTypeOK
  BY DEF LabellingTypeOK
<1>1. CASE UNCHANGED queueVars
  BY <1>1 DEF queueVars, QueueTypeOK
<1>2. ASSUME NEW m, ready' = Put(ready, m)
      PROVE  ready' \in [Messages -> Nat]
  <2>1. CASE m \in Messages
    BY <1>2, <2>1 DEF Put, QueueTypeOK
  <2>2. CASE m \notin Messages
    BY <1>2, <2>2 DEF Put, QueueTypeOK
  <2>. QED BY <2>1, <2>2
<1>3. ASSUME NEW m \in Messages, ready[m] > 0, ready' = Take(ready, m)
      PROVE  ready' \in [Messages -> Nat]
  BY <1>3 DEF Take, QueueTypeOK
<1>4. CASE Start
  BY <1>4 DEF Start, QueueTypeOK
<1>5. CASE Publish
  <2>1. event' \in [Runs -> {"none", "pending", "published"}]
    BY <1>5 DEF Publish, QueueTypeOK
  <2>2. \E m : ready' = Put(ready, m) \/ ready' = ready
    BY <1>5 DEF Publish
  <2>. QED BY <1>2, <2>1, <2>2 DEF QueueTypeOK
<1>6. ASSUME NEW w \in Workers, NEW m \in Messages, Deliver(w, m) \/ DeliverFails(w, m)
      PROVE  ready[m] > 0 /\ ready' = Take(ready, m) /\ UNCHANGED event
  BY <1>6 DEF Deliver, DeliverFails, Begin
<1>7. ASSUME NEW w \in Workers,
             WorkerStep(w) \/ Raises(w) \/ WorkerLost(w) \/ Redelivered(w) \/ HardTimeout(w)
      PROVE  QueueTypeOK'
  BY <1>7, WorkerPuts DEF QueueTypeOK
<1>8. CASE Edit
  BY <1>8 DEF Edit, labellingVars, queueVars, QueueTypeOK
<1>. QED BY <1>1, <1>2, <1>3, <1>4, <1>5, <1>6, <1>7, <1>8 DEF Next, QueueTypeOK

-----------------------------------------------------------------------------
(* Workers *)

\* The targets of a run that has started stay.
LEMMA TargetsStay ==
  ASSUME TableTypeOK, LabellingTypeOK, Next, NEW r \in Runs, status[r] # "none"
  PROVE  targets'[r] = targets[r] /\ status'[r] # "none"
BY RunChanges DEF RunChange, Kept, Started, Claimed, Furthered, Succeeded, Failed

LEMMA AtWorkStarted ==
  ASSUME RunTypeOK, WorkerTypeOK, NEW w \in Workers, wpc[w] \in Working
  PROVE  run[w] \in Runs /\ status[run[w]] # "none"
<1>1. run[w] \in Runs
  BY BusyWorker DEF Working
<1>2. Len(targets[run[w]]) > 0
  BY FurtherWithin
<1>3. targets[run[w]] # <<>>
  BY <1>2
<1>. QED BY <1>1, <1>3 DEF RunTypeOK

\* The two ways in which a worker changes its place.
LEMMA GotoType ==
  ASSUME WorkerTypeOK, NEW w \in Workers, wpc[w] # "idle",
         NEW p \in {"progress", "retry", "fail"},
         \/ Next1(w, p) /\ (p \in Working => wpc[w] \in Working)
         \/ Leave(w, p) /\ p \notin Working
  PROVE  /\ wpc' \in [Workers -> WorkerPC] /\ UNCHANGED <<run, retries, mine>>
         /\ position' \in [Workers -> Nat]
         /\ \A v \in Workers : /\ wpc'[v] = "idle" <=> wpc[v] = "idle"
                               /\ wpc'[v] \in Working =>
                                    wpc[v] \in Working /\ position'[v] = position[v]
BY DEF WorkerTypeOK, Next1, Leave, Goto, WorkerPC, Working

\* How an attempt finishes: it is over, or it is to be retried.
LEMMA FinishEnds ==
  ASSUME NEW w \in Workers, Finish(w)
  PROVE  /\ wpc[w] = "finish"
         /\ \/ Idle(w) /\ Owns(w) /\ SucceedRow(run[w])
            \/ Leave(w, "retry") /\ UNCHANGED ready
BY DEF Finish, Returns, Acknowledged, Unacknowledged

LEMMA WorkerTypes ==
  ASSUME TableTypeOK, LabellingTypeOK, Next
  PROVE  WorkerTypeOK'
<1>. RunTypeOK /\ QueueTypeOK /\ WorkerTypeOK
  BY DEF LabellingTypeOK
<1>0. \A v \in Workers : wpc[v] \in Working => targets'[run[v]] = targets[run[v]]
  BY AtWorkStarted, TargetsStay
<1>1. CASE UNCHANGED workerVars
  BY <1>0, <1>1 DEF workerVars, WorkerTypeOK
<1>2. ASSUME NEW w \in Workers, wpc[w] # "idle",
             NEW p \in {"progress", "retry", "fail"},
             \/ Next1(w, p) /\ (p \in Working => wpc[w] \in Working)
             \/ Leave(w, p) /\ p \notin Working
      PROVE  WorkerTypeOK'
  <2>1. /\ wpc' \in [Workers -> WorkerPC] /\ UNCHANGED <<run, retries, mine>>
        /\ position' \in [Workers -> Nat]
        /\ \A v \in Workers : /\ wpc'[v] = "idle" <=> wpc[v] = "idle"
                              /\ wpc'[v] \in Working =>
                                   wpc[v] \in Working /\ position'[v] = position[v]
    BY <1>2, GotoType
  <2>. QED BY <1>0, <2>1 DEF WorkerTypeOK
<1>3. ASSUME NEW w \in Workers, Idle(w)
      PROVE  WorkerTypeOK'
  <2>1. /\ wpc' \in [Workers -> WorkerPC] /\ run' \in [Workers -> Runs \cup {0}]
        /\ retries' \in [Workers -> 0..MaxRetries]
        /\ mine' \in [Workers -> Nat \cup {Undone}] /\ position' \in [Workers -> Nat]
    BY <1>3 DEF Idle, Goto, WorkerTypeOK, WorkerPC
  <2>2. \A v \in Workers \ {w} : /\ wpc'[v] = wpc[v] /\ run'[v] = run[v]
                                 /\ position'[v] = position[v]
    BY <1>3 DEF Idle, Goto, WorkerTypeOK
  <2>3. wpc'[w] = "idle" /\ run'[w] = 0
    BY <1>3 DEF Idle, Goto, WorkerTypeOK
  <2>. QED BY <1>0, <2>1, <2>2, <2>3 DEF WorkerTypeOK, Working
<1>4. ASSUME NEW w \in Workers, NEW m \in Messages, NEW p \in {"write", "retry"},
             NEW g \in Nat \cup {Undone}, Begin(w, m, p, g), wpc[w] = "idle",
             status[m[1]] \in Active
      PROVE  WorkerTypeOK'
  <2>1. /\ wpc' \in [Workers -> WorkerPC] /\ run' \in [Workers -> Runs \cup {0}]
        /\ retries' \in [Workers -> 0..MaxRetries]
        /\ mine' \in [Workers -> Nat \cup {Undone}] /\ position' \in [Workers -> Nat]
    BY <1>4 DEF Begin, Goto, WorkerTypeOK, WorkerPC, Working
  <2>2. \A v \in Workers \ {w} : /\ wpc'[v] = wpc[v] /\ run'[v] = run[v]
                                 /\ position'[v] = position[v]
    BY <1>4 DEF Begin, Goto, WorkerTypeOK
  <2>3. /\ wpc'[w] = p /\ run'[w] = m[1] /\ m[1] \in Runs /\ m[1] # 0
        /\ p = "write" => position'[w] = 1
    BY <1>4 DEF Begin, Goto, WorkerTypeOK
  <2>4. 1 \in DOMAIN targets'[m[1]]
    <3>1. targets'[m[1]] = targets[m[1]] /\ status[m[1]] # "none"
      BY <1>4, <2>3, TargetsStay DEF Active
    <3>. QED BY <2>3, <3>1, TargetCount
  <2>. QED BY <1>0, <2>1, <2>2, <2>3, <2>4 DEF WorkerTypeOK, Working
<1>5. ASSUME NEW w \in Workers, Progress(w)
      PROVE  WorkerTypeOK'
  <2>0. /\ wpc[w] = "progress" /\ wpc[w] \in Working
        /\ run[w] \in Runs /\ position[w] \in Nat /\ position[w] <= Len(targets[run[w]])
        /\ Len(targets[run[w]]) \in Nat /\ DOMAIN targets[run[w]] = 1..Len(targets[run[w]])
    BY <1>5, FurtherWithin, TargetCount DEF Progress, Working
  <2>1. /\ wpc' \in [Workers -> WorkerPC] /\ position' \in [Workers -> Nat]
        /\ UNCHANGED <<run, retries, mine, targets>>
    BY <1>5, <2>0 DEF Progress, Goto, WorkerTypeOK, WorkerPC, Working
  <2>2. \A v \in Workers \ {w} : wpc'[v] = wpc[v] /\ position'[v] = position[v]
    BY <1>5 DEF Progress, Goto, WorkerTypeOK
  <2>3. /\ wpc'[w] \in {"finish", "write"} /\ position'[w] \in DOMAIN targets[run[w]]
    BY <1>5, <2>0 DEF Progress, Goto, WorkerTypeOK
  <2>. QED BY <2>0, <2>1, <2>2, <2>3 DEF WorkerTypeOK, Working
<1>6. ASSUME NEW w \in Workers, NEW m \in Messages, Deliver(w, m) \/ DeliverFails(w, m)
      PROVE  \/ UNCHANGED workerVars
             \/ \E p \in {"write", "retry"}, g \in Nat \cup {Undone} :
                  Begin(w, m, p, g) /\ wpc[w] = "idle" /\ status[m[1]] \in Active
  <2>1. generation[m[1]] + 1 \in Nat
    BY DEF RunTypeOK
  <2>2. CASE Deliver(w, m)
    BY <2>1, <2>2 DEF Deliver, Claimable
  <2>3. CASE DeliverFails(w, m)
    BY <2>1, <2>3 DEF DeliverFails, Claimable, NoGeneration
  <2>. QED BY <1>6, <2>2, <2>3
<1>7. ASSUME NEW w \in Workers, Write(w) \/ Finish(w) \/ Raises(w) \/ Exhausted(w), ~Idle(w)
      PROVE  /\ wpc[w] # "idle"
             /\ \E p \in {"progress", "retry", "fail"} :
                  \/ Next1(w, p) /\ (p \in Working => wpc[w] \in Working)
                  \/ Leave(w, p) /\ p \notin Working
  BY <1>7, FinishEnds DEF Write, Raises, Exhausted, Working
<1>8. ASSUME NEW w \in Workers, Retry(w) \/ Fail(w) \/ WorkerLost(w) \/ HardTimeout(w)
      PROVE  Idle(w)
  BY <1>8 DEF Retry, Fail, Returns, Acknowledged, Unacknowledged, WorkerLost, HardTimeout
<1>9. ASSUME Edit \/ Start \/ Publish \/ \E w \in Workers : Redelivered(w)
      PROVE  UNCHANGED workerVars
  BY <1>9 DEF Edit, Start, Publish, Redelivered, labellingVars
<1>. QED BY <1>1, <1>2, <1>3, <1>4, <1>5, <1>6, <1>7, <1>8, <1>9 DEF Next, WorkerStep

LEMMA SpentBudget ==
  ASSUME budget \in Nat, NEW f, Calm \/ Spend(f)
  PROVE  budget' \in Nat
BY DEF Calm, Spend

LEMMA OtherTypes ==
  ASSUME LabellingTypeOK, Next
  PROVE  budget' \in Nat /\ dropped' \subseteq Runs /\ dropped \subseteq dropped'
<1>. WorkerTypeOK /\ budget \in Nat /\ dropped \subseteq Runs
  BY DEF LabellingTypeOK
<1>1. UNCHANGED budget \/ \E f \in FaultKinds : Calm \/ Spend(f)
  <2>1. ASSUME Edit \/ Start \/ Publish
               \/ \E w \in Workers, m \in Messages : Deliver(w, m) \/ DeliverFails(w, m)
        PROVE  UNCHANGED budget \/ \E f \in FaultKinds : Calm \/ Spend(f)
    BY <2>1 DEF Edit, Start, Publish, Deliver, DeliverFails, labellingVars, FaultKinds
  <2>2. ASSUME NEW w \in Workers,
               WorkerStep(w) \/ Raises(w) \/ WorkerLost(w) \/ Redelivered(w) \/ HardTimeout(w)
        PROVE  \E f \in FaultKinds : Calm \/ Spend(f)
    BY <2>2 DEF WorkerStep, Write, Progress, Finish, Retry, Exhausted, Fail, Raises,
      WorkerLost, Redelivered, HardTimeout, Returns, Acknowledged, Unacknowledged, FaultKinds
  <2>. QED BY <2>1, <2>2 DEF Next
<1>2. \/ UNCHANGED dropped
      \/ \E w \in Workers : Strand(run[w]) /\ wpc[w] # "idle"
  <2>1. ASSUME Edit \/ Start \/ Publish
               \/ \E w \in Workers, m \in Messages : Deliver(w, m) \/ DeliverFails(w, m)
        PROVE  UNCHANGED dropped
    BY <2>1 DEF Edit, Start, Publish, Deliver, DeliverFails, labellingVars
  <2>2. ASSUME NEW w \in Workers,
               WorkerStep(w) \/ Raises(w) \/ WorkerLost(w) \/ Redelivered(w) \/ HardTimeout(w)
        PROVE  UNCHANGED dropped \/ (Strand(run[w]) /\ wpc[w] # "idle")
    BY <2>2 DEF WorkerStep, Write, Progress, Finish, Retry, Exhausted, Fail, Raises,
      WorkerLost, Redelivered, HardTimeout, Working
  <2>. QED BY <2>1, <2>2 DEF Next
<1>3. ASSUME NEW w \in Workers, Strand(run[w]), wpc[w] # "idle"
      PROVE  dropped' \subseteq Runs /\ dropped \subseteq dropped'
  BY <1>3, BusyWorker DEF Strand
<1>. QED BY <1>1, <1>2, <1>3, SpentBudget

LEMMA LabellingTypes ==
  ASSUME TableTypeOK, LabellingTypeOK, Next
  PROVE  LabellingTypeOK'
BY RunTypes, QueueTypes, WorkerTypes, OtherTypes DEF LabellingTypeOK

\* Only its own steps move a worker.
LEMMA OwnSteps ==
  ASSUME LabellingTypeOK, Next, NEW w \in Workers
  PROVE  \/ wpc'[w] = wpc[w] /\ run'[w] = run[w] /\ retries'[w] = retries[w] /\ mine'[w] = mine[w]
         \/ \E m \in Messages : Deliver(w, m) \/ DeliverFails(w, m)
         \/ WorkerStep(w) \/ Raises(w) \/ WorkerLost(w) \/ HardTimeout(w)
<1>. WorkerTypeOK
  BY DEF LabellingTypeOK
<1>1. ASSUME NEW v \in Workers, NEW m \in Messages, Deliver(v, m) \/ DeliverFails(v, m), v # w
      PROVE  /\ wpc'[w] = wpc[w] /\ run'[w] = run[w] /\ retries'[w] = retries[w]
             /\ mine'[w] = mine[w]
  BY <1>1 DEF Deliver, DeliverFails, Begin, Goto, workerVars, WorkerTypeOK
<1>2. ASSUME NEW v \in Workers, WorkerStep(v) \/ Raises(v) \/ WorkerLost(v) \/ HardTimeout(v), v # w
      PROVE  /\ wpc'[w] = wpc[w] /\ run'[w] = run[w] /\ retries'[w] = retries[w]
             /\ mine'[w] = mine[w]
  <2>1. \/ Idle(v) \/ \E p \in WorkerPC : Next1(v, p)
        \/ \E p \in WorkerPC : Goto(v, p) /\ UNCHANGED <<run, retries, mine>>
    <3>1. CASE Write(v) \/ Progress(v) \/ Exhausted(v) \/ Raises(v) \/ WorkerLost(v) \/ HardTimeout(v)
      BY <3>1 DEF Write, Progress, Exhausted, Raises, Leave, WorkerLost, HardTimeout, WorkerPC, Working
    <3>2. CASE Finish(v)
      BY <3>2, FinishEnds DEF Leave, WorkerPC
    <3>3. CASE Retry(v) \/ Fail(v)
      BY <3>3 DEF Retry, Fail, Returns, Acknowledged, Unacknowledged
    <3>. QED BY <1>2, <3>1, <3>2, <3>3 DEF WorkerStep
  <2>. QED BY <1>2, <2>1 DEF Idle, Next1, Goto, WorkerTypeOK
<1>3. ASSUME Edit \/ Start \/ Publish \/ \E v \in Workers : Redelivered(v)
      PROVE  UNCHANGED workerVars
  BY <1>3 DEF Edit, Start, Publish, Redelivered, labellingVars
<1>. QED BY <1>1, <1>2, <1>3 DEF Next, workerVars

LEMMA DeliveryStarts ==
  ASSUME LabellingTypeOK, NEW w \in Workers, NEW m \in Messages, Deliver(w, m) \/ DeliverFails(w, m)
  PROVE  \/ UNCHANGED workerVars /\ status[m[1]] \notin Active
         \/ /\ status[m[1]] \in Active /\ run'[w] = m[1] /\ wpc'[w] \in {"write", "retry"}
            /\ \/ mine'[w] \in {NoGeneration, Undone} /\ wpc'[w] = "retry"
               \/ /\ mine'[w] = generation[m[1]] + 1 /\ generation'[m[1]] = generation[m[1]] + 1
                  /\ status'[m[1]] = "RUNNING"
BY DEF Deliver, DeliverFails, Claimable, ClaimRow, Begin, Goto, LabellingTypeOK, WorkerTypeOK,
   RunTypeOK

LEMMA StartedStep ==
  ASSUME TableTypeOK, LabellingTypeOK, StartedInv, Next
  PROVE  StartedInv'
<1>. RunTypeOK /\ QueueTypeOK /\ WorkerTypeOK /\ QueueTypeOK' /\ WorkerTypeOK'
  BY LabellingTypes DEF LabellingTypeOK
<1>0. \A r \in Runs : status[r] # "none" => status'[r] # "none"
  BY TargetsStay
<1>1. ASSUME NEW r \in Runs, event'[r] # "none", event[r] = "none"
      PROVE  status'[r] # "none"
  <2>1. CASE Start
    BY <1>1, <2>1 DEF Start, QueueTypeOK, RunTypeOK
  <2>2. CASE Publish
    BY <1>1, <2>2 DEF Publish, QueueTypeOK
  <2>3. ASSUME NEW w \in Workers,
               \/ WorkerStep(w) \/ Raises(w) \/ WorkerLost(w) \/ Redelivered(w) \/ HardTimeout(w)
        PROVE  UNCHANGED event
    BY <2>3, WorkerPuts
  <2>4. ASSUME Edit \/ \E w \in Workers, m \in Messages : Deliver(w, m) \/ DeliverFails(w, m)
        PROVE  UNCHANGED event
    BY <2>4 DEF Edit, Deliver, DeliverFails, labellingVars, queueVars
  <2>. QED BY <1>1, <2>1, <2>2, <2>3, <2>4 DEF Next
<1>2. ASSUME NEW m \in Messages, ready'[m] > 0, ~(ready[m] > 0)
      PROVE  status[m[1]] # "none"
  <2>1. CASE Publish
    <3>1. PICK r \in Runs : ready' = IF status[r] = "PENDING" THEN Put(ready, <<r, 0>>) ELSE ready
      BY <2>1 DEF Publish
    <3>. QED BY <1>2, <3>1 DEF Put, QueueTypeOK
  <2>2. ASSUME NEW w \in Workers,
               WorkerStep(w) \/ Raises(w) \/ WorkerLost(w) \/ Redelivered(w) \/ HardTimeout(w)
        PROVE  status[m[1]] # "none"
    <3>1. wpc[w] # "idle" /\ m[1] = run[w]
      BY <1>2, <2>2, WorkerPuts
    <3>. QED BY <3>1 DEF StartedInv
  <2>4. ASSUME Edit \/ Start
        PROVE  UNCHANGED ready
    BY <2>4 DEF Edit, Start, labellingVars, queueVars
  <2>5. ASSUME NEW w \in Workers, NEW n \in Messages, Deliver(w, n) \/ DeliverFails(w, n)
        PROVE  ready'[m] <= ready[m] /\ ready[m] \in Nat
    BY <2>5 DEF Deliver, DeliverFails, Begin, Take, QueueTypeOK
  <2>. QED BY <1>2, <2>1, <2>2, <2>4, <2>5 DEF Next, QueueTypeOK
<1>3. ASSUME NEW w \in Workers, wpc'[w] # "idle"
      PROVE  run'[w] \in Runs /\ status[run'[w]] # "none"
  <2>1. run'[w] \in Runs
    BY <1>3 DEF WorkerTypeOK
  <2>2. CASE run'[w] = run[w]
    BY <2>1, <2>2 DEF WorkerTypeOK, StartedInv
  <2>3. ASSUME NEW m \in Messages, Deliver(w, m) \/ DeliverFails(w, m)
        PROVE  run'[w] = run[w] \/ (run'[w] = m[1] /\ status[m[1]] \in Active)
    BY <2>3, DeliveryStarts DEF workerVars
  <2>4. ASSUME WorkerStep(w) \/ Raises(w) \/ WorkerLost(w) \/ HardTimeout(w)
        PROVE  run'[w] = run[w] \/ run'[w] = 0
    <3>1. CASE Write(w) \/ Progress(w) \/ Exhausted(w) \/ Raises(w) \/ WorkerLost(w) \/ HardTimeout(w)
      BY <3>1 DEF Write, Progress, Exhausted, Raises, WorkerLost, HardTimeout, Leave, Next1, Idle,
        WorkerTypeOK
    <3>2. CASE Finish(w)
      BY <3>2, FinishEnds DEF Leave, Idle, WorkerTypeOK
    <3>3. CASE Retry(w) \/ Fail(w)
      BY <3>3 DEF Retry, Fail, Returns, Acknowledged, Unacknowledged, Idle, WorkerTypeOK
    <3>. QED BY <2>4, <3>1, <3>2, <3>3 DEF WorkerStep
  <2>. QED BY <2>1, <2>2, <2>3, <2>4, OwnSteps DEF Active
<1>4. \A m \in Messages : m[1] \in Runs
  OBVIOUS
<1>. QED BY <1>0, <1>1, <1>2, <1>3, <1>4 DEF StartedInv

-----------------------------------------------------------------------------
(* Active runs are tended *)

TendedRun(r) ==
  \/ r \in dropped \/ Announced(r) \/ Queued(r)
  \/ \E w \in Workers : run[w] = r /\ Tends(w)

LEMMA PutQueues ==
  ASSUME QueueTypeOK, NEW m \in Messages, ready' = Put(ready, m)
  PROVE  Queued(m[1])'
<1>1. ready'[m] > 0
  BY DEF Put, QueueTypeOK
<1>. QED BY <1>1 DEF Queued

\* What a worker that tends its run does next tends it too.
LEMMA TendsOn ==
  ASSUME LabellingTypeOK, NEW w \in Workers, Tends(w), NEW r \in Runs, run[w] = r,
         status[r] \in Active, status'[r] \in Active,
         WorkerStep(w) \/ Raises(w) \/ WorkerLost(w) \/ HardTimeout(w)
  PROVE  TendedRun(r)'
<1>. RunTypeOK /\ QueueTypeOK /\ WorkerTypeOK
  BY DEF LabellingTypeOK
<1>0. wpc[w] # "idle" /\ run[w] \in Runs
  BY BusyWorker DEF Tends, Working
<1>1. ASSUME run'[w] = run[w], mine'[w] = mine[w], UNCHANGED <<status, generation>>,
             \/ wpc'[w] \in Working \cup {"retry", "fail"} /\ wpc[w] \in Working
             \/ wpc'[w] \in {"retry", "fail"}
      PROVE  TendedRun(r)'
  <2>1. Tends(w)'
    BY <1>1 DEF Tends, FailsOwn, Working
  <2>. QED BY <1>1, <2>1 DEF TendedRun
<1>2. CASE Write(w)
  BY <1>1, <1>2 DEF Write, Next1, Leave, Goto, rowVars, WorkerTypeOK, Working
<1>3. CASE Progress(w)
  BY <1>1, <1>3 DEF Progress, Goto, WorkerTypeOK, Working
<1>4. CASE Finish(w)
  <2>1. CASE Owns(w)
    BY <1>0, <1>4, <2>1 DEF Finish, SucceedRow, RunTypeOK, Active
  <2>2. CASE ~Owns(w)
    BY <1>1, <1>4, <2>2 DEF Finish, Leave, Goto, rowVars, WorkerTypeOK, Working
  <2>. QED BY <2>1, <2>2
<1>5. CASE Raises(w)
  BY <1>1, <1>5 DEF Raises, Leave, Goto, rowVars, WorkerTypeOK, Working
<1>6. ASSUME Strand(run[w])
      PROVE  TendedRun(r)'
  BY <1>6 DEF Strand, TendedRun
<1>7. CASE Retry(w)
  <2>1. CASE Returns(w, Put(ready, <<run[w], retries[w] + 1>>))
    <3>1. <<run[w], retries[w] + 1>> \in Messages
      BY <1>0, <1>7 DEF Retry, WorkerTypeOK
    <3>2. Queued(r)'
      <4>. DEFINE n == <<run[w], retries[w] + 1>>
      <4>. DEFINE q == Put(ready, n)
      <4>1. q \in [Messages -> Nat] /\ q[n] > 0
        BY <3>1, PutCounts DEF QueueTypeOK
      <4>2. ready' = q \/ ready' = Put(q, Message(w))
        BY <2>1 DEF Returns, Acknowledged, Unacknowledged
      <4>3. Put(q, Message(w)) \in [Messages -> Nat] /\ Put(q, Message(w))[n] >= q[n]
        BY <3>1, <4>1, PutCounts
      <4>4. ready'[n] > 0 /\ n \in Messages /\ n[1] = r
        <5>. n \in Messages /\ n[1] = r
          BY <3>1
        <5>. HIDE DEF q, n
        <5>. QED BY <4>1, <4>2, <4>3
      <4>. QED BY <4>4 DEF Queued
    <3>. QED BY <3>2 DEF TendedRun
  <2>. QED BY <1>6, <1>7, <2>1 DEF Retry
<1>8. CASE Exhausted(w)
  BY <1>1, <1>8 DEF Exhausted, Next1, Goto, rowVars, WorkerTypeOK
<1>9. CASE Fail(w)
  <2>1. CASE Strand(run[w])
    BY <1>6, <2>1
  <2>2. CASE ~Strand(run[w])
    <3>1. FailsOwn(w)
      BY <1>9, <2>2 DEF Fail, Tends, Working
    <3>2. status'[r] = "FAILED"
      BY <1>0, <1>9, <2>2, <3>1 DEF Fail, RunTypeOK
    <3>. QED BY <3>2 DEF Active
  <2>. QED BY <2>1, <2>2
<1>10. CASE WorkerLost(w)
  <2>1. Message(w) \in Messages /\ Message(w)[1] = run[w]
    BY <1>0, BusyWorker DEF Message
  <2>2. Queued(r)'
    BY <1>10, <2>1, PutQueues DEF WorkerLost
  <2>. QED BY <2>2 DEF TendedRun
<1>11. CASE HardTimeout(w)
  BY <1>6, <1>11 DEF HardTimeout
<1>. QED BY <1>2, <1>3, <1>4, <1>5, <1>7, <1>8, <1>9, <1>10, <1>11 DEF WorkerStep

\* Whoever takes a message of an active run tends it.
LEMMA DeliveryTends ==
  ASSUME LabellingTypeOK, NEW w \in Workers, NEW m \in Messages, Deliver(w, m) \/ DeliverFails(w, m),
         status[m[1]] \in Active
  PROVE  TendedRun(m[1])'
<1>. RunTypeOK /\ m[1] \in Runs
  BY DEF LabellingTypeOK
<1>1. run'[w] = m[1] /\ wpc'[w] \in {"write", "retry"}
  BY DeliveryStarts
<1>2. CASE mine'[w] \in {NoGeneration, Undone} /\ wpc'[w] = "retry"
  BY <1>1, <1>2 DEF Tends, TendedRun
<1>3. CASE /\ mine'[w] = generation[m[1]] + 1 /\ generation'[m[1]] = generation[m[1]] + 1
           /\ status'[m[1]] = "RUNNING"
  <2>0. generation[m[1]] \in Nat
    BY DEF RunTypeOK
  <2>1. mine'[w] # NoGeneration
    BY <1>3, <2>0 DEF NoGeneration
  <2>2. FailsOwn(w)'
    BY <1>1, <1>3, <2>1 DEF FailsOwn, Active
  <2>. QED BY <1>1, <2>2 DEF Tends, TendedRun, Working
<1>. QED BY <1>2, <1>3, DeliveryStarts

\* An announcement becomes a message or is overtaken by one; a message goes to a worker.
LEMMA AnnouncedStep ==
  ASSUME LabellingTypeOK, Next, NEW r \in Runs, Announced(r), status'[r] = "PENDING"
  PROVE  TendedRun(r)'
<1>. QueueTypeOK /\ RunTypeOK
  BY DEF LabellingTypeOK
<1>1. CASE event'[r] = "pending"
  BY <1>1 DEF TendedRun, Announced
<1>2. CASE Publish
  <2>1. PICK q \in Runs :
          /\ ready' = IF status[q] = "PENDING" THEN Put(ready, <<q, 0>>) ELSE ready
          /\ event' = [event EXCEPT ![q] = "published"] \/ UNCHANGED event
    BY <1>2 DEF Publish
  <2>2. CASE q = r
    <3>1. <<r, 0>> \in Messages /\ ready' = Put(ready, <<r, 0>>)
      BY <2>1, <2>2 DEF Announced
    <3>2. Queued(r)'
      BY <3>1, PutQueues
    <3>. QED BY <3>2 DEF TendedRun
  <2>3. CASE q # r
    BY <1>1, <2>1, <2>3 DEF Announced, QueueTypeOK
  <2>. QED BY <2>2, <2>3
<1>3. ASSUME Edit \/ (\E w \in Workers, m \in Messages : Deliver(w, m) \/ DeliverFails(w, m))
             \/ \E w \in Workers : \/ WorkerStep(w) \/ Raises(w) \/ WorkerLost(w)
                                   \/ Redelivered(w) \/ HardTimeout(w)
      PROVE  UNCHANGED event
  BY <1>3, WorkerPuts DEF Edit, Deliver, DeliverFails, labellingVars, queueVars
<1>4. CASE Start
  BY <1>1, <1>4 DEF Start, Announced, QueueTypeOK
<1>. QED BY <1>1, <1>2, <1>3, <1>4 DEF Next, Announced

LEMMA QueuedStep ==
  ASSUME LabellingTypeOK, Next, NEW r \in Runs, Queued(r), status[r] \in Active
  PROVE  TendedRun(r)'
<1>. QueueTypeOK /\ WorkerTypeOK
  BY DEF LabellingTypeOK
<1>1. PICK m \in Messages : m[1] = r /\ ready[m] > 0
  BY DEF Queued
<1>2. ASSUME ready'[m] > 0
      PROVE  TendedRun(r)'
  BY <1>1, <1>2 DEF TendedRun, Queued
<1>3. ASSUME NEW w \in Workers, NEW n \in Messages, Deliver(w, n) \/ DeliverFails(w, n)
      PROVE  TendedRun(r)'
  <2>1. CASE n = m
    BY <1>1, <1>3, <2>1, DeliveryTends
  <2>2. CASE n # m
    <3>1. ready'[m] = ready[m]
      BY <1>3, <2>2 DEF Deliver, DeliverFails, Begin, Take, QueueTypeOK
    <3>. QED BY <1>1, <1>2, <3>1
  <2>. QED BY <2>1, <2>2
<1>4. ASSUME NEW n, ready' = Put(ready, n)
      PROVE  ready'[m] > 0
  BY <1>1, <1>4 DEF Put, QueueTypeOK
<1>5. CASE Publish
  BY <1>1, <1>2, <1>4, <1>5 DEF Publish
<1>6. ASSUME NEW w \in Workers,
             WorkerStep(w) \/ Raises(w) \/ WorkerLost(w) \/ Redelivered(w) \/ HardTimeout(w)
      PROVE  TendedRun(r)'
  <2>1. ready'[m] >= ready[m] /\ ready'[m] \in Nat /\ ready[m] \in Nat
    BY <1>6, WorkerPuts DEF QueueTypeOK
  <2>. QED BY <1>1, <1>2, <2>1
<1>7. ASSUME Edit \/ Start
      PROVE  UNCHANGED ready
  BY <1>7 DEF Edit, Start, labellingVars, queueVars
<1>. QED BY <1>1, <1>2, <1>3, <1>5, <1>6, <1>7 DEF Next

LEMMA TendedStep ==
  ASSUME TableTypeOK, LabellingTypeOK, TendedInv, Next
  PROVE  TendedInv'
<1>. RunTypeOK /\ QueueTypeOK /\ WorkerTypeOK
  BY DEF LabellingTypeOK
<1>. SUFFICES ASSUME NEW r \in Runs, status'[r] \in Active
              PROVE  TendedRun(r)'
  BY DEF TendedInv, TendedRun
<1>1. CASE status[r] \notin Active
  <2>1. Started(r)
    BY <1>1, RunChanges DEF RunChange, Kept, Claimed, Furthered, Succeeded, Failed, Owns, Active
  <2>. QED BY <2>1 DEF Started, TendedRun, Announced
<1>2. CASE status[r] \in Active
  <2>0. ASSUME NEW v \in Workers, Claimed(r, v)
        PROVE  TendedRun(r)'
    <3>1. run'[v] = r /\ Tends(v)'
      <4>1. run'[v] = r /\ wpc'[v] \in {"write", "retry"}
        BY <2>0 DEF Claimed
      <4>0. generation[r] \in Nat
        BY DEF RunTypeOK
      <4>2. status'[r] = "RUNNING" /\ mine'[v] = generation'[r] /\ mine'[v] # NoGeneration
        BY <2>0, <4>0 DEF Claimed, NoGeneration
      <4>3. FailsOwn(v)'
        BY <4>1, <4>2 DEF FailsOwn, Active
      <4>. QED BY <4>1, <4>3 DEF Tends, Working
    <3>. QED BY <3>1 DEF TendedRun
  <2>1. CASE r \in dropped
    BY <2>1, OtherTypes DEF TendedRun
  <2>2. CASE Announced(r)
    <3>1. status'[r] = "PENDING" \/ \E v \in Workers : Claimed(r, v)
      BY <1>2, <2>2, RunChanges DEF Announced, RunChange, Kept, Started, Furthered, Succeeded, Failed,
        Owns, Active
    <3>. QED BY <2>0, <2>2, <3>1, AnnouncedStep
  <2>3. CASE Queued(r)
    BY <1>2, <2>3, QueuedStep
  <2>4. ASSUME NEW w \in Workers, run[w] = r, Tends(w)
        PROVE  TendedRun(r)'
    <3>1. CASE WorkerStep(w) \/ Raises(w) \/ WorkerLost(w) \/ HardTimeout(w)
      BY <1>2, <2>4, <3>1, TendsOn
    <3>2. CASE wpc'[w] = wpc[w] /\ run'[w] = run[w] /\ retries'[w] = retries[w] /\ mine'[w] = mine[w]
      <4>1. CASE status'[r] = status[r] /\ generation'[r] = generation[r]
        <5>1. Tends(w)'
          BY <2>4, <3>2, <4>1 DEF Tends, FailsOwn
        <5>. QED BY <2>4, <3>2, <5>1 DEF TendedRun
      <4>2. CASE ~(status'[r] = status[r] /\ generation'[r] = generation[r])
        <5>1. \E v \in Workers : Claimed(r, v)
          BY <1>2, <4>2, RunChanges DEF RunChange, Kept, Started, Furthered, Succeeded, Failed, Owns,
            Active
        <5>. QED BY <2>0, <5>1
      <4>. QED BY <4>1, <4>2
    <3>3. ASSUME NEW m \in Messages, Deliver(w, m) \/ DeliverFails(w, m)
          PROVE  FALSE
      BY <2>4, <3>3 DEF Deliver, DeliverFails, Tends, Working
    <3>. QED BY <3>1, <3>2, <3>3, OwnSteps
  <2>. QED BY <1>2, <2>1, <2>2, <2>3, <2>4 DEF TendedInv
<1>. QED BY <1>1, <1>2

-----------------------------------------------------------------------------
(* The theorems *)

LEMMA InitInv == Init => IInv
<1>. SUFFICES ASSUME Init
              PROVE  IInv
  OBVIOUS
<1>1. TableInv
  BY TableInitInv DEF Init
<1>2. OneWriterPerImage
  BY DEF Init, TableInit, OneWriterPerImage
<1>3. StartedInv /\ TendedInv
  BY DEF Init, StartedInv, TendedInv, Active
<1>. QED BY <1>1, <1>2, <1>3, InitTypes DEF IInv

LEMMA StutterInv ==
  ASSUME IInv, UNCHANGED allVars
  PROVE  IInv'
<1>. USE DEF allVars, labellingVars, rowVars, queueVars, workerVars
<1>1. TableInv'
  BY TablesStay DEF IInv
<1>2. OneWriterPerImage'
  BY DEF IInv, OneWriterPerImage, tableVars, Indexes
<1>3. LabellingTypeOK'
  BY DEF IInv, LabellingTypeOK, RunTypeOK, QueueTypeOK, WorkerTypeOK
<1>4. StartedInv'
  BY DEF IInv, StartedInv
<1>5. TendedInv'
  BY DEF IInv, TendedInv, Announced, Queued, Tends, FailsOwn
<1>. QED BY <1>1, <1>2, <1>3, <1>4, <1>5 DEF IInv

LEMMA StepInv ==
  ASSUME IInv, Next
  PROVE  IInv'
<1>1. TableTypeOK
  BY DEF IInv, TableInv
<1>. QED BY <1>1, TableSteps, LabellingTypes, StartedStep, TendedStep DEF IInv

\* The inductive invariant holds throughout, whatever is edited, started and goes wrong.
THEOREM SpecIInv == Spec => []IInv
<1>1. Init => IInv
  BY InitInv
<1>2. IInv /\ [Next]_allVars => IInv'
  BY StepInv, StutterInv
<1>. QED BY <1>1, <1>2, PTL DEF Spec

\* The tables keep their constraints and the limit of boxes while people, the brand and a
\* labelling write them; and a run's progress stays within its targets.
THEOREM SpecTypeOK == Spec => []TypeOK
<1>1. IInv => TypeOK
  BY DEF IInv, TableInv, TypeOK
<1>. QED BY <1>1, SpecIInv, PTL

\* Attempts that supersede each other, later runs and people never mix their boxes in an
\* image.
THEOREM SpecOneWriterPerImage == Spec => []OneWriterPerImage
<1>1. IInv => OneWriterPerImage
  BY DEF IInv
<1>. QED BY <1>1, SpecIInv, PTL

\* An active run has an event, a message or a worker that will act on it, unless a named
\* fault has dropped it.
THEOREM SpecNoLabellingStranded == Spec => []NoLabellingStranded
<1>1. ASSUME IInv
      PROVE  NoLabellingStranded
  <2>1. \A r \in Runs : Announced(r) \/ Queued(r) => Tended(r)
    BY DEF Announced, Queued, Tended
  <2>2. \A w \in Workers, r \in Runs : run[w] = r /\ Tends(w) => Tended(r)
    BY DEF Tends, Tended
  <2>. QED BY <1>1, <2>1, <2>2 DEF IInv, TendedInv, NoLabellingStranded
<1>. QED BY <1>1, SpecIInv, PTL

\* A run's progress never goes back; a run that has ended stays as it is, and labels
\* nothing any more.
THEOREM SpecEndedRunsRest == Spec => EndedRunsRest
<1>. DEFINE Rests ==
       \A r \in Runs :
         /\ processed'[r] >= processed[r]
         /\ status[r] \in {"SUCCEEDED", "FAILED"} =>
              /\ status'[r] = status[r] /\ processed'[r] = processed[r]
              /\ \A i \in Indexes : \A b \in boxes'[i] \ boxes[i] : b[3] # r
<1>1. ASSUME IInv, Next
      PROVE  Rests
  <2>. SUFFICES ASSUME NEW r \in Runs
                PROVE  /\ processed'[r] >= processed[r]
                       /\ status[r] \in {"SUCCEEDED", "FAILED"} =>
                            /\ status'[r] = status[r] /\ processed'[r] = processed[r]
                            /\ \A i \in Indexes : \A b \in boxes'[i] \ boxes[i] : b[3] # r
    OBVIOUS
  <2>. /\ TableInv /\ TableTypeOK /\ LabellingTypeOK
       /\ RunTypeOK /\ QueueTypeOK /\ WorkerTypeOK
    BY <1>1 DEF IInv, TableInv, LabellingTypeOK
  <2>0. processed[r] \in Nat
    BY DEF RunTypeOK
  <2>1. processed'[r] >= processed[r]
    <3>1. ASSUME NEW w \in Workers, Furthered(r, w) \/ Succeeded(r, w)
          PROVE  processed'[r] >= processed[r]
      <4>1. wpc[w] \in Working /\ run[w] = r
        BY <3>1 DEF Furthered, Succeeded, Working
      <4>2. processed[r] <= Len(targets[r]) /\ Len(targets[r]) \in Nat
        BY TargetCount DEF RunTypeOK
      <4>. QED BY <2>0, <3>1, <4>1, <4>2, FurtherWithin DEF Furthered, Succeeded
    <3>. QED BY <1>1, <2>0, <3>1, RunChanges DEF RunChange, Kept, Started, Claimed, Failed
  <2>2. ASSUME status[r] \in {"SUCCEEDED", "FAILED"}
        PROVE  status'[r] = status[r] /\ processed'[r] = processed[r]
    BY <1>1, <2>2, RunChanges DEF RunChange, Kept, Started, Claimed, Furthered, Succeeded, Failed,
      Owns, FailsOwn, Active
  <2>3. ASSUME status[r] \in {"SUCCEEDED", "FAILED"}, NEW i \in Indexes,
               NEW b \in boxes'[i] \ boxes[i]
        PROVE  b[3] # r
    <3>1. ASSUME NEW j \in DOMAIN images, NEW cs, NEW done, CommitSave(j, cs, done)
          PROVE  b[3] = Drawn
      BY <2>3, <3>1, IndexesOfImages DEF CommitSave, SavedBoxes, TableTypeOK
    <3>2. ASSUME NEW w \in Workers, Fills(w), run[w] \in Runs, CommitPredictions(Target(w), run[w])
          PROVE  b[3] = run[w] /\ status[run[w]] = "RUNNING"
      <4>1. Unlabelled(Target(w)) /\ status[run[w]] = "RUNNING"
        BY <3>2 DEF Fills, Owns
      <4>2. Target(w) \in Indexes /\ boxes[Target(w)] = {} /\ run[w] \in Nat
        BY <3>2, <4>1, IndexesOfImages DEF Unlabelled
      <4>3. PICK cs \in SUBSET Present :
              boxes' = [boxes EXCEPT ![Target(w)] = cs \X {revision + 1} \X {run[w]}]
        BY <3>2, <4>2, PredictionRows
      <4>4. b \in cs \X {revision + 1} \X {run[w]}
        BY <2>3, <4>2, <4>3 DEF TableTypeOK
      <4>. QED BY <4>1, <4>4
    <3>3. ASSUME NEW c, CommitDelete(c)
          PROVE  FALSE
      BY <2>3, <3>3 DEF CommitDelete
    <3>4. ASSUME NEW missing, NEW index, CommitAttach(missing, index)
          PROVE  FALSE
      BY <2>3, <3>4 DEF CommitAttach
    <3>5. CASE UNCHANGED tableVars
      BY <2>3, <3>5 DEF tableVars
    <3>. QED BY <1>1, <2>3, <3>1, <3>2, <3>3, <3>4, <3>5, Writers DEF Drawn
  <2>. QED BY <2>1, <2>2, <2>3
<1>2. IInv /\ UNCHANGED allVars => [Rests]_allVars
  OBVIOUS
<1>3. IInv /\ [Next]_allVars => [Rests]_allVars
  BY <1>1, <1>2
<1>. QED BY <1>3, SpecIInv, PTL DEF Spec, EndedRunsRest

=============================================================================
