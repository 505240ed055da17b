------------------------- MODULE JobSubmissionProofs -------------------------
(* Theorems of JobSubmission, for every value of its constants. *)
EXTENDS JobSubmission, FiniteSetTheorems, TLAPS

USE SubmissionAssumption

-----------------------------------------------------------------------------
(* The inductive invariant *)

\* Where a submission may be that has inserted its row.
Inserted == {"created", "undo", "error", "crashed"}

\* The job of a key was created by a submission of that key, and unless its commit
\* raised that submission has been answered with it.
JobInv ==
  \A k \in Keys : job[k] # None =>
    /\ key[job[k]] = k
    /\ pc[job[k]] \in Inserted
    /\ job[k] \notin unsure => pc[job[k]] = "created"
    /\ pc[job[k]] = "undo" => reason[job[k]] = "error"

\* What a submission knows of its key is still so when it uses it.
KnowsInv ==
  \A s \in Submissions :
    /\ existing[s] # None => key[s] \in Keys /\ job[key[s]] = existing[s]
    /\ pc[s] = "lookup" => job[key[s]] # None
    /\ pc[s] = "undo" => reason[s] # "none"
    /\ pc[s] = "undo" /\ reason[s] = "existing" => existing[s] # None
    /\ pc[s] = "undo" /\ reason[s] = "duplicate" => job[key[s]] # None

\* Until it has inserted its row, or given up, a submission has removed nothing.
Intact == {"new", "find", "upload", "insert", "created"}
\* A submission about to insert has uploaded its whole source and removed none of it.
SourceInv ==
  \A s \in Submissions :
    /\ pc[s] \in Intact => Uploaded(s) \subseteq objects
    /\ pc[s] \in {"insert", "created"} => sent[s] = SizeOf(key[s])

IInv == TypeOK /\ JobInv /\ KnowsInv /\ SourceInv /\ AnswersAgree

-----------------------------------------------------------------------------
(* Type correctness *)

\* What a step changes in the record of one submission.
LEMMA GotoType ==
  ASSUME TypeOK, NEW s \in Submissions,
         NEW p \in SubmissionPC \ {"new", "created", "found"},
         pc[s] \notin {"new", "created", "found"}, Goto(s, p), UNCHANGED key
  PROVE  /\ pc' \in [Submissions -> SubmissionPC]
         /\ answer' \in [Submissions -> Submissions \cup {None}]
         /\ \A q \in Submissions : /\ pc'[q] = "new" <=> key'[q] = None
                                   /\ answer'[q] # None <=> pc'[q] \in {"created", "found"}
BY DEF TypeOK, Goto

LEMMA ResolveType ==
  ASSUME TypeOK, NEW s \in Submissions, NEW j \in Submissions,
         pc[s] \notin {"new", "created", "found"}, Resolve(s, j), UNCHANGED key
  PROVE  /\ pc' \in [Submissions -> SubmissionPC]
         /\ answer' \in [Submissions -> Submissions \cup {None}]
         /\ \A q \in Submissions : /\ pc'[q] = "new" <=> key'[q] = None
                                   /\ answer'[q] # None <=> pc'[q] \in {"created", "found"}
<1>1. CASE Matches(s, j)
  BY <1>1 DEF TypeOK, Resolve, SubmissionPC
<1>2. CASE ~Matches(s, j)
  BY <1>2, GotoType DEF Resolve, SubmissionPC
<1>. QED BY <1>1, <1>2

LEMMA BudgetType ==
  ASSUME budget \in Nat, NEW f, Calm \/ Spend(f)
  PROVE  budget' \in Nat
BY DEF Calm, Spend

\* A submission past its first step has a key.
LEMMA HasKey ==
  ASSUME TypeOK, NEW s \in Submissions, pc[s] # "new"
  PROVE  key[s] \in Keys /\ payload[s] \in Payloads \cup {None}
BY DEF TypeOK

\* What the removal of an upload leads to.
LEMMA AfterUndoType ==
  ASSUME TypeOK, KnowsInv, NEW s \in Submissions, pc[s] = "undo", AfterUndo(s), UNCHANGED key
  PROVE  /\ pc' \in [Submissions -> SubmissionPC]
         /\ answer' \in [Submissions -> Submissions \cup {None}]
         /\ \A q \in Submissions : /\ pc'[q] = "new" <=> key'[q] = None
                                   /\ answer'[q] # None <=> pc'[q] \in {"created", "found"}
<1>1. CASE reason[s] = "existing"
  <2>1. existing[s] \in Submissions
    BY <1>1 DEF KnowsInv, TypeOK
  <2>2. Resolve(s, existing[s])
    BY <1>1 DEF AfterUndo
  <2>. QED BY <2>1, <2>2, ResolveType
<1>2. CASE reason[s] = "duplicate"
  <2>1. Goto(s, "lookup")
    BY <1>2 DEF AfterUndo
  <2>. QED BY <2>1, GotoType DEF SubmissionPC
<1>3. CASE reason[s] = "error"
  <2>1. Goto(s, "error")
    BY <1>3 DEF AfterUndo
  <2>. QED BY <2>1, GotoType DEF SubmissionPC
<1>. QED BY <1>1, <1>2, <1>3 DEF KnowsInv, TypeOK

\* Type correctness is preserved, given what submissions know of their keys.
LEMMA TypeStep ==
  ASSUME TypeOK, KnowsInv, Next
  PROVE  TypeOK'
<1>. SUFFICES ASSUME NEW s \in Submissions,
                     \/ Submit(s) \/ Find(s)
                     \/ UploadFile(s) \/ UploadDone(s) \/ UploadRefused(s) \/ UploadFails(s)
                     \/ Insert(s) \/ InsertFails(s) \/ Undo(s) \/ LookUp(s) \/ Crash(s)
              PROVE  TypeOK'
  BY DEF Next
<1>1. CASE Submit(s)
  <2>1. PICK k \in Keys, p \in Payloads :
          key' = [key EXCEPT ![s] = k] /\ payload' = [payload EXCEPT ![s] = p]
    BY <1>1 DEF Submit
  <2>2. \A q \in Keys : 0 <= SizeOf(q)
    BY DEF SizeOf
  <2>. QED BY <1>1, <2>1, <2>2 DEF Submit, TypeOK, Goto, Calm, SubmissionPC
<1>2. CASE Find(s)
  <2>1. key[s] \in Keys /\ job[key[s]] \in Submissions \cup {None}
    BY <1>2, HasKey DEF Find, TypeOK
  <2>2. CASE job[key[s]] # None /\ key[s] \notin DatasetKeys
    <3>1. Resolve(s, job[key[s]]) /\ UNCHANGED <<existing, key>> /\ pc[s] = "find"
      BY <1>2, <2>2 DEF Find
    <3>. QED BY <1>2, <2>1, <2>2, <3>1, ResolveType, BudgetType DEF Find, TypeOK
  <2>3. CASE ~(job[key[s]] # None /\ key[s] \notin DatasetKeys)
    <3>1. existing' \in [Submissions -> Submissions \cup {None}]
      BY <1>2, <2>1, <2>3 DEF Find, TypeOK
    <3>2. Goto(s, IF key[s] \in UrlKeys THEN "insert" ELSE "upload") /\ UNCHANGED key
      BY <1>2, <2>3 DEF Find
    <3>. QED BY <1>2, <3>1, <3>2, GotoType, BudgetType DEF Find, TypeOK, SubmissionPC
  <2>. QED BY <2>2, <2>3
<1>3. CASE UploadFile(s)
  <2>1. /\ NextFile(s) \in 1..DatasetSize
        /\ NextFile(s) <= SizeOf(key[s])
    BY <1>3 DEF UploadFile, NextFile, SizeOf, TypeOK
  <2>. QED BY <1>3, <2>1 DEF UploadFile, TypeOK, Calm
<1>4. CASE UploadDone(s)
  <2>1. /\ pc[s] = "upload" /\ UNCHANGED key
        /\ \/ Goto(s, "insert") /\ UNCHANGED reason
           \/ Goto(s, "undo") /\ reason' = [reason EXCEPT ![s] = "existing"]
    BY <1>4 DEF UploadDone
  <2>2. reason' \in [Submissions -> {"none", "existing", "duplicate", "error"}]
    BY <2>1 DEF TypeOK
  <2>. QED BY <1>4, <2>1, <2>2, GotoType, BudgetType DEF UploadDone, TypeOK, SubmissionPC
<1>5. ASSUME GiveUpUpload(s), pc[s] = "upload", UNCHANGED <<job, key, payload, existing, sent, unsure>>,
             budget' \in Nat, objects' \subseteq Submissions \X (1..DatasetSize)
      PROVE  TypeOK'
  <2>1. \/ Goto(s, "undo") /\ reason' = [reason EXCEPT ![s] = "error"]
        \/ Goto(s, "error") /\ UNCHANGED reason
    BY <1>5 DEF GiveUpUpload
  <2>2. reason' \in [Submissions -> {"none", "existing", "duplicate", "error"}]
    BY <2>1 DEF TypeOK
  <2>. QED BY <1>5, <2>1, <2>2, GotoType DEF TypeOK, SubmissionPC
<1>6. CASE UploadRefused(s)
  BY <1>5, <1>6, BudgetType DEF UploadRefused, TypeOK
<1>7. CASE UploadFails(s)
  <2>1. NextFile(s) \in 1..DatasetSize
    BY <1>7 DEF UploadFails, NextFile, SizeOf, TypeOK
  <2>. QED BY <1>5, <1>7, <2>1, BudgetType DEF UploadFails, TypeOK
<1>8. ASSUME NEW why \in {"duplicate", "error"}, GiveUp(s, why), pc[s] = "insert", UNCHANGED key
      PROVE  /\ reason' \in [Submissions -> {"none", "existing", "duplicate", "error"}]
             /\ pc' \in [Submissions -> SubmissionPC]
             /\ answer' \in [Submissions -> Submissions \cup {None}]
             /\ \A q \in Submissions :
                  /\ pc'[q] = "new" <=> key'[q] = None
                  /\ answer'[q] # None <=> pc'[q] \in {"created", "found"}
  BY <1>8, GotoType DEF GiveUp, TypeOK, SubmissionPC
<1>9. CASE Insert(s)
  <2>1. CASE MayInsert(s)
    BY <1>9, <2>1, HasKey DEF Insert, TypeOK, Calm, SubmissionPC, MayInsert
  <2>2. CASE ~MayInsert(s)
    BY <1>9, <2>2, <1>8, BudgetType DEF Insert, TypeOK
  <2>. QED BY <2>1, <2>2
<1>10. CASE InsertFails(s)
  <2>1. budget' \in Nat /\ job' \in [Keys -> Submissions \cup {None}] /\ unsure' \subseteq Submissions
    BY <1>10, BudgetType, HasKey DEF InsertFails, TypeOK
  <2>. QED BY <1>10, <2>1, <1>8 DEF InsertFails, TypeOK
<1>11. CASE Undo(s)
  <2>1. budget' \in Nat /\ objects' \subseteq Submissions \X (1..DatasetSize)
    BY <1>11, BudgetType DEF Undo, TypeOK
  <2>2. pc[s] = "undo" /\ UNCHANGED key /\ (AfterUndo(s) \/ Goto(s, "error"))
    BY <1>11 DEF Undo
  <2>. QED BY <1>11, <2>1, <2>2, AfterUndoType, GotoType DEF Undo, TypeOK, SubmissionPC
<1>12. CASE LookUp(s)
  <2>1. job[key[s]] \in Submissions
    BY <1>12, HasKey DEF LookUp, KnowsInv, TypeOK
  <2>. QED BY <1>12, <2>1, ResolveType, GotoType, BudgetType DEF LookUp, TypeOK, SubmissionPC
<1>13. CASE Crash(s)
  BY <1>13, GotoType, BudgetType DEF Crash, TypeOK, SubmissionPC, Over
<1>. QED BY <1>1, <1>2, <1>3, <1>4, <1>6, <1>7, <1>9, <1>10, <1>11, <1>12, <1>13

-----------------------------------------------------------------------------
(* What every step does to the others' knowledge *)

\* The steps of a submission that has been called.
Step(s) ==
  \/ Find(s) \/ UploadFile(s) \/ UploadDone(s) \/ UploadRefused(s) \/ UploadFails(s)
  \/ Insert(s) \/ InsertFails(s) \/ Undo(s) \/ LookUp(s) \/ Crash(s)

\* A job that exists stays the job of its key, and a submission keeps what it was called
\* with.
LEMMA StepKeepsJobs ==
  ASSUME TypeOK, NEW s \in Submissions, Step(s)
  PROVE  /\ pc[s] \notin {"new", "created", "found", "conflict", "error", "crashed"}
         /\ UNCHANGED <<key, payload>>
         /\ unsure \subseteq unsure'
         /\ \A k \in Keys : job'[k] # job[k] => /\ pc[s] = "insert" /\ k = key[s]
                                                /\ job[k] = None /\ job'[k] = s
  BY HasKey DEF TypeOK, Step, Find, UploadFile, UploadDone, UploadRefused, UploadFails, Insert,
                InsertFails, MayInsert, Undo, LookUp, Crash, Over

\* The ways on from an upload that has been removed.
LEMMA AfterUndoMoves ==
  ASSUME TypeOK, KnowsInv, NEW s \in Submissions, pc[s] = "undo", AfterUndo(s)
  PROVE  \/ reason[s] = "existing" /\ Resolve(s, existing[s])
         \/ reason[s] = "duplicate" /\ Goto(s, "lookup")
         \/ reason[s] = "error" /\ Goto(s, "error")
<1>1. reason[s] \in {"existing", "duplicate", "error"}
  BY DEF TypeOK, KnowsInv
<1>. QED BY <1>1 DEF AfterUndo

\* A step moves one submission only, and touches the source of that one only.
LEMMA StepMovesOne ==
  ASSUME TypeOK, KnowsInv, NEW s \in Submissions, Step(s),
         NEW q \in Submissions, q # s
  PROVE  /\ pc'[q] = pc[q] /\ answer'[q] = answer[q] /\ existing'[q] = existing[q]
         /\ reason'[q] = reason[q] /\ sent'[q] = sent[q]
         /\ q \in unsure' <=> q \in unsure
         /\ \A i \in 1..DatasetSize : <<q, i>> \in objects' <=> <<q, i>> \in objects
<1>1. ASSUME NEW j, Resolve(s, j)
      PROVE  pc'[q] = pc[q] /\ answer'[q] = answer[q]
  BY <1>1 DEF Resolve, Goto, TypeOK
<1>2. ASSUME NEW p, Goto(s, p)
      PROVE  pc'[q] = pc[q] /\ answer'[q] = answer[q]
  BY <1>2 DEF Goto, TypeOK
<1>3. CASE Find(s)
  BY <1>1, <1>2, <1>3 DEF Find, TypeOK
<1>4. CASE UploadFile(s)
  BY <1>4 DEF UploadFile, TypeOK
<1>5. CASE UploadDone(s)
  BY <1>2, <1>5 DEF UploadDone, TypeOK
<1>6. CASE UploadRefused(s)
  BY <1>2, <1>6 DEF UploadRefused, GiveUpUpload, TypeOK
<1>7. CASE UploadFails(s)
  BY <1>2, <1>7 DEF UploadFails, GiveUpUpload, TypeOK
<1>8. CASE Insert(s)
  BY <1>2, <1>8 DEF Insert, GiveUp, TypeOK
<1>9. CASE InsertFails(s)
  BY <1>2, <1>9 DEF InsertFails, GiveUp, TypeOK
<1>10. CASE Undo(s)
  <2>1. \A i \in 1..DatasetSize : <<q, i>> \in objects' <=> <<q, i>> \in objects
    BY <1>10 DEF Undo, UndoneBy, Uploaded
  <2>2. AfterUndo(s) \/ Goto(s, "error")
    BY <1>10 DEF Undo
  <2>. QED BY <1>1, <1>2, <1>10, <2>1, <2>2, AfterUndoMoves DEF Undo
<1>11. CASE LookUp(s)
  BY <1>1, <1>2, <1>11 DEF LookUp
<1>12. CASE Crash(s)
  BY <1>2, <1>12 DEF Crash
<1>. QED BY <1>3, <1>4, <1>5, <1>6, <1>7, <1>8, <1>9, <1>10, <1>11, <1>12 DEF Step

-----------------------------------------------------------------------------
(* The invariant is preserved *)

\* The insertion settles where its submission is.
LEMMA InsertMoves ==
  ASSUME TypeOK, NEW s \in Submissions, Insert(s) \/ InsertFails(s), job'[key[s]] # job[key[s]]
  PROVE  /\ pc'[s] \in Inserted
         /\ s \notin unsure' => pc'[s] = "created"
         /\ pc'[s] = "undo" => reason'[s] = "error"
<1>1. CASE Insert(s)
  BY <1>1 DEF Insert, TypeOK, Inserted
<1>2. CASE InsertFails(s)
  BY <1>2 DEF InsertFails, GiveUp, Goto, TypeOK, Inserted
<1>. QED BY <1>1, <1>2

LEMMA JobStep ==
  ASSUME TypeOK, JobInv, KnowsInv, NEW s \in Submissions, Step(s)
  PROVE  JobInv'
<1>. SUFFICES ASSUME NEW k \in Keys, job'[k] # None
              PROVE  /\ key'[job'[k]] = k
                     /\ pc'[job'[k]] \in Inserted
                     /\ job'[k] \notin unsure' => pc'[job'[k]] = "created"
                     /\ pc'[job'[k]] = "undo" => reason'[job'[k]] = "error"
  BY DEF JobInv
<1>1. CASE job'[k] # job[k]
  <2>1. pc[s] = "insert" /\ k = key[s] /\ job'[k] = s /\ key'[s] = k
    BY <1>1, StepKeepsJobs
  <2>2. Insert(s) \/ InsertFails(s) \/ Crash(s)
    BY <2>1 DEF Step, Find, UploadFile, UploadDone, UploadRefused, UploadFails, Undo, LookUp
  <2>3. ~Crash(s)
    BY <1>1 DEF Crash
  <2>. QED BY <1>1, <2>1, <2>2, <2>3, InsertMoves
<1>2. CASE job'[k] = job[k] /\ job[k] # s
  <2>1. job[k] \in Submissions
    BY <1>2 DEF TypeOK
  <2>. QED BY <1>2, <2>1, StepMovesOne, StepKeepsJobs DEF JobInv
<1>3. CASE job'[k] = job[k] /\ job[k] = s
  <2>1. /\ pc[s] = "undo" /\ reason[s] = "error" /\ s \in unsure /\ s \in unsure'
        /\ key'[s] = k
    BY <1>3, StepKeepsJobs DEF JobInv, Inserted
  <2>2. Undo(s) \/ Crash(s)
    BY <2>1 DEF Step, Find, UploadFile, UploadDone, UploadRefused, UploadFails, Insert,
                InsertFails, LookUp
  <2>3. Goto(s, "error") \/ Goto(s, "crashed")
    BY <2>1, <2>2, AfterUndoMoves DEF Undo, Crash
  <2>4. pc'[s] \in {"error", "crashed"}
    BY <2>3 DEF Goto, TypeOK
  <2>. QED BY <1>3, <2>1, <2>4 DEF Inserted
<1>. QED BY <1>1, <1>2, <1>3

LEMMA KnowsStep ==
  ASSUME TypeOK, KnowsInv, NEW s \in Submissions, Step(s)
  PROVE  KnowsInv'
<1>. SUFFICES ASSUME NEW q \in Submissions
              PROVE  /\ existing'[q] # None => key'[q] \in Keys /\ job'[key'[q]] = existing'[q]
                     /\ pc'[q] = "lookup" => job'[key'[q]] # None
                     /\ pc'[q] = "undo" => reason'[q] # "none"
                     /\ pc'[q] = "undo" /\ reason'[q] = "existing" => existing'[q] # None
                     /\ pc'[q] = "undo" /\ reason'[q] = "duplicate" => job'[key'[q]] # None
  BY DEF KnowsInv
<1>1. \A k \in Keys : job[k] # None => job'[k] = job[k]
  BY StepKeepsJobs
<1>2. key' = key /\ key[s] \in Keys
  BY StepKeepsJobs, HasKey
<1>3. CASE q # s
  <2>1. pc[q] \in {"lookup", "undo"} => key[q] \in Keys
    BY DEF TypeOK
  <2>. QED BY <1>1, <1>2, <1>3, <2>1, StepMovesOne DEF KnowsInv
<1>4. CASE q = s /\ Find(s)
  <2>1. pc'[s] \in {"found", "conflict", "insert", "upload"} /\ job' = job
    BY <1>4 DEF Find, Resolve, Goto, TypeOK
  <2>2. existing'[s] = existing[s] \/ existing'[s] = job[key[s]]
    BY <1>4 DEF Find, TypeOK
  <2>. QED BY <1>2, <1>4, <2>1, <2>2 DEF KnowsInv
<1>5. CASE q = s /\ UploadFile(s)
  BY <1>2, <1>5 DEF UploadFile, KnowsInv
<1>6. CASE q = s /\ UploadDone(s)
  BY <1>2, <1>6 DEF UploadDone, Goto, KnowsInv, TypeOK
<1>7. CASE q = s /\ (UploadRefused(s) \/ UploadFails(s))
  BY <1>2, <1>7 DEF UploadRefused, UploadFails, GiveUpUpload, Goto, KnowsInv, TypeOK
<1>8. CASE q = s /\ Insert(s)
  <2>1. CASE MayInsert(s)
    BY <1>1, <1>2, <1>8, <2>1 DEF Insert, MayInsert, KnowsInv, TypeOK
  <2>2. CASE ~MayInsert(s)
    <3>1. GiveUp(s, "duplicate") /\ UNCHANGED <<job, existing>> /\ job[key[s]] # None
      BY <1>8, <2>2 DEF Insert, MayInsert
    <3>2. pc'[s] \in {"undo", "lookup"} /\ reason'[s] = "duplicate"
      BY <3>1 DEF GiveUp, Goto, TypeOK
    <3>. QED BY <1>2, <1>8, <3>1, <3>2 DEF KnowsInv
  <2>. QED BY <2>1, <2>2
<1>9. CASE q = s /\ InsertFails(s)
  <2>1. pc'[s] \in {"undo", "error"} /\ reason'[s] = "error" /\ UNCHANGED existing
    BY <1>9 DEF InsertFails, GiveUp, Goto, TypeOK
  <2>. QED BY <1>1, <1>2, <1>9, <2>1 DEF KnowsInv
<1>10. CASE q = s /\ Undo(s)
  <2>1. \/ reason[s] = "existing" /\ Resolve(s, existing[s])
        \/ reason[s] = "duplicate" /\ Goto(s, "lookup")
        \/ Goto(s, "error")
    BY <1>10, AfterUndoMoves DEF Undo
  <2>2. pc'[s] # "undo" /\ (pc'[s] = "lookup" => reason[s] = "duplicate")
    BY <2>1 DEF Resolve, Goto, TypeOK
  <2>. QED BY <1>2, <1>10, <2>2 DEF Undo, KnowsInv
<1>11. CASE q = s /\ (LookUp(s) \/ Crash(s))
  <2>1. pc'[s] \in {"found", "conflict", "error", "crashed"}
    BY <1>11 DEF LookUp, Crash, Resolve, Goto, TypeOK
  <2>. QED BY <1>2, <1>11, <2>1 DEF LookUp, Crash, KnowsInv
<1>. QED BY <1>3, <1>4, <1>5, <1>6, <1>7, <1>8, <1>9, <1>10, <1>11 DEF Step

LEMMA SourceStep ==
  ASSUME TypeOK, KnowsInv, SourceInv, NEW s \in Submissions, Step(s)
  PROVE  SourceInv'
<1>. SUFFICES ASSUME NEW q \in Submissions
              PROVE  /\ pc'[q] \in Intact => Uploaded(q)' \subseteq objects'
                     /\ pc'[q] \in {"insert", "created"} => sent'[q] = SizeOf(key'[q])
  BY DEF SourceInv
<1>1. key' = key /\ key[s] \in Keys
  BY StepKeepsJobs, HasKey
<1>2. CASE q # s
  <2>1. Uploaded(q)' = Uploaded(q) /\ Uploaded(q) \subseteq {q} \X (1..DatasetSize)
    BY <1>2, StepMovesOne DEF Uploaded, TypeOK
  <2>2. \A i \in 1..DatasetSize : <<q, i>> \in objects' <=> <<q, i>> \in objects
    BY <1>2, StepMovesOne
  <2>3. pc[q] \in Intact => Uploaded(q)' \subseteq objects'
    BY <2>1, <2>2 DEF SourceInv
  <2>. QED BY <1>1, <1>2, <2>3, StepMovesOne DEF SourceInv
<1>3. CASE q = s /\ Find(s)
  <2>1. Uploaded(s) \subseteq objects /\ UNCHANGED <<sent, objects>>
    BY <1>3 DEF Find, SourceInv, Intact
  <2>2. /\ pc'[s] \in {"found", "conflict", "upload", "insert"}
        /\ pc'[s] = "insert" => key[s] \in UrlKeys
    <3>1. \/ Resolve(s, job[key[s]])
          \/ Goto(s, IF key[s] \in UrlKeys THEN "insert" ELSE "upload")
      BY <1>3 DEF Find
    <3>2. Resolve(s, job[key[s]]) => pc'[s] \in {"found", "conflict"}
      BY DEF Resolve, Goto, TypeOK
    <3>3. Goto(s, IF key[s] \in UrlKeys THEN "insert" ELSE "upload")
            => pc'[s] = IF key[s] \in UrlKeys THEN "insert" ELSE "upload"
      BY DEF Goto, TypeOK
    <3>4. CASE Resolve(s, job[key[s]])
      BY <3>2, <3>4
    <3>5. CASE Goto(s, IF key[s] \in UrlKeys THEN "insert" ELSE "upload")
      BY <3>3, <3>5
    <3>. QED BY <3>1, <3>4, <3>5
  <2>3. key[s] \in UrlKeys => sent[s] = SizeOf(key[s])
    BY <1>1 DEF TypeOK, SizeOf
  <2>. QED BY <1>1, <1>3, <2>1, <2>2, <2>3 DEF Uploaded
<1>4. CASE q = s /\ UploadFile(s)
  <2>1. Uploaded(s) \subseteq objects /\ pc' = pc /\ pc[s] = "upload"
    BY <1>4 DEF UploadFile, SourceInv, Intact
  <2>2. sent[s] \in Nat /\ sent' = [sent EXCEPT ![s] = sent[s] + 1]
        /\ objects' = objects \cup {<<s, sent[s] + 1>>}
    BY <1>4 DEF UploadFile, NextFile, TypeOK
  <2>3. sent'[s] = sent[s] + 1
    BY <2>2 DEF TypeOK
  <2>4. Uploaded(s)' \subseteq objects'
    BY <2>1, <2>2, <2>3 DEF Uploaded
  <2>. QED BY <1>4, <2>1, <2>4
<1>5. CASE q = s /\ UploadDone(s)
  <2>1. /\ Uploaded(s) \subseteq objects /\ sent[s] = SizeOf(key[s])
        /\ UNCHANGED <<sent, objects, key>>
    BY <1>5 DEF UploadDone, SourceInv, Intact
  <2>. QED BY <1>5, <2>1 DEF Uploaded
<1>6. CASE q = s /\ Insert(s)
  <2>1. /\ Uploaded(s) \subseteq objects /\ sent[s] = SizeOf(key[s])
        /\ UNCHANGED <<sent, objects, key>>
    BY <1>6 DEF Insert, SourceInv, Intact
  <2>. QED BY <1>6, <2>1 DEF Uploaded
<1>7. CASE q = s /\ \/ UploadRefused(s) \/ UploadFails(s) \/ InsertFails(s) \/ LookUp(s)
                    \/ Crash(s) \/ Undo(s)
  <2>1. AfterUndo(s) /\ pc[s] = "undo" => pc'[s] \notin Intact
    BY AfterUndoMoves DEF Resolve, Goto, TypeOK, Intact
  <2>2. ASSUME NEW p, Goto(s, p), p \notin Intact
        PROVE  pc'[s] \notin Intact
    BY <2>2 DEF Goto, TypeOK
  <2>3. pc'[s] \notin Intact
    BY <1>7, <2>1, <2>2 DEF UploadRefused, UploadFails, GiveUpUpload, InsertFails, GiveUp, LookUp,
       Resolve, Crash, Undo, TypeOK, Intact
  <2>. QED BY <1>7, <2>3 DEF Intact
<1>. QED BY <1>2, <1>3, <1>4, <1>5, <1>6, <1>7 DEF Step

\* An answer agrees when it is given ...
LEMMA ResolveAgrees ==
  ASSUME TypeOK, JobInv, NEW s \in Submissions, NEW j \in Submissions, key[s] \in Keys,
         job[key[s]] = j, Resolve(s, j), pc[s] \notin {"created", "found"},
         UNCHANGED <<job, key, payload>>
  PROVE  /\ answer'[s] # None =>
              /\ answer'[s] = job'[key'[s]]
              /\ key'[answer'[s]] = key'[s]
              /\ Fingerprint(key'[s], payload'[answer'[s]]) = Fingerprint(key'[s], payload'[s])
         /\ pc'[s] = "conflict" =>
              /\ job'[key'[s]] # None
              /\ Fingerprint(key'[s], payload'[job'[key'[s]]]) # Fingerprint(key'[s], payload'[s])
<1>1. key[j] = key[s] /\ answer[s] = None
  BY DEF JobInv, TypeOK
<1>2. CASE Matches(s, j)
  BY <1>1, <1>2 DEF Resolve, Matches, TypeOK
<1>3. CASE ~Matches(s, j)
  BY <1>1, <1>3 DEF Resolve, Goto, Matches, TypeOK
<1>. QED BY <1>2, <1>3

\* ... and goes on to.
LEMMA AnswersStep ==
  ASSUME TypeOK, JobInv, KnowsInv, AnswersAgree, NEW s \in Submissions, Step(s)
  PROVE  AnswersAgree'
<1>. SUFFICES ASSUME NEW q \in Submissions
              PROVE  /\ answer'[q] # None =>
                          /\ answer'[q] = job'[key'[q]]
                          /\ key'[answer'[q]] = key'[q]
                          /\ Fingerprint(key'[q], payload'[answer'[q]])
                               = Fingerprint(key'[q], payload'[q])
                     /\ pc'[q] = "conflict" =>
                          /\ job'[key'[q]] # None
                          /\ Fingerprint(key'[q], payload'[job'[key'[q]]])
                               # Fingerprint(key'[q], payload'[q])
  BY DEF AnswersAgree
<1>1. \A k \in Keys : job[k] # None => job'[k] = job[k]
  BY StepKeepsJobs
<1>2. UNCHANGED <<key, payload>> /\ key[s] \in Keys /\ answer[s] = None
  BY StepKeepsJobs, HasKey DEF TypeOK
<1>3. CASE q # s
  <2>1. pc[q] = "conflict" \/ answer[q] # None => key[q] \in Keys
    BY DEF TypeOK
  <2>. QED BY <1>1, <1>2, <1>3, <2>1, StepMovesOne DEF AnswersAgree
<1>4. ASSUME UNCHANGED answer, pc'[s] # "conflict", q = s
      PROVE  answer'[q] = None /\ pc'[q] # "conflict"
  BY <1>2, <1>4
<1>5. ASSUME NEW p, Goto(s, p), p # "conflict", q = s
      PROVE  answer'[q] = None /\ pc'[q] # "conflict"
  BY <1>2, <1>5 DEF Goto, TypeOK
<1>6. CASE q = s /\ Find(s)
  <2>1. CASE job[key[s]] # None /\ key[s] \notin DatasetKeys
    BY <1>2, <1>6, <2>1, ResolveAgrees DEF Find, TypeOK
  <2>2. CASE ~(job[key[s]] # None /\ key[s] \notin DatasetKeys)
    BY <1>5, <1>6, <2>2 DEF Find
  <2>. QED BY <2>1, <2>2
<1>7. CASE q = s /\ \/ UploadFile(s) \/ UploadDone(s) \/ UploadRefused(s) \/ UploadFails(s)
                    \/ InsertFails(s) \/ Crash(s)
  <2>1. CASE UploadFile(s)
    BY <1>4, <1>7, <2>1 DEF UploadFile
  <2>2. CASE ~UploadFile(s)
    BY <1>5, <1>7, <2>2 DEF UploadDone, UploadRefused, UploadFails, GiveUpUpload, InsertFails,
       GiveUp, Crash
  <2>. QED BY <2>1, <2>2
<1>8. CASE q = s /\ Insert(s)
  <2>1. CASE MayInsert(s)
    BY <1>2, <1>8, <2>1 DEF Insert, TypeOK
  <2>2. CASE ~MayInsert(s)
    BY <1>5, <1>8, <2>2 DEF Insert, GiveUp
  <2>. QED BY <2>1, <2>2
<1>9. CASE q = s /\ Undo(s)
  <2>1. \/ reason[s] = "existing" /\ Resolve(s, existing[s])
        \/ Goto(s, "lookup") \/ Goto(s, "error")
    BY <1>9, AfterUndoMoves DEF Undo
  <2>2. CASE reason[s] = "existing" /\ Resolve(s, existing[s])
    <3>1. existing[s] \in Submissions /\ job[key[s]] = existing[s]
      BY <1>9, <2>2 DEF Undo, KnowsInv, TypeOK
    <3>. QED BY <1>2, <1>9, <2>2, <3>1, ResolveAgrees DEF Undo
  <2>. QED BY <1>5, <1>9, <2>1, <2>2
<1>10. CASE q = s /\ LookUp(s)
  <2>1. job[key[s]] \in Submissions
    BY <1>2, <1>10 DEF LookUp, KnowsInv, TypeOK
  <2>. QED BY <1>2, <1>5, <1>10, <2>1, ResolveAgrees DEF LookUp
<1>. QED BY <1>3, <1>6, <1>7, <1>8, <1>9, <1>10 DEF Step

\* A call coming in concerns no key's job yet.
LEMMA SubmitStep ==
  ASSUME TypeOK, JobInv, KnowsInv, SourceInv, AnswersAgree, NEW s \in Submissions, Submit(s)
  PROVE  JobInv' /\ KnowsInv' /\ SourceInv' /\ AnswersAgree'
<1>1. \A k \in Keys : job[k] # s
  BY DEF JobInv, Submit, Inserted, TypeOK
<1>2. /\ pc' = [pc EXCEPT ![s] = "find"]
      /\ \A q \in Submissions : q # s => key'[q] = key[q] /\ payload'[q] = payload[q]
      /\ key[s] = None /\ answer[s] = None /\ pc[s] = "new" /\ pc'[s] = "find"
      /\ UNCHANGED <<job, existing, sent, reason, answer, objects, unsure>>
  BY DEF Submit, Goto, TypeOK
<1>3. JobInv'
  BY <1>1, <1>2 DEF JobInv, TypeOK, Inserted
<1>4. existing[s] = None
  BY <1>2 DEF KnowsInv, Keys
<1>5. KnowsInv'
  BY <1>2, <1>4 DEF KnowsInv, TypeOK
<1>6. SourceInv'
  BY <1>2 DEF SourceInv, Uploaded, Intact, TypeOK
<1>7. AnswersAgree'
  <2>1. \A q \in Submissions : answer[q] # s
    BY <1>1 DEF AnswersAgree, TypeOK
  <2>2. \A q \in Submissions : answer[q] # None \/ pc[q] = "conflict" => q # s /\ key[q] \in Keys
    BY <1>2 DEF TypeOK
  <2>3. ASSUME NEW q \in Submissions, answer'[q] # None
        PROVE  /\ answer'[q] = job'[key'[q]]
               /\ key'[answer'[q]] = key'[q]
               /\ Fingerprint(key'[q], payload'[answer'[q]])
                    = Fingerprint(key'[q], payload'[q])
    <3>1. answer[q] \in Submissions /\ answer[q] # s /\ q # s
      BY <1>2, <2>1, <2>2, <2>3 DEF TypeOK
    <3>. QED BY <1>2, <2>3, <3>1 DEF AnswersAgree
  <2>4. ASSUME NEW q \in Submissions, pc'[q] = "conflict"
        PROVE  /\ job'[key'[q]] # None
               /\ Fingerprint(key'[q], payload'[job'[key'[q]]])
                    # Fingerprint(key'[q], payload'[q])
    <3>1. q # s /\ pc[q] = "conflict" /\ key[q] \in Keys
      BY <1>2, <2>2, <2>4 DEF TypeOK
    <3>2. job[key[q]] # s /\ job[key[q]] \in Submissions
      BY <1>1, <3>1 DEF TypeOK, AnswersAgree
    <3>. QED BY <1>2, <3>1, <3>2 DEF AnswersAgree
  <2>. QED BY <2>3, <2>4 DEF AnswersAgree
<1>. QED BY <1>3, <1>5, <1>6, <1>7

-----------------------------------------------------------------------------
(* The theorems *)

LEMMA InitInv == Init => IInv
<1>. SUFFICES ASSUME Init PROVE IInv
  OBVIOUS
<1>1. TypeOK
  BY DEF Init, TypeOK, SubmissionPC
<1>2. JobInv /\ KnowsInv /\ SourceInv /\ AnswersAgree
  BY DEF Init, JobInv, KnowsInv, SourceInv, Intact, Uploaded, AnswersAgree
<1>. QED BY <1>1, <1>2 DEF IInv

LEMMA NextInv == IInv /\ [Next]_submissionVars => IInv'
<1>. SUFFICES ASSUME IInv, [Next]_submissionVars PROVE IInv'
  OBVIOUS
<1>1. CASE Next
  <2>1. TypeOK'
    BY <1>1, TypeStep DEF IInv
  <2>2. PICK s \in Submissions : Submit(s) \/ Step(s)
    BY <1>1 DEF Next, Step
  <2>3. JobInv' /\ KnowsInv' /\ SourceInv' /\ AnswersAgree'
    BY <2>2, SubmitStep, JobStep, KnowsStep, SourceStep, AnswersStep DEF IInv
  <2>. QED BY <2>1, <2>3 DEF IInv
<1>2. CASE UNCHANGED submissionVars
  BY <1>2 DEF IInv, TypeOK, JobInv, KnowsInv, SourceInv, Uploaded, AnswersAgree, submissionVars
<1>. QED BY <1>1, <1>2

\* What a submission remembers of its key, its job and its files stays true until it is used,
\* whatever other submissions commit or undo (create_upload_job() and its siblings).
THEOREM SpecInv == Spec => []IInv
BY InitInv, NextInv, PTL DEF Spec

\* The types of the tables, of the submissions and of object storage hold throughout.
THEOREM SpecTypeOK == Spec => []TypeOK
<1>1. IInv => TypeOK
  BY DEF IInv
<1>. QED BY <1>1, SpecInv, PTL

\* However submissions race and fail, all that are answered under a key are answered
\* with its one job, and only those of another fingerprint are refused.
THEOREM SpecAnswersAgree == Spec => []AnswersAgree
<1>1. IInv => AnswersAgree
  BY DEF IInv
<1>. QED BY <1>1, SpecInv, PTL

\* The source of a job whose commit did not raise is complete in object storage: no
\* compensation of a losing or failing submission reaches it.
THEOREM SpecSourceComplete == Spec => []SourceComplete
<1>1. IInv => SourceComplete
  <2>. SUFFICES ASSUME IInv, NEW k \in Keys, job[k] # None, job[k] \notin unsure
                PROVE  FilesOf(job[k]) \subseteq objects
    BY DEF SourceComplete
  <2>1. job[k] \in Submissions /\ pc[job[k]] = "created"
    BY DEF IInv, TypeOK, JobInv
  <2>. QED BY <2>1 DEF IInv, SourceInv, Intact, Uploaded, FilesOf
<1>. QED BY <1>1, SpecInv, PTL

-----------------------------------------------------------------------------
(* What is left behind *)

LeftBehind(s) == \E i \in 1..DatasetSize : <<s, i>> \in objects
Referenced(s) == \A i \in 1..DatasetSize : <<s, i>> \in objects => i <= sent[s]

\* A submission that is going on knows what it has uploaded.
ReferencesInv ==
  \A s \in Submissions :
    /\ pc[s] \in {"new", "find"} => ~LeftBehind(s)
    /\ pc[s] \in {"upload", "insert"} => Referenced(s)

\* A submission without a job that has left a file behind, or is going to.
Indebted(s) ==
  /\ pc[s] # "new" /\ job[key[s]] # s
  /\ \/ pc[s] \in Over \cup {"lookup"} /\ LeftBehind(s)
     \/ pc[s] = "undo" /\ ~Referenced(s)
Debtors == {s \in Submissions : Indebted(s)}

\* Every debt is paid for by a fault.
DebtInv ==
  /\ IsFiniteSet(Debtors) /\ Cardinality(Debtors) \in Nat
  /\ budget <= FaultBudget /\ Cardinality(Debtors) <= FaultBudget - budget

Paid == budget' = budget - 1

LEMMA StepPays ==
  ASSUME TypeOK, NEW s \in Submissions, Step(s)
  PROVE  budget' = budget \/ Paid
BY DEF Step, Find, UploadFile, UploadDone, UploadRefused, UploadFails, Insert, InsertFails, Undo,
       LookUp, Crash, Calm, Spend, Paid

\* The others' debts stay as they are.
LEMMA OthersDebt ==
  ASSUME TypeOK, KnowsInv, NEW s \in Submissions, Step(s), NEW q \in Submissions, q # s
  PROVE  /\ LeftBehind(q)' <=> LeftBehind(q)
         /\ Referenced(q)' <=> Referenced(q)
         /\ Indebted(q)' => Indebted(q)
<1>1. /\ pc'[q] = pc[q] /\ sent'[q] = sent[q] /\ key'[q] = key[q]
      /\ \A i \in 1..DatasetSize : <<q, i>> \in objects' <=> <<q, i>> \in objects
  BY StepMovesOne, StepKeepsJobs
<1>2. (LeftBehind(q)' <=> LeftBehind(q)) /\ (Referenced(q)' <=> Referenced(q))
  BY <1>1 DEF LeftBehind, Referenced
<1>3. pc[q] # "new" /\ job'[key[q]] # q => job[key[q]] # q
  BY HasKey, StepKeepsJobs DEF TypeOK
<1>. QED BY <1>1, <1>2, <1>3 DEF Indebted

LEMMA NothingReferenced ==
  ASSUME NEW s \in Submissions, Referenced(s)', sent'[s] = 0
  PROVE  ~LeftBehind(s)'
<1>1. \A i \in 1..DatasetSize : ~(i <= 0)
  OBVIOUS
<1>2. \A i \in 1..DatasetSize : <<s, i>> \in objects' => i <= sent'[s]
  BY DEF Referenced
<1>. QED BY <1>1, <1>2 DEF LeftBehind

\* An upload or an insertion that ends has references of all its files, or has paid.
LEMMA UploadDebt ==
  ASSUME TypeOK, ReferencesInv, NEW s \in Submissions,
         \/ UploadFile(s) \/ UploadDone(s) \/ UploadRefused(s) \/ UploadFails(s)
         \/ Insert(s) \/ InsertFails(s)
  PROVE  /\ pc'[s] \notin {"new", "find"}
         /\ pc'[s] \in {"upload", "insert"} => Referenced(s)'
         /\ Indebted(s)' => Paid
<1>1. pc[s] \in {"upload", "insert"} /\ Referenced(s) /\ key[s] \in Keys /\ key' = key
      /\ sent[s] \in Nat
  BY HasKey DEF ReferencesInv, TypeOK, UploadFile, UploadDone, UploadRefused, UploadFails, Insert,
     InsertFails
<1>2. CASE UploadFile(s)
  <2>1. /\ pc' = pc /\ pc[s] = "upload" /\ sent'[s] = sent[s] + 1
        /\ objects' = objects \cup {<<s, sent[s] + 1>>}
    BY <1>2 DEF UploadFile, NextFile, TypeOK
  <2>2. Referenced(s)'
    BY <1>1, <2>1 DEF Referenced
  <2>. QED BY <2>1, <2>2 DEF Indebted, Over
<1>3. CASE UploadDone(s)
  <2>1. pc'[s] \in {"insert", "undo"} /\ UNCHANGED <<objects, sent>>
    BY <1>3 DEF UploadDone, Goto, TypeOK
  <2>2. Referenced(s)'
    BY <1>1, <2>1 DEF Referenced
  <2>. QED BY <2>1, <2>2 DEF Indebted, Over
<1>4. CASE UploadRefused(s)
  <2>1. /\ UNCHANGED <<objects, sent>>
        /\ \/ pc'[s] = "undo"
           \/ pc'[s] = "error" /\ key[s] \notin DatasetKeys
    BY <1>4 DEF UploadRefused, GiveUpUpload, Goto, TypeOK
  <2>2. Referenced(s)'
    BY <1>1, <2>1 DEF Referenced
  <2>3. CASE pc'[s] = "undo"
    BY <2>2, <2>3 DEF Indebted, Over
  <2>4. CASE pc'[s] = "error" /\ key[s] \notin DatasetKeys
    <3>1. sent[s] = 0
      BY <1>1, <1>4, <2>4 DEF UploadRefused, TypeOK, SizeOf, Keys
    <3>2. ~LeftBehind(s)'
      BY <2>1, <2>2, <3>1, NothingReferenced
    <3>. QED BY <2>4, <3>2 DEF Indebted
  <2>. QED BY <2>1, <2>3, <2>4
<1>5. CASE UploadFails(s)
  <2>1. Paid /\ pc'[s] \in {"undo", "error"}
    BY <1>5 DEF UploadFails, Spend, Paid, GiveUpUpload, Goto, TypeOK
  <2>. QED BY <2>1
<1>6. ASSUME UNCHANGED <<objects, sent>>, pc'[s] \in {"undo", "lookup", "error"},
             pc'[s] \in {"lookup", "error"} => key[s] \in UrlKeys
      PROVE  ~Indebted(s)'
  <2>1. Referenced(s)'
    BY <1>1, <1>6 DEF Referenced
  <2>2. CASE pc'[s] = "undo"
    BY <2>1, <2>2 DEF Indebted, Over
  <2>3. CASE pc'[s] \in {"lookup", "error"}
    <3>1. sent[s] = 0
      BY <1>1, <1>6, <2>3 DEF TypeOK, SizeOf
    <3>2. ~LeftBehind(s)'
      BY <1>6, <2>1, <3>1, NothingReferenced
    <3>. QED BY <2>3, <3>2 DEF Indebted
  <2>. QED BY <1>6, <2>2, <2>3
<1>7. ASSUME NEW why \in {"duplicate", "error"}, GiveUp(s, why)
      PROVE  /\ pc'[s] \in {"undo", "lookup", "error"}
             /\ pc'[s] \in {"lookup", "error"} => key[s] \in UrlKeys
  BY <1>7 DEF GiveUp, Goto, TypeOK
<1>8. CASE Insert(s)
  <2>1. CASE MayInsert(s)
    <3>1. job'[key[s]] = s /\ pc'[s] = "created"
      BY <1>1, <1>8, <2>1 DEF Insert, TypeOK
    <3>. QED BY <1>1, <3>1 DEF Indebted
  <2>2. CASE ~MayInsert(s)
    BY <1>6, <1>7, <1>8, <2>2 DEF Insert
  <2>. QED BY <2>1, <2>2
<1>9. CASE InsertFails(s)
  BY <1>6, <1>7, <1>9 DEF InsertFails
<1>. QED BY <1>2, <1>3, <1>4, <1>5, <1>8, <1>9

\* So has a removal that is over.
LEMMA OwnDebt ==
  ASSUME TypeOK, KnowsInv, ReferencesInv, NEW s \in Submissions, Step(s)
  PROVE  /\ pc'[s] \notin {"new", "find"}
         /\ pc'[s] \in {"upload", "insert"} => Referenced(s)'
         /\ Indebted(s)' => Indebted(s) \/ Paid
<1>1. key[s] \in Keys /\ key' = key /\ sent[s] \in Nat
  BY StepKeepsJobs, HasKey DEF TypeOK
<1>2. CASE Find(s)
  <2>1. ~LeftBehind(s) /\ UNCHANGED objects
    BY <1>2 DEF Find, ReferencesInv
  <2>2. ~LeftBehind(s)' /\ Referenced(s)'
    BY <2>1 DEF LeftBehind, Referenced
  <2>3. pc'[s] \in {"found", "conflict", "insert", "upload"}
    BY <1>2 DEF Find, Resolve, Goto, TypeOK
  <2>. QED BY <2>2, <2>3 DEF Indebted
<1>3. CASE \/ UploadFile(s) \/ UploadDone(s) \/ UploadRefused(s) \/ UploadFails(s)
           \/ Insert(s) \/ InsertFails(s)
  BY <1>3, UploadDebt
<1>4. CASE Undo(s)
  <2>1. pc[s] = "undo" /\ UNCHANGED <<job, sent>> /\ UndoneBy(s) = {s} \X (1..sent[s])
    BY <1>4 DEF Undo, UndoneBy, Uploaded
  <2>2. pc'[s] \in {"found", "conflict", "lookup", "error"}
    <3>1. AfterUndo(s) \/ Goto(s, "error")
      BY <1>4 DEF Undo
    <3>. QED BY <2>1, <3>1, AfterUndoMoves DEF Resolve, Goto, TypeOK
  <2>3. CASE objects' = objects \ UndoneBy(s)
    <3>1. LeftBehind(s)' => ~Referenced(s)
      BY <1>1, <2>1, <2>3 DEF LeftBehind, Referenced
    <3>. QED BY <1>1, <2>1, <2>2, <3>1 DEF Indebted
  <2>4. CASE objects' # objects \ UndoneBy(s)
    BY <1>4, <2>2, <2>4 DEF Undo, Spend, Paid
  <2>. QED BY <2>3, <2>4
<1>5. CASE LookUp(s)
  <2>1. pc[s] = "lookup" /\ UNCHANGED <<job, objects>>
    BY <1>5 DEF LookUp
  <2>2. pc'[s] \in {"found", "conflict", "error"}
    BY <1>5 DEF LookUp, Resolve, Goto, TypeOK
  <2>. QED BY <1>1, <2>1, <2>2 DEF Indebted, LeftBehind, Over
<1>6. CASE Crash(s)
  BY <1>6 DEF Crash, Spend, Paid, Goto, TypeOK
<1>. QED BY <1>2, <1>3, <1>4, <1>5, <1>6 DEF Step

LEMMA DebtStep ==
  ASSUME IInv, ReferencesInv, DebtInv, NEW s \in Submissions, Step(s)
  PROVE  ReferencesInv' /\ DebtInv'
<1>. USE DEF IInv
<1>1. ReferencesInv'
  <2>. SUFFICES ASSUME NEW q \in Submissions
                PROVE  /\ pc'[q] \in {"new", "find"} => ~LeftBehind(q)'
                       /\ pc'[q] \in {"upload", "insert"} => Referenced(q)'
    BY DEF ReferencesInv
  <2>1. CASE q = s
    BY <2>1, OwnDebt
  <2>2. CASE q # s
    BY <2>2, OthersDebt, StepMovesOne DEF ReferencesInv
  <2>. QED BY <2>1, <2>2
<1>2. budget \in Nat /\ FaultBudget \in Nat
  BY DEF TypeOK
<1>3. IsFiniteSet(Debtors) /\ Cardinality(Debtors) \in Nat
      /\ budget <= FaultBudget /\ Cardinality(Debtors) <= FaultBudget - budget
  BY DEF DebtInv
<1>4. \A q \in Debtors' : q \in Debtors \/ (q = s /\ Paid)
  BY OwnDebt, OthersDebt DEF Debtors
<1>5. CASE Paid
  <2>1. Debtors' \in SUBSET (Debtors \cup {s})
    BY <1>4
  <2>2. IsFiniteSet(Debtors \cup {s}) /\ Cardinality(Debtors \cup {s}) <= Cardinality(Debtors) + 1
        /\ Cardinality(Debtors \cup {s}) \in Nat
    <3>1. /\ IsFiniteSet(Debtors \cup {s})
          /\ Cardinality(Debtors \cup {s})
               = IF s \in Debtors THEN Cardinality(Debtors) ELSE Cardinality(Debtors) + 1
      BY <1>3, FS_AddElement
    <3>. HIDE DEF Debtors
    <3>. QED BY <1>3, <3>1
  <2>3. /\ IsFiniteSet(Debtors') /\ Cardinality(Debtors') \in Nat
        /\ Cardinality(Debtors') <= Cardinality(Debtors \cup {s})
    BY <2>1, <2>2, FS_Subset, FS_CardinalityType
  <2>. QED BY <1>1, <1>2, <1>3, <1>5, <2>2, <2>3 DEF DebtInv, Paid
<1>6. CASE ~Paid
  <2>1. Debtors' \in SUBSET Debtors /\ budget' = budget
    BY <1>4, <1>6, StepPays
  <2>2. /\ IsFiniteSet(Debtors') /\ Cardinality(Debtors') \in Nat
        /\ Cardinality(Debtors') <= Cardinality(Debtors)
    BY <1>3, <2>1, FS_Subset, FS_CardinalityType
  <2>. QED BY <1>1, <1>2, <1>3, <2>1, <2>2 DEF DebtInv
<1>. QED BY <1>5, <1>6

LEMMA SubmitDebt ==
  ASSUME IInv, ReferencesInv, DebtInv, NEW s \in Submissions, Submit(s)
  PROVE  ReferencesInv' /\ DebtInv'
<1>1. /\ pc[s] = "new" /\ pc' = [pc EXCEPT ![s] = "find"] /\ budget' = budget
      /\ \A q \in Submissions : q # s => key'[q] = key[q]
      /\ UNCHANGED <<job, sent, objects>>
  BY DEF Submit, Goto, Calm, IInv, TypeOK
<1>2. \A q \in Submissions : q # s => pc'[q] = pc[q]
  BY <1>1 DEF IInv, TypeOK
<1>3. pc'[s] = "find"
  BY <1>1 DEF IInv, TypeOK
<1>4. \A q \in Submissions : (LeftBehind(q)' <=> LeftBehind(q)) /\ (Referenced(q)' <=> Referenced(q))
  BY <1>1 DEF LeftBehind, Referenced
<1>5. ReferencesInv'
  BY <1>1, <1>2, <1>3, <1>4 DEF ReferencesInv
<1>6. Debtors' = Debtors
  <2>1. ~Indebted(s) /\ ~Indebted(s)'
    BY <1>1, <1>3 DEF Indebted, Over
  <2>2. \A q \in Submissions : q # s => (Indebted(q)' <=> Indebted(q))
    BY <1>1, <1>2, <1>4 DEF Indebted
  <2>. QED BY <2>1, <2>2 DEF Debtors
<1>. QED BY <1>1, <1>5, <1>6 DEF DebtInv

\* Every submission that left a file behind and created no job is paid for by a fault
\* of its own: no race of submissions and no refusal leaks a source file.
THEOREM SpecLeftoversBounded == Spec => []LeftoversBounded
<1>1. Init => ReferencesInv /\ DebtInv
  <2>. SUFFICES ASSUME Init PROVE ReferencesInv /\ DebtInv
    OBVIOUS
  <2>1. ReferencesInv
    BY DEF Init, ReferencesInv, LeftBehind
  <2>2. Debtors = {} /\ budget = FaultBudget
    BY DEF Init, Debtors, Indebted
  <2>. QED BY <2>1, <2>2, FS_EmptySet DEF DebtInv
<1>2. IInv /\ ReferencesInv /\ DebtInv /\ [Next]_submissionVars => ReferencesInv' /\ DebtInv'
  <2>. SUFFICES ASSUME IInv, ReferencesInv, DebtInv, [Next]_submissionVars
                PROVE  ReferencesInv' /\ DebtInv'
    OBVIOUS
  <2>1. CASE Next
    <3>1. PICK s \in Submissions : Submit(s) \/ Step(s)
      BY <2>1 DEF Next, Step
    <3>. QED BY <3>1, SubmitDebt, DebtStep
  <2>2. CASE UNCHANGED submissionVars
    <3>1. ReferencesInv'
      BY <2>2 DEF submissionVars, ReferencesInv, LeftBehind, Referenced
    <3>2. Debtors' = Debtors /\ budget' = budget
      BY <2>2 DEF submissionVars, Debtors, Indebted, LeftBehind, Referenced
    <3>. QED BY <3>1, <3>2 DEF DebtInv
  <2>. QED BY <2>1, <2>2
<1>3. IInv /\ DebtInv => LeftoversBounded
  <2>. SUFFICES ASSUME IInv, DebtInv PROVE LeftoversBounded
    OBVIOUS
  <2>. DEFINE Leaking == {s \in Submissions : /\ pc[s] \in Over /\ job[key[s]] # s
                                              /\ \E i \in 1..DatasetSize : <<s, i>> \in objects}
  <2>1. Leaking \in SUBSET Debtors
    BY DEF Debtors, Indebted, LeftBehind, Over
  <2>2. /\ IsFiniteSet(Leaking) /\ Cardinality(Leaking) \in Nat
        /\ Cardinality(Leaking) <= Cardinality(Debtors)
    BY <2>1, FS_Subset, FS_CardinalityType DEF DebtInv
  <2>3. Cardinality(Debtors) \in Nat /\ Cardinality(Debtors) <= FaultBudget - budget
        /\ budget \in Nat /\ FaultBudget \in Nat
    BY DEF DebtInv, IInv, TypeOK
  <2>. HIDE DEF Leaking
  <2>4. Cardinality(Leaking) <= FaultBudget - budget
    BY <2>2, <2>3
  <2>. QED BY <2>4 DEF LeftoversBounded, Leaking
<1>. QED BY <1>1, <1>2, <1>3, SpecInv, PTL DEF Spec

=============================================================================
