---------------------------- MODULE JobSubmission ----------------------------
(***************************************************************************)
(* The three ways to submit a job: by address, by uploading a video, by    *)
(* uploading an image data set.  A submission carries an idempotency key;  *)
(* it looks the key up, uploads its source under a fresh job identifier,   *)
(* inserts the row under the key's unique constraint and, when it did not  *)
(* create the job, removes what it uploaded.                               *)
(*                                                                         *)
(* A submission is named by the job identifier it draws.  A key stands for *)
(* a scope (the operation and its owner) and a key within it.              *)
(***************************************************************************)
EXTENDS Integers, FiniteSets

CONSTANTS
  Submissions,  \* calls of the API, each with the job identifier it draws
  UrlKeys, UploadKeys, DatasetKeys,
  Payloads,     \* what is submitted: records of its description and its content
  DatasetSize,  \* the number of files of a data set
  None,
  Faults, FaultBudget

FaultKinds == {
  "upload_error",  \* an upload raises; completing it may have taken effect
  "delete_error",  \* object storage refuses a deletion
  "database_error",  \* the insertion or the second look-up raises without effect
  "ambiguous",     \* the insertion's commit takes effect but raises
  "crash" }        \* the API process dies

Keys == UrlKeys \cup UploadKeys \cup DatasetKeys

ASSUME SubmissionAssumption ==
  /\ UrlKeys \cap UploadKeys = {} /\ UrlKeys \cap DatasetKeys = {}
  /\ UploadKeys \cap DatasetKeys = {}
  /\ None \notin Submissions \cup Keys \cup Payloads
  /\ \A p \in Payloads : DOMAIN p = {"description", "content"}
  /\ DatasetSize \in Nat \ {0}
  /\ FaultBudget \in Nat /\ Faults \subseteq FaultKinds

VARIABLES
  job,       \* processing_jobs by idempotency key: the submission that created it
  pc, key, payload,   \* a submission: where it is, what it was called with
  existing,  \* the job its first look-up found
  sent,      \* how many files it has a reference of
  reason,    \* why it removes its upload
  answer,    \* the job it answered with
  objects,   \* object storage: source files by submission and number
  budget,    \* faults still to come
  unsure     \* history: the submissions whose commit raised

submissionVars == <<job, pc, key, payload, existing, sent, reason, answer, objects, budget,
                    unsure>>

-----------------------------------------------------------------------------
(* Types *)

\* The number of files of a submission's source.
SizeOf(k) == IF k \in UrlKeys THEN 0 ELSE IF k \in UploadKeys THEN 1 ELSE DatasetSize

SubmissionPC == {"new", "find", "upload", "insert", "undo", "lookup", "created", "found",
                 "conflict", "error", "crashed"}
Over == {"created", "found", "conflict", "error", "crashed"}

\* Besides the ranges: a submission sends no more files than its source has, and it has an
\* answer exactly when it created or found a job.
TypeOK ==
  /\ job \in [Keys -> Submissions \cup {None}]
  /\ pc \in [Submissions -> SubmissionPC]
  /\ key \in [Submissions -> Keys \cup {None}]
  /\ payload \in [Submissions -> Payloads \cup {None}]
  /\ existing \in [Submissions -> Submissions \cup {None}]
  /\ sent \in [Submissions -> 0..DatasetSize]
  /\ reason \in [Submissions -> {"none", "existing", "duplicate", "error"}]
  /\ answer \in [Submissions -> Submissions \cup {None}]
  /\ objects \subseteq Submissions \X (1..DatasetSize)
  /\ budget \in Nat
  /\ unsure \subseteq Submissions
  /\ \A s \in Submissions :
       /\ pc[s] = "new" <=> key[s] = None
       /\ sent[s] <= IF key[s] = None THEN 0 ELSE SizeOf(key[s])
       /\ answer[s] # None <=> pc[s] \in {"created", "found"}

Init ==
  /\ job = [k \in Keys |-> None]
  /\ pc = [s \in Submissions |-> "new"]
  /\ key = [s \in Submissions |-> None]
  /\ payload = [s \in Submissions |-> None]
  /\ existing = [s \in Submissions |-> None]
  /\ sent = [s \in Submissions |-> 0]
  /\ reason = [s \in Submissions |-> "none"]
  /\ answer = [s \in Submissions |-> None]
  /\ objects = {}
  /\ budget = FaultBudget
  /\ unsure = {}

-----------------------------------------------------------------------------
(* Helpers *)

Spend(fault) == fault \in Faults /\ budget > 0 /\ budget' = budget - 1
Calm == budget' = budget

\* What request_fingerprint is computed from.  Of a video it is the name, the type, the
\* size and the processing configuration; of a data set also the digests of the files,
\* and of an address the address itself.
Fingerprint(k, p) == IF k \in UploadKeys THEN p.description ELSE p

FilesOf(s) == {s} \X (1..SizeOf(key[s]))
Uploaded(s) == {s} \X (1..sent[s])

Goto(s, p) == pc' = [pc EXCEPT ![s] = p] /\ UNCHANGED answer

\* _constant_time_equal(existing.request_fingerprint, fingerprint)
Matches(s, j) == Fingerprint(key[s], payload[s]) = Fingerprint(key[s], payload[j])

\* Mutation: a conflict is answered with the job as well.
ResolveDiscloses(s, j) ==
  /\ pc' = [pc EXCEPT ![s] = IF Matches(s, j) THEN "found" ELSE "conflict"]
  /\ answer' = [answer EXCEPT ![s] = j]
\* _resolve_idempotent()
Resolve(s, j) ==
  IF Matches(s, j)
    THEN /\ pc' = [pc EXCEPT ![s] = "found"]
         /\ answer' = [answer EXCEPT ![s] = j]
    ELSE Goto(s, "conflict")

-----------------------------------------------------------------------------
(* Submission *)

\* A call comes in.
Submit(s) ==
  /\ pc[s] = "new"
  /\ \E k \in Keys, p \in Payloads :
       /\ key' = [key EXCEPT ![s] = k]
       /\ payload' = [payload EXCEPT ![s] = p]
  /\ Goto(s, "find")
  /\ Calm
  /\ UNCHANGED <<job, existing, sent, reason, objects, unsure>>

\* It looks its key up.  The address and the video are answered at once when the job
\* exists; the data set has no fingerprint yet and goes on.
Find(s) ==
  /\ pc[s] = "find"
  /\ IF job[key[s]] # None /\ key[s] \notin DatasetKeys
       THEN Resolve(s, job[key[s]]) /\ UNCHANGED existing
       ELSE /\ existing' = [existing EXCEPT ![s] = job[key[s]]]
            /\ Goto(s, IF key[s] \in UrlKeys THEN "insert" ELSE "upload")
  /\ Calm
  /\ UNCHANGED <<job, key, payload, sent, reason, objects, unsure>>

NextFile(s) == sent[s] + 1

\* One file after the other.
UploadFile(s) ==
  /\ pc[s] = "upload"
  /\ sent[s] < SizeOf(key[s])
  /\ sent' = [sent EXCEPT ![s] = NextFile(s)]
  /\ objects' = objects \cup {<<s, NextFile(s)>>}
  /\ Calm
  /\ UNCHANGED <<job, pc, key, payload, existing, reason, answer, unsure>>

\* The data set has its fingerprint now, and acts on the look-up it made before.
UploadDone(s) ==
  /\ pc[s] = "upload"
  /\ sent[s] = SizeOf(key[s])
  /\ IF existing[s] = None
       THEN Goto(s, "insert") /\ UNCHANGED reason
       ELSE Goto(s, "undo") /\ reason' = [reason EXCEPT ![s] = "existing"]
  /\ Calm
  /\ UNCHANGED <<job, key, payload, existing, sent, objects, unsure>>

\* A video is given up, a data set removes the files it has references of.
GiveUpUpload(s) ==
  IF key[s] \in DatasetKeys
    THEN Goto(s, "undo") /\ reason' = [reason EXCEPT ![s] = "error"]
    ELSE Goto(s, "error") /\ UNCHANGED reason

\* A file is empty or too large, or a data set is after its last file.
UploadRefused(s) ==
  /\ pc[s] = "upload"
  /\ key[s] \in UploadKeys => sent[s] = 0
  /\ GiveUpUpload(s)
  /\ Calm
  /\ UNCHANGED <<job, key, payload, existing, sent, objects, unsure>>

\* upload() raises: the file may exist all the same, without a reference to it.
UploadFails(s) ==
  /\ pc[s] = "upload"
  /\ sent[s] < SizeOf(key[s])
  /\ Spend("upload_error")
  /\ objects' \in {objects, objects \cup {<<s, NextFile(s)>>}}
  /\ GiveUpUpload(s)
  /\ UNCHANGED <<job, key, payload, existing, sent, unsure>>

\* What an insertion that raises leads to: nothing was uploaded for an address.
GiveUp(s, why) ==
  /\ reason' = [reason EXCEPT ![s] = why]
  /\ Goto(s, IF key[s] \notin UrlKeys THEN "undo"
             ELSE IF why = "duplicate" THEN "lookup" ELSE "error")

\* Mutation: the row is written without the unique constraint.
MayInsertAlways(s) == TRUE
MayInsert(s) == job[key[s]] = None

\* create_with_outbox(): row and event in one transaction.
Insert(s) ==
  /\ pc[s] = "insert"
  /\ \/ /\ MayInsert(s)
        /\ job' = [job EXCEPT ![key[s]] = s]
        /\ pc' = [pc EXCEPT ![s] = "created"]
        /\ answer' = [answer EXCEPT ![s] = s]
        /\ UNCHANGED reason
     \/ /\ ~MayInsert(s)                       \* DuplicateIdempotencyKeyError
        /\ GiveUp(s, "duplicate")
        /\ UNCHANGED job
  /\ Calm
  /\ UNCHANGED <<key, payload, existing, sent, objects, unsure>>

InsertFails(s) ==
  /\ pc[s] = "insert"
  /\ \/ /\ Spend("database_error")
        /\ UNCHANGED <<job, unsure>>
     \/ /\ Spend("ambiguous") /\ MayInsert(s)
        /\ job' = [job EXCEPT ![key[s]] = s]
        /\ unsure' = unsure \cup {s}
  /\ GiveUp(s, "error")
  /\ UNCHANGED <<key, payload, existing, sent, objects>>

\* Mutation: after a refused upload or a failed insertion nothing is removed.
UndoesOnDuplicate(s) == IF reason[s] = "error" THEN {} ELSE Uploaded(s)
\* Mutation: the source of the job that won is removed along, as if both were stored
\* under one name.
UndoesWinner(s) == Uploaded(s) \cup ({job[key[s]]} \X (1..sent[s]))
\* The files _compensate() and _compensate_dataset() delete.
UndoneBy(s) == Uploaded(s)

\* What follows when everything was removed.
AfterUndo(s) ==
  CASE reason[s] = "existing"  -> Resolve(s, existing[s])
    [] reason[s] = "duplicate" -> Goto(s, "lookup")
    [] reason[s] = "error"     -> Goto(s, "error")

\* _compensate() swallows a refused deletion, _compensate_dataset() goes on with the
\* other files and then raises in place of any other outcome.
Undo(s) ==
  /\ pc[s] = "undo"
  /\ \/ /\ objects' = objects \ UndoneBy(s)
        /\ AfterUndo(s)
        /\ Calm
     \/ /\ UndoneBy(s) # {}
        /\ Spend("delete_error")
        /\ \E kept \in SUBSET UndoneBy(s) : objects' = objects \ (UndoneBy(s) \ kept)
        /\ IF key[s] \in DatasetKeys THEN Goto(s, "error") ELSE AfterUndo(s)
  /\ UNCHANGED <<job, key, payload, existing, sent, reason, unsure>>

\* The second look-up finds the job that won.
LookUp(s) ==
  /\ pc[s] = "lookup"
  /\ \/ Resolve(s, job[key[s]]) /\ Calm
     \/ Goto(s, "error") /\ Spend("database_error")
  /\ UNCHANGED <<job, key, payload, existing, sent, reason, objects, unsure>>

Crash(s) ==
  /\ pc[s] \notin Over \cup {"new"}
  /\ Spend("crash")
  /\ Goto(s, "crashed")
  /\ UNCHANGED <<job, key, payload, existing, sent, reason, objects, unsure>>

Next == \E s \in Submissions :
  \/ Submit(s) \/ Find(s)
  \/ UploadFile(s) \/ UploadDone(s) \/ UploadRefused(s) \/ UploadFails(s)
  \/ Insert(s) \/ InsertFails(s) \/ Undo(s) \/ LookUp(s) \/ Crash(s)

Spec == Init /\ [][Next]_submissionVars

-----------------------------------------------------------------------------
(* Properties *)

\* Every submission of a key that is answered with a job is answered with the one job
\* of that key, whose fingerprint is its own; it is refused as a conflict only when the
\* job of its key has another fingerprint, however the submissions of the key race.
AnswersAgree ==
  \A s \in Submissions :
    /\ answer[s] # None =>
         /\ answer[s] = job[key[s]]
         /\ key[answer[s]] = key[s]
         /\ Fingerprint(key[s], payload[answer[s]]) = Fingerprint(key[s], payload[s])
    /\ pc[s] = "conflict" =>
         /\ job[key[s]] # None
         /\ Fingerprint(key[s], payload[job[key[s]]]) # Fingerprint(key[s], payload[s])

\* The source of a job is complete in storage, whatever the submissions that lost
\* against it removed; except when the commit that created it raised, for then its
\* own submission removes it (job_service.py:224, 383).
SourceComplete ==
  \A k \in Keys : job[k] # None /\ job[k] \notin unsure => FilesOf(job[k]) \subseteq objects

\* Every submission that is over, created no job and left a file behind is paid for by a
\* fault of its own: no race of submissions and no refusal leaks a source file.
LeftoversBounded ==
  Cardinality({s \in Submissions : /\ pc[s] \in Over /\ job[key[s]] # s
                                   /\ \E i \in 1..DatasetSize : <<s, i>> \in objects})
    <= FaultBudget - budget

=============================================================================
