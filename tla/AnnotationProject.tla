--------------------------- MODULE AnnotationProject ---------------------------
(***************************************************************************)
(* People who edit one annotation project through the API, each write      *)
(* guarded by the revision their workspace was shown; a brand that adds    *)
(* data sets to it; a labelling that fills images; and the snapshots that  *)
(* trainings are made from.                                                *)
(*                                                                         *)
(* Transactions are READ COMMITTED.  What a handler reads before its       *)
(* conditional UPDATE of the project is a step of its own; from that       *)
(* UPDATE to its commit the row lock keeps every other writer of the       *)
(* revision out, so the rest of the handler is one step.                   *)
(***************************************************************************)
EXTENDS AnnotationTables

CONSTANTS
  Users,          \* people, each with one workspace
  NoOne,          \* holds the project row when it is free
  MaxSnapshots,   \* max_snapshots_per_project
  MinImages       \* MIN_IMAGES of a snapshot

ASSUME ProjectAssumption ==
  NoOne \notin Users /\ MaxSnapshots \in Nat /\ MinImages \in Nat \ {0}

VARIABLES
  bound,      \* the project belongs to a brand
  snapshots,  \* annotation_training_runs: the revision of a snapshot and its boxes
  lock,       \* the request that holds the project row between its steps
  \* people: what their workspace does, its image, the revision and the boxes it was
  \* shown; what a request of theirs asks for and what the server has read for it
  pc, at, known, shown, asked, seen

shelfVars == <<bound, snapshots>>
userVars == <<pc, at, known, shown, asked, seen>>
projectVars == <<tableVars, shelfVars, lock, userVars>>

-----------------------------------------------------------------------------
(* Types *)

UserPC == {"away", "loading", "open", "saving", "saved", "deleting", "attaching", "selecting"}

\* Only a first attachment and a selection hold the project row across steps.
UserTypeOK ==
  /\ bound \in BOOLEAN
  /\ \A s \in snapshots : s.revision \in Nat /\ s.boxes \subseteq Indexes \X Boxes
  /\ lock \in Users \cup {NoOne}
  /\ pc \in [Users -> UserPC]
  /\ at \in [Users -> Indexes]
  /\ known \in [Users -> Nat] /\ shown \in [Users -> SUBSET Boxes]
  /\ asked \in [Users -> SUBSET (Classes \cup Nat)]
  /\ seen \in [Users -> Nat \X Nat]
  /\ \A u \in Users : /\ lock = u => pc[u] \in {"attaching", "selecting"}
                      /\ pc[u] = "selecting" => lock = u

TypeOK == TableTypeOK /\ UserTypeOK

Init ==
  /\ TableInit
  /\ bound = FALSE /\ snapshots = {} /\ lock = NoOne
  /\ pc = [u \in Users |-> "away"] /\ at = [u \in Users |-> 1]
  /\ known = [u \in Users |-> 0] /\ shown = [u \in Users |-> {}]
  /\ asked = [u \in Users |-> {}] /\ seen = [u \in Users |-> <<0, 0>>]

-----------------------------------------------------------------------------
(* Helpers *)

Free == lock = NoOne

Go(u, p) == pc' = [pc EXCEPT ![u] = p]

\* What a workspace is shown, and what it forgets when it is left or has to reload.
Show(u, i, rev, bs) ==
  /\ at' = [at EXCEPT ![u] = i]
  /\ known' = [known EXCEPT ![u] = rev]
  /\ shown' = [shown EXCEPT ![u] = bs]

Forget(u) == Show(u, 1, 0, {})

Ask(u, what, read) ==
  /\ asked' = [asked EXCEPT ![u] = what]
  /\ seen' = [seen EXCEPT ![u] = read]

Answered(u) == Ask(u, {}, <<0, 0>>)

\* The request is over and its workspace as it was, at a new revision, or to be reloaded.
Keep(u, p) == Go(u, p) /\ Answered(u) /\ UNCHANGED <<at, known, shown>>
Advance(u) == Go(u, "open") /\ Answered(u) /\ Show(u, at[u], known[u] + 1, shown[u])
Reload(u) == Go(u, "away") /\ Answered(u) /\ Forget(u)

\* Mutation: the revision is raised whatever it is.
CasAlways(u) == Free
\* _cas(): UPDATE ... WHERE revision = expected, which waits for the row.
Cas(u) == Free /\ revision = known[u]

\* A conflict changes nothing; the workspace says so and has to be reloaded.
Conflict(u) ==
  /\ Free /\ revision # known[u]
  /\ Reload(u)
  /\ UNCHANGED <<tableVars, shelfVars, lock>>

-----------------------------------------------------------------------------
(* Reading: image() for a workspace that opens an image, turns to one or reloads *)

\* The project comes first, with its revision.  (An answer that is lost leaves the
\* workspace as it was: that read is left out.)
LoadRead(u) ==
  /\ pc[u] \in {"away", "open"}
  /\ Go(u, "loading")
  /\ \E i \in DOMAIN images : Ask(u, {i}, <<revision, 0>>)
  /\ Forget(u)
  /\ UNCHANGED <<tableVars, shelfVars, lock>>

\* Then the boxes, which may be newer.
LoadReply(u) ==
  /\ pc[u] = "loading"
  /\ \E i \in asked[u] : Show(u, i, seen[u][1], boxes[i])
  /\ Go(u, "open")
  /\ Answered(u)
  /\ UNCHANGED <<tableVars, shelfVars, lock>>

Leave(u) ==
  /\ pc[u] = "open"
  /\ Reload(u)
  /\ UNCHANGED <<tableVars, shelfVars, lock>>

-----------------------------------------------------------------------------
(* Saving an image: put_image() *)

\* Classes and counts are read before the update.
SaveRead(u) ==
  /\ pc[u] = "open" /\ Edits
  /\ \E cs \in SUBSET Present :
       /\ WithinLimit(at[u], Cardinality(cs))
       /\ Ask(u, cs, <<0, 0>>)
  /\ Go(u, "saving")
  /\ UNCHANGED <<tableVars, shelfVars, lock, at, known, shown>>

\* The workspace completes an image exactly if it has boxes; the API takes any image as
\* completed or not.
SaveCommit(u) ==
  /\ pc[u] = "saving"
  /\ Cas(u)
  /\ \E done \in BOOLEAN : CommitSave(at[u], asked[u], done)
  /\ Go(u, "saved")
  /\ UNCHANGED <<shelfVars, lock, at, known, shown, asked, seen>>

SaveConflict(u) == pc[u] = "saving" /\ Conflict(u)

\* The answer is image() once more, in a new transaction, under the save's own revision.
SaveReply(u) ==
  /\ pc[u] = "saved"
  /\ Show(u, at[u], known[u] + 1, boxes[at[u]])
  /\ Go(u, "open")
  /\ Answered(u)
  /\ UNCHANGED <<tableVars, shelfVars, lock>>

\* A lost answer leaves the workspace with its changes and the old revision.
SaveLost(u) ==
  /\ pc[u] = "saved"
  /\ Keep(u, "open")
  /\ UNCHANGED <<tableVars, shelfVars, lock>>

-----------------------------------------------------------------------------
(* Classes *)

\* The answer arrives, or the workspace stays at the old revision.
ClassAnswer(u) == Advance(u) \/ Keep(u, "open")

\* create_class(), where everything follows the conditional update, and update_class()
CreateClass(u) ==
  /\ pc[u] = "open" /\ Edits
  /\ Cas(u)
  /\ CommitClass
  /\ ClassAnswer(u)
  /\ UNCHANGED <<shelfVars, lock>>

UpdateClass(u) ==
  /\ pc[u] = "open" /\ Edits
  /\ Cas(u)
  /\ CommitUpdate
  /\ ClassAnswer(u)
  /\ UNCHANGED <<shelfVars, lock>>

ClassConflict(u) ==
  /\ pc[u] \in {"open", "deleting"}
  /\ Conflict(u)

\* delete_class(): the class, its boxes and the highest index are read first.
DeleteRead(u) ==
  /\ pc[u] = "open" /\ Edits
  /\ \E c \in Present : Deletable(c) /\ Ask(u, {c}, <<0, 0>>)
  /\ Go(u, "deleting")
  /\ UNCHANGED <<tableVars, shelfVars, lock, at, known, shown>>

DeleteCommit(u) ==
  /\ pc[u] = "deleting"
  /\ Cas(u)
  /\ \E c \in asked[u] : CommitDelete(c)
  /\ ClassAnswer(u)
  /\ UNCHANGED <<shelfVars, lock>>

-----------------------------------------------------------------------------
(* A brand's data sets and classes: get_or_create_brand() *)

\* The data sets that are ready are read, and the project; its row is locked when it gets
\* its brand.  Then its images and classes.  (A request that can add nothing is left out.)
AttachRead(u) ==
  /\ pc[u] = "away"
  /\ \E found \in SUBSET Sources :
       /\ found \subseteq Range(images) => Unborn # {}
       /\ Ask(u, found \ Range(images), <<Len(images), NextYolo>>)
  /\ IF bound THEN UNCHANGED lock ELSE Free /\ lock' = u
  /\ Go(u, "attaching")
  /\ UNCHANGED <<tableVars, shelfVars, at, known, shown>>

\* Mutation: the key of the images does not refuse a row.
NeverTaken(u) == FALSE
\* Another request has added images, and so has taken the indexes of these.
Taken(u) == asked[u] # {} /\ Len(images) # seen[u][1]

Release(u) == lock' = IF lock = u THEN NoOne ELSE lock

\* The revision is not raised.
AttachCommit(u) ==
  /\ pc[u] = "attaching"
  /\ lock \in {u, NoOne}
  /\ ~Taken(u)
  /\ CommitAttach(asked[u], seen[u][2])
  /\ bound' = TRUE
  /\ Release(u)
  /\ Keep(u, "away")
  /\ UNCHANGED snapshots

\* A unique index refuses a row, or the request is given up.
AttachAbort(u) ==
  /\ pc[u] = "attaching"
  /\ Release(u)
  /\ Keep(u, "away")
  /\ UNCHANGED <<tableVars, shelfVars>>

-----------------------------------------------------------------------------
(* The snapshot of a training: AnnotationTrainingService.create *)

\* Mutation: the project is read without its lock.
SelectUnlocked(u) == UNCHANGED lock
SelectLock(u) == lock' = u

\* The project row is locked, the revision compared with the one that was asked for,
\* and the completed images are selected.
SelectRead(u) ==
  /\ pc[u] = "away" /\ Free
  /\ \A s \in snapshots : s.revision # revision
  /\ Cardinality(snapshots) < MaxSnapshots
  /\ Cardinality(Completed) >= MinImages
  /\ Ask(u, Completed, <<revision, 0>>)
  /\ SelectLock(u)
  /\ Go(u, "selecting")
  /\ UNCHANGED <<tableVars, shelfVars, at, known, shown>>

\* Classes and boxes follow, and the rows of the snapshot, unless there are no boxes.
SelectCommit(u) ==
  /\ pc[u] = "selecting"
  /\ LET taken == UNION {{i} \X boxes[i] : i \in asked[u]} IN
       snapshots' = IF taken = {} THEN snapshots
                    ELSE snapshots \cup {[revision |-> seen[u][1], boxes |-> taken]}
  /\ Release(u)
  /\ Keep(u, "away")
  /\ UNCHANGED <<tableVars, bound>>

-----------------------------------------------------------------------------
(* A labelling at work: _write_predictions(), under the lock of the project *)

Predict ==
  /\ Free
  /\ \E i \in Indexes : Unlabelled(i) /\ CommitPredictions(i, 1)
  /\ UNCHANGED <<shelfVars, lock, userVars>>

-----------------------------------------------------------------------------
(* The specification *)

Reading(u) == LoadRead(u) \/ LoadReply(u) \/ Leave(u)
Saving(u) == SaveRead(u) \/ SaveCommit(u) \/ SaveConflict(u) \/ SaveReply(u) \/ SaveLost(u)
Classing(u) ==
  CreateClass(u) \/ UpdateClass(u) \/ DeleteRead(u) \/ DeleteCommit(u) \/ ClassConflict(u)
Attaching(u) == AttachRead(u) \/ AttachCommit(u) \/ AttachAbort(u)
Selecting(u) == SelectRead(u) \/ SelectCommit(u)

Next ==
  \/ \E u \in Users : Reading(u) \/ Saving(u) \/ Classing(u) \/ Attaching(u) \/ Selecting(u)
  \/ Predict

Spec == Init /\ [][Next]_projectVars

-----------------------------------------------------------------------------
(* Properties *)

\* A save replaces exactly the boxes its user was shown: whatever other people and a
\* labelling have written meanwhile to the image is a conflict, and is never lost.
NoLostUpdate ==
  [][\A u \in Users : pc[u] = "saving" /\ pc'[u] = "saved" => boxes[at[u]] = shown[u]
    ]_projectVars

\* The deletion of a class, checked before the update and cascading after it, takes no
\* box with it: not one that was saved or predicted in between.
DeletionKeepsBoxes == [][retired' # retired => boxes' = boxes]_projectVars

\* A snapshot holds its project as of its source revision, although its images, classes
\* and boxes are read one after the other and brands add images without a revision.
SnapshotIsRevision ==
  \A s \in snapshots :
    /\ \A x \in s.boxes : x[2][2] <= s.revision
    /\ s.revision = revision => s.boxes = UNION {{i} \X boxes[i] : i \in Completed}

=============================================================================
