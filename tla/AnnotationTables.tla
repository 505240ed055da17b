--------------------------- MODULE AnnotationTables ---------------------------
(***************************************************************************)
(* The tables of an annotation project, and what each transaction that     *)
(* writes them commits: the people who edit its classes and boxes, the     *)
(* brand that adds data sets to it and the labelling that predicts boxes.  *)
(* Every writer but the brand raises the revision.                         *)
(***************************************************************************)
EXTENDS Integers, Sequences, FiniteSets, Functions

CONSTANTS
  Sources,        \* images of the brand's data sets, numbered by age
  FirstImages,    \* those the project was created with
  Classes,        \* identifiers of classes
  FirstYolo,      \* the index of each class at the start
  ModelClasses,   \* the classes of the snapshot of the newest model
  MaxBoxes,       \* max_boxes_per_project, and the worker's MAX_BOXES_PER_PROJECT
  MaxEdits        \* bound: people edit below this revision

NoIndex == -1

ASSUME TablesAssumption ==
  /\ Sources \subseteq Nat /\ IsFiniteSet(Sources) /\ IsFiniteSet(Classes)
  /\ FirstImages \subseteq Sources /\ FirstImages # {}
  /\ FirstYolo \in [Classes -> Nat \cup {NoIndex}]
  /\ \A c, d \in Classes : FirstYolo[c] = FirstYolo[d] => c = d \/ FirstYolo[c] = NoIndex
  /\ ModelClasses \subseteq Classes /\ ModelClasses # {}
  /\ MaxBoxes \in Nat /\ MaxEdits \in Nat

VARIABLES
  revision,   \* annotation_projects
  yolo,       \* annotation_classes: the index of each class, NoIndex if it is not there
  retired,    \* classes that have been deleted
  images,     \* annotation_images: the source at each index
  completed,
  boxes       \* annotation_boxes of each image

tableVars == <<revision, yolo, retired, images, completed, boxes>>

Indexes == 1..Cardinality(Sources)
\* A box is its class, the revision it was written at, and the labelling run that
\* predicted it, 0 if a person drew it.
Boxes == Classes \X Nat \X Nat
Drawn == 0

Present == {c \in Classes : yolo[c] # NoIndex}
Unborn == Classes \ (Present \cup retired)

\* The one sequence of a set of numbers that ascends.
InOrder(S) ==
  {s \in [1..Cardinality(S) -> S] : \A i, j \in 1..Cardinality(S) : i < j => s[i] < s[j]}

AllBoxes == UNION {{i} \X boxes[i] : i \in Indexes}

\* A save checks the limit on counts it has read before its update, and a prediction
\* under the lock of the project.
LimitHolds == Cardinality(AllBoxes) <= MaxBoxes

TableTypeOK ==
  /\ revision \in Nat
  /\ yolo \in [Classes -> Nat \cup {NoIndex}] /\ retired \subseteq Classes \ Present
  /\ \A c, d \in Present : yolo[c] = yolo[d] => c = d
  /\ images \in Seq(Sources) /\ Len(images) \in Indexes
  /\ \A i, j \in DOMAIN images : images[i] = images[j] => i = j
  /\ completed \in [Indexes -> BOOLEAN]
  /\ boxes \in [Indexes -> SUBSET Boxes]
  /\ \A i \in Indexes : boxes[i] # {} => i \in DOMAIN images
  /\ \A i \in Indexes : \A b \in boxes[i] : b[1] \in Present /\ b[2] <= revision
  /\ LimitHolds

TableInit ==
  /\ revision = 0 /\ yolo = FirstYolo /\ retired = {}
  /\ images \in InOrder(FirstImages)
  /\ completed = [i \in Indexes |-> FALSE] /\ boxes = [i \in Indexes |-> {}]

-----------------------------------------------------------------------------
(* Queries *)

Unlabelled(i) == i \in DOMAIN images /\ ~completed[i] /\ boxes[i] = {}
Completed == {i \in DOMAIN images : completed[i]}

\* The limit of the project's boxes, if image i gets n.
WithinLimit(i, n) == Cardinality(AllBoxes) - Cardinality(boxes[i]) + n <= MaxBoxes

\* func.max(yolo_index) + 1, or 0 without a class
NextYolo == CHOOSE n \in {0} \cup {yolo[c] + 1 : c \in Present} : \A c \in Present : yolo[c] < n

\* What delete_class() asks of a class.
Unused(c) == \A i \in Indexes : \A b \in boxes[i] : b[1] # c
Deletable(c) == Unused(c) /\ yolo[c] + 1 = NextYolo

Edits == revision < MaxEdits

-----------------------------------------------------------------------------
(* Commits *)

\* DELETE and INSERT: one box of each class that is asked for, say.
SavedBoxes(i, cs) == cs \X {revision + 1} \X {Drawn}

\* put_image(); a class that is gone would be refused by its foreign key.
CommitSave(i, cs, done) ==
  /\ cs \subseteq Present
  /\ boxes' = [boxes EXCEPT ![i] = SavedBoxes(i, cs)]
  /\ completed' = [completed EXCEPT ![i] = done]
  /\ revision' = revision + 1
  /\ UNCHANGED <<yolo, retired, images>>

\* create_class()
CommitClass ==
  /\ \E c \in Unborn : yolo' = [yolo EXCEPT ![c] = NextYolo]
  /\ revision' = revision + 1
  /\ UNCHANGED <<retired, images, completed, boxes>>

\* update_class(): a new name or colour
CommitUpdate ==
  /\ Present # {}
  /\ revision' = revision + 1
  /\ UNCHANGED <<yolo, retired, images, completed, boxes>>

\* delete_class(), with ON DELETE CASCADE for the boxes of the class
CommitDelete(c) ==
  /\ yolo' = [yolo EXCEPT ![c] = NoIndex]
  /\ retired' = retired \cup {c}
  /\ boxes' = [i \in Indexes |-> {b \in boxes[i] : b[1] # c}]
  /\ revision' = revision + 1
  /\ UNCHANGED <<images, completed>>

\* get_or_create_brand(): images that are missing go to the end in the order of their
\* age, and a class of the brand to an index, unless the project has it by name.
CommitAttach(missing, index) ==
  /\ \E order \in InOrder(missing) : images' = images \o order
  /\ \/ UNCHANGED yolo
     \/ \E c \in Unborn : /\ \A d \in Present : yolo[d] # index
                          /\ yolo' = [yolo EXCEPT ![c] = index]
  /\ UNCHANGED <<revision, retired, completed, boxes>>

\* _write_predictions(): boxes of the model's classes that are still there, as many as
\* there is room for, and nothing if that is none.
CommitPredictions(i, r) ==
  \E predicted \in SUBSET ModelClasses : \E cs \in SUBSET (predicted \cap Present) :
    /\ WithinLimit(i, Cardinality(cs))
    /\ cs = predicted \cap Present \/ ~WithinLimit(i, Cardinality(cs) + 1)
    /\ boxes' = [boxes EXCEPT ![i] = @ \cup (cs \X {revision + 1} \X {r})]
    /\ revision' = IF cs = {} THEN revision ELSE revision + 1
    /\ UNCHANGED <<yolo, retired, images, completed>>

-----------------------------------------------------------------------------
(* Properties *)

\* The boxes of an image are one save, or one attempt's prediction: attempts that are
\* superseded, their successors, later runs and people never mix theirs.
OneWriterPerImage ==
  \A i \in Indexes : \A a, b \in boxes[i] : a[2] = b[2] /\ a[3] = b[3]

=============================================================================
