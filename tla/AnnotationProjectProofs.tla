------------------------ MODULE AnnotationProjectProofs ------------------------
(***************************************************************************)
(* Proofs about AnnotationProject, for any people, images, classes and     *)
(* limits: its types, that a save replaces what its user was shown, that   *)
(* the deletion of a class takes no box with it, and that a snapshot is    *)
(* the project at one revision.                                            *)
(*                                                                         *)
(* The argument is what a revision stands for.  A transaction either       *)
(* raises the revision or leaves boxes and completions alone; so whoever   *)
(* still knows the newest revision was shown the newest boxes.             *)
(***************************************************************************)
EXTENDS AnnotationProject, AnnotationTablesProofs

-----------------------------------------------------------------------------
(* The inductive invariant *)

\* What a workspace knows of the revision and of the image it is at.
KnowsInv(u) ==
  /\ known[u] <= revision
  /\ pc[u] = "saved" => known[u] < revision
  /\ pc[u] \in {"open", "saving", "saved", "deleting"} => at[u] \in DOMAIN images
  /\ pc[u] \in {"open", "saving", "deleting"} /\ known[u] = revision
     => shown[u] = boxes[at[u]]

\* What a request has read is true until the revision is another than the user knows.
ReadInv(u) ==
  /\ pc[u] = "loading" => asked[u] \subseteq DOMAIN images /\ seen[u][1] <= revision
  /\ pc[u] = "saving" => asked[u] \subseteq Classes
  /\ pc[u] = "saving" /\ known[u] = revision => WithinLimit(at[u], Cardinality(asked[u]))
  /\ pc[u] = "deleting" => asked[u] \subseteq Classes
  /\ pc[u] = "deleting" /\ known[u] = revision
     => \A c \in asked[u] : c \in Present /\ Unused(c)

\* The images that a brand's request is to add are missing until others have added some.
AttachingInv(u) ==
  pc[u] = "attaching" =>
    /\ asked[u] \subseteq Sources /\ seen[u][1] <= Len(images)
    /\ Len(images) = seen[u][1] => asked[u] \cap Range(images) = {}

\* A selection holds the project row, so its images are still the completed ones.
SelectingInv(u) == pc[u] = "selecting" => seen[u][1] = revision /\ asked[u] = Completed

UserInv(u) == KnowsInv(u) /\ ReadInv(u) /\ AttachingInv(u) /\ SelectingInv(u)

UsersInv == \A u \in Users : UserInv(u)

\* Only images that are there are completed, and no snapshot is ahead of the project.
ShelfInv ==
  /\ \A i \in Indexes \ DOMAIN images : ~completed[i]
  /\ \A s \in snapshots : s.revision <= revision
  /\ SnapshotIsRevision

IInv == TableInv /\ UserTypeOK /\ UsersInv /\ ShelfInv

-----------------------------------------------------------------------------
(* Steps of the tables *)

\* What every transaction keeps: boxes, completions and classes only change under a new
\* revision, and images are only added.
Onward ==
  /\ revision' >= revision
  /\ revision' = revision => UNCHANGED <<boxes, completed>> /\ Present \subseteq Present'
  /\ DOMAIN images \subseteq DOMAIN images'
  /\ images' = images \/ Len(images') > Len(images)

LEMMA RaiseIsOnward ==
  ASSUME TableTypeOK, revision' = revision + 1, UNCHANGED images
  PROVE  Onward
BY DEF Onward, TableTypeOK

LEMMA StayIsOnward ==
  ASSUME TableTypeOK, UNCHANGED tableVars
  PROVE  Onward
BY DEF Onward, TableTypeOK, tableVars, Present

LEMMA AttachIsOnward ==
  ASSUME TableInv, NEW missing \in SUBSET (Sources \ Range(images)), NEW index \in Nat,
         CommitAttach(missing, index)
  PROVE  Onward
<1>1. Present \subseteq Present' /\ DOMAIN images \subseteq DOMAIN images'
      /\ (images' = images \/ Len(images') > Len(images))
  BY AttachInv
<1>. QED BY <1>1 DEF Onward, CommitAttach, TableInv, TableTypeOK

LEMMA PredictionIsOnward ==
  ASSUME TableTypeOK, NEW i, Unlabelled(i), NEW r \in Nat, CommitPredictions(i, r)
  PROVE  Onward /\ UNCHANGED <<images, completed>>
<1>1. i \in Indexes /\ boxes[i] = {}
  BY IndexesOfImages DEF Unlabelled
<1>2. PICK cs \in SUBSET Present :
        /\ IF cs = {} THEN UNCHANGED <<revision, boxes>> ELSE revision' = revision + 1
        /\ UNCHANGED <<yolo, retired, images, completed>>
  BY <1>1, PredictionRows
<1>. QED BY <1>2 DEF Onward, TableTypeOK, Present

\* The images that are completed stay those while completions do.
LEMMA SameCompleted ==
  ASSUME TableTypeOK, TableTypeOK', Onward, UNCHANGED completed,
         \A i \in Indexes \ DOMAIN images : ~completed[i]
  PROVE  Completed' = Completed
<1>1. DOMAIN images \subseteq DOMAIN images' /\ DOMAIN images' \subseteq Indexes
  <2>1. Len(images) \in Nat /\ Len(images') \in Nat /\ Len(images') <= Cardinality(Sources)
    BY IndexesFinite DEF TableTypeOK, Indexes
  <2>2. DOMAIN images' = 1..Len(images')
    BY LenProperties DEF TableTypeOK
  <2>. QED BY <2>1, <2>2, IndexesFinite DEF Onward, Indexes
<1>. QED BY <1>1 DEF Completed

-----------------------------------------------------------------------------
(* A step of one user *)

\* A workspace and its request during a step of another.
Waits(w) ==
  /\ pc'[w] = pc[w] /\ at'[w] = at[w] /\ known'[w] = known[w] /\ shown'[w] = shown[w]
  /\ asked'[w] = asked[w] /\ seen'[w] = seen[w]

OthersWait(u) == \A w \in Users \ {u} : Waits(w)

\* A request that is under way in another workspace can still rely on what it has read.
LEMMA WaitingInv ==
  ASSUME TableTypeOK, TableTypeOK', Onward, UserTypeOK, NEW w \in Users, Waits(w), UserInv(w),
         pc[w] = "selecting" => revision' = revision /\ Completed' = Completed
  PROVE  UserInv(w)'
<1>. USE DEF Waits
<1>0. /\ revision \in Nat /\ revision' \in Nat /\ known[w] \in Nat
      /\ Len(images) \in Nat /\ Len(images') \in Nat
      /\ seen[w] \in Nat \X Nat
  BY IndexesFinite DEF TableTypeOK, UserTypeOK, Indexes
<1>1. known[w] = revision' => revision' = revision /\ UNCHANGED boxes /\ Present \subseteq Present'
  BY <1>0 DEF Onward, UserInv, KnowsInv
<1>2. KnowsInv(w)'
  BY <1>0, <1>1 DEF UserInv, KnowsInv, Onward
<1>3. ReadInv(w)'
  <2>1. pc[w] = "loading" => asked[w] \subseteq DOMAIN images' /\ seen[w][1] <= revision'
    BY <1>0 DEF UserInv, ReadInv, Onward
  <2>2. UNCHANGED boxes
        => /\ WithinLimit(at[w], Cardinality(asked[w]))' = WithinLimit(at[w], Cardinality(asked[w]))
           /\ \A c : Unused(c)' = Unused(c)
    BY DEF WithinLimit, AllBoxes, Unused, Indexes
  <2>3. pc[w] = "saving" /\ known[w] = revision'
        => WithinLimit(at[w], Cardinality(asked[w]))'
    BY <1>1, <2>2 DEF UserInv, ReadInv
  <2>4. pc[w] = "deleting" /\ known[w] = revision'
        => \A c \in asked[w] : c \in Present' /\ Unused(c)'
    BY <1>1, <2>2 DEF UserInv, ReadInv
  <2>. QED BY <2>1, <2>3, <2>4 DEF UserInv, ReadInv
<1>4. AttachingInv(w)'
  BY <1>0 DEF UserInv, AttachingInv, Onward
<1>5. SelectingInv(w)'
  BY DEF UserInv, SelectingInv
<1>. QED BY <1>2, <1>3, <1>4, <1>5 DEF UserInv

\* So do the snapshots there are.
LEMMA ShelfStays ==
  ASSUME TableTypeOK, TableTypeOK', Onward, UserTypeOK, ShelfInv, UNCHANGED snapshots,
         \A i \in Indexes \ DOMAIN images' : ~completed'[i]
  PROVE  ShelfInv'
<1>. revision \in Nat /\ revision' \in Nat /\ \A s \in snapshots : s.revision \in Nat
  BY DEF TableTypeOK, UserTypeOK
<1>1. revision' = revision
      => UNCHANGED boxes /\ Completed' = Completed
  BY SameCompleted DEF Onward, ShelfInv
<1>2. \A s \in snapshots : s.revision <= revision'
  BY DEF Onward, ShelfInv
<1>3. \A s \in snapshots : s.revision = revision' => revision' = revision
  BY <1>2 DEF Onward, ShelfInv
<1>4. SnapshotIsRevision'
  BY <1>1, <1>3 DEF ShelfInv, SnapshotIsRevision
<1>. QED BY <1>2, <1>4 DEF ShelfInv

\* What a step of one user has to show for the invariant.
LEMMA UserStep ==
  ASSUME IInv, NEW u \in Users, TableInv', Onward, UserTypeOK', OthersWait(u),
         UNCHANGED snapshots, \A i \in Indexes \ DOMAIN images' : ~completed'[i],
         Free \/ lock = u \/ UNCHANGED tableVars, UserInv(u)'
  PROVE  IInv'
<1>. TableTypeOK /\ TableTypeOK' /\ UserTypeOK
  BY DEF IInv, TableInv
<1>1. ASSUME NEW w \in Users, w # u
      PROVE  UserInv(w)'
  <2>1. pc[w] = "selecting" => UNCHANGED tableVars
    BY <1>1, ProjectAssumption DEF UserTypeOK, Free
  <2>2. pc[w] = "selecting" => revision' = revision /\ Completed' = Completed
    BY <2>1 DEF tableVars, Completed
  <2>3. UserInv(w)
    BY DEF IInv, UsersInv
  <2>. QED BY <1>1, <2>2, <2>3, WaitingInv DEF OthersWait
<1>2. ShelfInv'
  BY ShelfStays DEF IInv
<1>. QED BY <1>1, <1>2 DEF IInv, UsersInv

-----------------------------------------------------------------------------
(* What becomes of a workspace *)

LEMMA Goes ==
  ASSUME UserTypeOK, NEW u \in Users, NEW p \in UserPC, Go(u, p)
  PROVE  /\ pc' \in [Users -> UserPC] /\ pc'[u] = p
         /\ \A w \in Users \ {u} : pc'[w] = pc[w]
BY DEF UserTypeOK, Go

LEMMA Shows ==
  ASSUME UserTypeOK, NEW u \in Users, NEW i \in Indexes, NEW rev \in Nat,
         NEW bs \in SUBSET Boxes, Show(u, i, rev, bs)
  PROVE  /\ at' \in [Users -> Indexes] /\ known' \in [Users -> Nat]
         /\ shown' \in [Users -> SUBSET Boxes]
         /\ at'[u] = i /\ known'[u] = rev /\ shown'[u] = bs
         /\ \A w \in Users \ {u} : at'[w] = at[w] /\ known'[w] = known[w] /\ shown'[w] = shown[w]
BY DEF UserTypeOK, Show

LEMMA Asks ==
  ASSUME UserTypeOK, NEW u \in Users, NEW what \in SUBSET (Classes \cup Nat),
         NEW read \in Nat \X Nat, Ask(u, what, read)
  PROVE  /\ asked' \in [Users -> SUBSET (Classes \cup Nat)] /\ seen' \in [Users -> Nat \X Nat]
         /\ asked'[u] = what /\ seen'[u] = read
         /\ \A w \in Users \ {u} : asked'[w] = asked[w] /\ seen'[w] = seen[w]
BY DEF UserTypeOK, Ask

LEMMA FirstIndex ==
  ASSUME TableTypeOK
  PROVE  1 \in Indexes /\ {} \in SUBSET Boxes /\ 0 \in Nat
BY IndexesFinite DEF TableTypeOK, Indexes

\* A workspace that has to be reloaded knows nothing that could be out of date.
LEMMA ReloadInv ==
  ASSUME TableTypeOK, TableTypeOK', UserTypeOK, NEW u \in Users, lock # u, Reload(u),
         UNCHANGED <<shelfVars, lock>>
  PROVE  UserTypeOK' /\ OthersWait(u) /\ UserInv(u)'
<1>1. pc' \in [Users -> UserPC] /\ pc'[u] = "away" /\ \A w \in Users \ {u} : pc'[w] = pc[w]
  BY Goes DEF Reload, UserPC
<1>2. /\ at' \in [Users -> Indexes] /\ known' \in [Users -> Nat]
      /\ shown' \in [Users -> SUBSET Boxes] /\ known'[u] = 0
      /\ \A w \in Users \ {u} : at'[w] = at[w] /\ known'[w] = known[w] /\ shown'[w] = shown[w]
  BY FirstIndex, Shows DEF Reload, Forget
<1>3. /\ asked' \in [Users -> SUBSET (Classes \cup Nat)] /\ seen' \in [Users -> Nat \X Nat]
      /\ \A w \in Users \ {u} : asked'[w] = asked[w] /\ seen'[w] = seen[w]
  BY Asks DEF Reload, Answered
<1>4. UserTypeOK'
  BY <1>1, <1>2, <1>3 DEF UserTypeOK, shelfVars
<1>5. UserInv(u)'
  BY <1>1, <1>2 DEF UserInv, KnowsInv, ReadInv, AttachingInv, SelectingInv, TableTypeOK
<1>. QED BY <1>1, <1>2, <1>3, <1>4, <1>5 DEF OthersWait, Waits

\* A request that is over leaves its workspace as it was.
LEMMA KeepTypes ==
  ASSUME UserTypeOK, NEW u \in Users, NEW p \in {"away", "open"}, Keep(u, p),
         Release(u), bound' \in BOOLEAN,
         \A s \in snapshots' : s.revision \in Nat /\ s.boxes \subseteq Indexes \X Boxes
  PROVE  /\ UserTypeOK' /\ OthersWait(u) /\ pc'[u] = p
         /\ at'[u] = at[u] /\ known'[u] = known[u] /\ shown'[u] = shown[u]
<1>1. pc' \in [Users -> UserPC] /\ pc'[u] = p /\ \A w \in Users \ {u} : pc'[w] = pc[w]
  BY Goes DEF Keep, UserPC
<1>2. /\ asked' \in [Users -> SUBSET (Classes \cup Nat)] /\ seen' \in [Users -> Nat \X Nat]
      /\ \A w \in Users \ {u} : asked'[w] = asked[w] /\ seen'[w] = seen[w]
  BY Asks DEF Keep, Answered
<1>3. UNCHANGED <<at, known, shown>>
  BY DEF Keep
<1>4. UserTypeOK'
  <2>1. \A w \in Users : /\ lock' = w => pc'[w] \in {"attaching", "selecting"}
                         /\ pc'[w] = "selecting" => lock' = w
    BY <1>1, ProjectAssumption DEF UserTypeOK, Release
  <2>2. lock' \in Users \cup {NoOne}
    BY DEF UserTypeOK, Release
  <2>. QED BY <1>1, <1>2, <1>3, <2>1, <2>2 DEF UserTypeOK
<1>. QED BY <1>1, <1>2, <1>3, <1>4 DEF OthersWait, Waits

-----------------------------------------------------------------------------
(* The steps: reading *)

\* The lock is not held by a workspace that reads, edits or has left.
LEMMA Unlocked ==
  ASSUME UserTypeOK, NEW u \in Users, pc[u] \notin {"attaching", "selecting"}
  PROVE  lock # u
BY DEF UserTypeOK

LEMMA CompletedThere ==
  ASSUME ShelfInv, UNCHANGED <<images, completed>>
  PROVE  \A i \in Indexes \ DOMAIN images' : ~completed'[i]
BY DEF ShelfInv

LEMMA LoadReadInv ==
  ASSUME IInv, NEW u \in Users, LoadRead(u)
  PROVE  IInv'
<1>. TableInv /\ TableTypeOK /\ UserTypeOK /\ revision \in Nat
  BY DEF IInv, TableInv, TableTypeOK
<1>0. UNCHANGED <<tableVars, shelfVars, lock>>
  BY DEF LoadRead
<1>1. PICK i \in DOMAIN images : Ask(u, {i}, <<revision, 0>>)
  BY DEF LoadRead
<1>2. /\ pc' \in [Users -> UserPC] /\ pc'[u] = "loading"
      /\ \A w \in Users \ {u} : pc'[w] = pc[w]
  BY Goes DEF LoadRead, UserPC
<1>3. /\ at' \in [Users -> Indexes] /\ known' \in [Users -> Nat]
      /\ shown' \in [Users -> SUBSET Boxes] /\ known'[u] = 0
      /\ \A w \in Users \ {u} : at'[w] = at[w] /\ known'[w] = known[w] /\ shown'[w] = shown[w]
  BY FirstIndex, Shows DEF LoadRead, Forget
<1>4. /\ asked' \in [Users -> SUBSET (Classes \cup Nat)] /\ seen' \in [Users -> Nat \X Nat]
      /\ asked'[u] = {i} /\ seen'[u] = <<revision, 0>>
      /\ \A w \in Users \ {u} : asked'[w] = asked[w] /\ seen'[w] = seen[w]
  <2>1. {i} \in SUBSET (Classes \cup Nat)
    BY IndexesOfImages DEF Indexes
  <2>. QED BY <1>1, <2>1, Asks
<1>5. TableInv' /\ Onward
  BY <1>0, TablesStay, StayIsOnward
<1>6. UserTypeOK'
  BY <1>0, <1>2, <1>3, <1>4, Unlocked DEF UserTypeOK, shelfVars, LoadRead
<1>7. UserInv(u)'
  BY <1>0, <1>2, <1>3, <1>4
     DEF UserInv, KnowsInv, ReadInv, AttachingInv, SelectingInv, tableVars
<1>8. OthersWait(u)
  BY <1>2, <1>3, <1>4 DEF OthersWait, Waits
<1>. QED BY <1>0, <1>5, <1>6, <1>7, <1>8, UserStep, CompletedThere DEF tableVars, shelfVars, IInv

LEMMA LoadReplyInv ==
  ASSUME IInv, NEW u \in Users, LoadReply(u)
  PROVE  IInv'
<1>. TableInv /\ TableTypeOK /\ UserTypeOK /\ revision \in Nat /\ UserInv(u)
  BY DEF IInv, TableInv, TableTypeOK, UsersInv
<1>0. UNCHANGED <<tableVars, shelfVars, lock>> /\ pc[u] = "loading"
  BY DEF LoadReply
<1>1. PICK i \in asked[u] : Show(u, i, seen[u][1], boxes[i])
  BY DEF LoadReply
<1>2. /\ pc' \in [Users -> UserPC] /\ pc'[u] = "open"
      /\ \A w \in Users \ {u} : pc'[w] = pc[w]
  BY Goes DEF LoadReply, UserPC
<1>3. i \in DOMAIN images /\ i \in Indexes /\ seen[u][1] <= revision /\ seen[u][1] \in Nat
      /\ boxes[i] \in SUBSET Boxes
  <2>1. i \in DOMAIN images /\ seen[u][1] <= revision
    BY <1>0 DEF UserInv, ReadInv
  <2>2. seen[u] \in Nat \X Nat
    BY DEF UserTypeOK
  <2>3. i \in Indexes
    BY <2>1, IndexesOfImages
  <2>. QED BY <2>1, <2>2, <2>3 DEF TableTypeOK
<1>4. /\ at' \in [Users -> Indexes] /\ known' \in [Users -> Nat]
      /\ shown' \in [Users -> SUBSET Boxes]
      /\ at'[u] = i /\ known'[u] = seen[u][1] /\ shown'[u] = boxes[i]
      /\ \A w \in Users \ {u} : at'[w] = at[w] /\ known'[w] = known[w] /\ shown'[w] = shown[w]
  BY <1>1, <1>3, Shows
<1>5. /\ asked' \in [Users -> SUBSET (Classes \cup Nat)] /\ seen' \in [Users -> Nat \X Nat]
      /\ \A w \in Users \ {u} : asked'[w] = asked[w] /\ seen'[w] = seen[w]
  BY Asks DEF LoadReply, Answered
<1>6. TableInv' /\ Onward
  BY <1>0, TablesStay, StayIsOnward
<1>7. UserTypeOK'
  BY <1>0, <1>2, <1>4, <1>5 DEF UserTypeOK, shelfVars
<1>8. UserInv(u)'
  BY <1>0, <1>2, <1>3, <1>4
     DEF UserInv, KnowsInv, ReadInv, AttachingInv, SelectingInv, tableVars
<1>9. OthersWait(u)
  BY <1>2, <1>4, <1>5 DEF OthersWait, Waits
<1>. QED BY <1>0, <1>6, <1>7, <1>8, <1>9, UserStep, CompletedThere DEF tableVars, shelfVars, IInv

\* Leave and every conflict
LEMMA ReloadStep ==
  ASSUME IInv, NEW u \in Users, pc[u] \notin {"attaching", "selecting"}, Reload(u),
         UNCHANGED <<tableVars, shelfVars, lock>>
  PROVE  IInv'
<1>. TableInv /\ TableTypeOK /\ UserTypeOK
  BY DEF IInv, TableInv
<1>1. TableInv' /\ Onward
  BY TablesStay, StayIsOnward
<1>2. UserTypeOK' /\ OthersWait(u) /\ UserInv(u)'
  BY <1>1, ReloadInv, Unlocked DEF TableInv
<1>. QED BY <1>1, <1>2, UserStep, CompletedThere DEF tableVars, shelfVars, IInv

LEMMA LeaveInv ==
  ASSUME IInv, NEW u \in Users, Leave(u)
  PROVE  IInv'
BY ReloadStep DEF Leave

LEMMA ConflictInv ==
  ASSUME IInv, NEW u \in Users, SaveConflict(u) \/ ClassConflict(u)
  PROVE  IInv'
<1>1. /\ pc[u] \notin {"attaching", "selecting"} /\ Reload(u)
      /\ UNCHANGED <<tableVars, shelfVars, lock>>
  BY DEF SaveConflict, ClassConflict, Conflict
<1>. QED BY <1>1, ReloadStep

-----------------------------------------------------------------------------
(* The steps: saving *)

\* A request that starts asks for classes, and its workspace stays as it is.
LEMMA AskTypes ==
  ASSUME UserTypeOK, NEW u \in Users, pc[u] = "open",
         NEW p \in {"saving", "deleting"}, Go(u, p),
         NEW cs \in SUBSET Classes, Ask(u, cs, <<0, 0>>),
         UNCHANGED <<shelfVars, lock, at, known, shown>>
  PROVE  /\ UserTypeOK' /\ OthersWait(u) /\ pc'[u] = p /\ asked'[u] = cs
<1>1. pc' \in [Users -> UserPC] /\ pc'[u] = p /\ \A w \in Users \ {u} : pc'[w] = pc[w]
  BY Goes DEF UserPC
<1>2. /\ asked' \in [Users -> SUBSET (Classes \cup Nat)] /\ seen' \in [Users -> Nat \X Nat]
      /\ asked'[u] = cs
      /\ \A w \in Users \ {u} : asked'[w] = asked[w] /\ seen'[w] = seen[w]
  BY Asks
<1>3. UserTypeOK'
  BY <1>1, <1>2 DEF UserTypeOK, shelfVars
<1>. QED BY <1>1, <1>2, <1>3 DEF OthersWait, Waits

LEMMA SaveReadInv ==
  ASSUME IInv, NEW u \in Users, SaveRead(u)
  PROVE  IInv'
<1>. TableInv /\ TableTypeOK /\ UserTypeOK /\ UserInv(u)
  BY DEF IInv, TableInv, UsersInv
<1>0. UNCHANGED <<tableVars, shelfVars, lock, at, known, shown>> /\ pc[u] = "open"
  BY DEF SaveRead
<1>1. PICK cs \in SUBSET Present : WithinLimit(at[u], Cardinality(cs)) /\ Ask(u, cs, <<0, 0>>)
  BY DEF SaveRead
<1>2. UserTypeOK' /\ OthersWait(u) /\ pc'[u] = "saving" /\ asked'[u] = cs /\ cs \subseteq Classes
  <2>1. cs \in SUBSET Classes
    BY DEF Present
  <2>. QED BY <1>0, <1>1, <2>1, AskTypes DEF SaveRead
<1>3. TableInv' /\ Onward
  BY <1>0, TablesStay, StayIsOnward
<1>4. WithinLimit(at[u], Cardinality(asked[u]))'
  BY <1>0, <1>1, <1>2 DEF WithinLimit, AllBoxes, tableVars, Indexes
<1>5. UserInv(u)'
  BY <1>0, <1>2, <1>4 DEF UserInv, KnowsInv, ReadInv, AttachingInv, SelectingInv, tableVars
<1>. QED BY <1>0, <1>2, <1>3, <1>5, UserStep, CompletedThere DEF tableVars, shelfVars, IInv

LEMMA SaveCommitInv ==
  ASSUME IInv, NEW u \in Users, SaveCommit(u)
  PROVE  IInv'
<1>. /\ TableInv /\ TableTypeOK /\ UserTypeOK /\ UserInv(u) /\ revision \in Nat
     /\ UNCHANGED <<shelfVars, lock, at, known, shown, asked, seen>> /\ pc[u] = "saving"
     /\ Free /\ revision = known[u]
  BY DEF IInv, TableInv, TableTypeOK, UsersInv, SaveCommit, Cas
<1>1. at[u] \in DOMAIN images /\ WithinLimit(at[u], Cardinality(asked[u]))
  BY DEF UserInv, KnowsInv, ReadInv
<1>2. PICK done \in BOOLEAN : CommitSave(at[u], asked[u], done)
  BY DEF SaveCommit
<1>3. TableInv' /\ Onward /\ revision' = revision + 1 /\ UNCHANGED images
  <2>1. revision' = revision + 1 /\ UNCHANGED images
    BY <1>2 DEF CommitSave
  <2>. QED BY <1>1, <1>2, <2>1, SaveInv, RaiseIsOnward
<1>4. pc' \in [Users -> UserPC] /\ pc'[u] = "saved" /\ \A w \in Users \ {u} : pc'[w] = pc[w]
  BY Goes DEF SaveCommit, UserPC
<1>5. UserTypeOK' /\ OthersWait(u)
  BY <1>4, Unlocked DEF UserTypeOK, OthersWait, Waits, shelfVars
<1>6. UserInv(u)'
  BY <1>1, <1>3, <1>4 DEF UserInv, KnowsInv, ReadInv, AttachingInv, SelectingInv
<1>7. \A i \in Indexes \ DOMAIN images' : ~completed'[i]
  BY <1>1, <1>2, <1>3 DEF CommitSave, IInv, ShelfInv, TableTypeOK
<1>. QED BY <1>3, <1>5, <1>6, <1>7, UserStep DEF shelfVars

LEMMA SaveReplyInv ==
  ASSUME IInv, NEW u \in Users, SaveReply(u)
  PROVE  IInv'
<1>. TableInv /\ TableTypeOK /\ UserTypeOK /\ revision \in Nat /\ UserInv(u)
  BY DEF IInv, TableInv, TableTypeOK, UsersInv
<1>0. UNCHANGED <<tableVars, shelfVars, lock>> /\ pc[u] = "saved"
  BY DEF SaveReply
<1>1. at[u] \in DOMAIN images /\ at[u] \in Indexes /\ known[u] \in Nat /\ known[u] + 1 <= revision
  BY <1>0 DEF UserInv, KnowsInv, UserTypeOK
<1>2. /\ pc' \in [Users -> UserPC] /\ pc'[u] = "open"
      /\ \A w \in Users \ {u} : pc'[w] = pc[w]
  BY Goes DEF SaveReply, UserPC
<1>3. /\ at' \in [Users -> Indexes] /\ known' \in [Users -> Nat]
      /\ shown' \in [Users -> SUBSET Boxes]
      /\ at'[u] = at[u] /\ known'[u] = known[u] + 1 /\ shown'[u] = boxes[at[u]]
      /\ \A w \in Users \ {u} : at'[w] = at[w] /\ known'[w] = known[w] /\ shown'[w] = shown[w]
  <2>1. known[u] + 1 \in Nat /\ boxes[at[u]] \in SUBSET Boxes
    BY <1>1 DEF TableTypeOK
  <2>. QED BY <1>1, <2>1, Shows DEF SaveReply
<1>4. /\ asked' \in [Users -> SUBSET (Classes \cup Nat)] /\ seen' \in [Users -> Nat \X Nat]
      /\ \A w \in Users \ {u} : asked'[w] = asked[w] /\ seen'[w] = seen[w]
  BY Asks DEF SaveReply, Answered
<1>5. TableInv' /\ Onward
  BY <1>0, TablesStay, StayIsOnward
<1>6. UserTypeOK'
  BY <1>0, <1>2, <1>3, <1>4 DEF UserTypeOK, shelfVars
<1>7. UserInv(u)'
  BY <1>0, <1>1, <1>2, <1>3
     DEF UserInv, KnowsInv, ReadInv, AttachingInv, SelectingInv, tableVars
<1>8. OthersWait(u)
  BY <1>2, <1>3, <1>4 DEF OthersWait, Waits
<1>. QED BY <1>0, <1>5, <1>6, <1>7, <1>8, UserStep, CompletedThere DEF tableVars, shelfVars, IInv

LEMMA SaveLostInv ==
  ASSUME IInv, NEW u \in Users, SaveLost(u)
  PROVE  IInv'
<1>. TableInv /\ TableTypeOK /\ UserTypeOK /\ revision \in Nat /\ UserInv(u)
  BY DEF IInv, TableInv, TableTypeOK, UsersInv
<1>0. UNCHANGED <<tableVars, shelfVars, lock>> /\ pc[u] = "saved"
  BY DEF SaveLost
<1>1. /\ UserTypeOK' /\ OthersWait(u) /\ pc'[u] = "open"
      /\ at'[u] = at[u] /\ known'[u] = known[u] /\ shown'[u] = shown[u]
  <2>1. Release(u)
    BY <1>0, Unlocked DEF Release
  <2>. QED BY <1>0, <2>1, KeepTypes DEF SaveLost, shelfVars, UserTypeOK
<1>2. TableInv' /\ Onward
  BY <1>0, TablesStay, StayIsOnward
<1>3. UserInv(u)'
  BY <1>0, <1>1
     DEF UserInv, KnowsInv, ReadInv, AttachingInv, SelectingInv, tableVars, UserTypeOK
<1>. QED BY <1>0, <1>1, <1>2, <1>3, UserStep, CompletedThere DEF tableVars, shelfVars, IInv

-----------------------------------------------------------------------------
(* The steps: classes *)

\* The answer of a class's creation, change or deletion: the boxes are as they were, so a
\* workspace that learns of the new revision still shows them.
LEMMA AnswerInv ==
  ASSUME IInv, NEW u \in Users, pc[u] \in {"open", "deleting"}, Cas(u), ClassAnswer(u),
         TableInv', revision' = revision + 1, UNCHANGED <<images, completed, boxes>>,
         UNCHANGED <<shelfVars, lock>>
  PROVE  IInv'
<1>. /\ TableInv /\ TableTypeOK /\ UserTypeOK /\ UserInv(u) /\ revision \in Nat
     /\ Free /\ revision = known[u]
  BY DEF IInv, TableInv, TableTypeOK, UsersInv, Cas
<1>1. Onward
  BY RaiseIsOnward
<1>2. at[u] \in DOMAIN images /\ at[u] \in Indexes /\ shown[u] = boxes[at[u]]
      /\ shown[u] \in SUBSET Boxes
  BY DEF UserInv, KnowsInv, UserTypeOK
<1>3. CASE Keep(u, "open")
  <2>1. /\ UserTypeOK' /\ OthersWait(u) /\ pc'[u] = "open"
        /\ at'[u] = at[u] /\ known'[u] = known[u] /\ shown'[u] = shown[u]
    <3>1. Release(u)
      BY Unlocked DEF Release
    <3>. QED BY <1>3, <3>1, KeepTypes DEF shelfVars, UserTypeOK
  <2>2. UserInv(u)'
    BY <1>2, <2>1 DEF UserInv, KnowsInv, ReadInv, AttachingInv, SelectingInv
  <2>. QED BY <1>1, <2>1, <2>2, UserStep, CompletedThere DEF shelfVars, IInv
<1>4. CASE Advance(u)
  <2>1. /\ pc' \in [Users -> UserPC] /\ pc'[u] = "open"
        /\ \A w \in Users \ {u} : pc'[w] = pc[w]
    BY <1>4, Goes DEF Advance, UserPC
  <2>2. /\ at' \in [Users -> Indexes] /\ known' \in [Users -> Nat]
        /\ shown' \in [Users -> SUBSET Boxes]
        /\ at'[u] = at[u] /\ known'[u] = known[u] + 1 /\ shown'[u] = shown[u]
        /\ \A w \in Users \ {u} : at'[w] = at[w] /\ known'[w] = known[w] /\ shown'[w] = shown[w]
    <3>1. known[u] + 1 \in Nat
      OBVIOUS
    <3>. QED BY <1>2, <1>4, <3>1, Shows DEF Advance
  <2>3. /\ asked' \in [Users -> SUBSET (Classes \cup Nat)] /\ seen' \in [Users -> Nat \X Nat]
        /\ \A w \in Users \ {u} : asked'[w] = asked[w] /\ seen'[w] = seen[w]
    BY <1>4, Asks DEF Advance, Answered
  <2>4. UserTypeOK'
    BY <2>1, <2>2, <2>3, Unlocked DEF UserTypeOK, shelfVars
  <2>5. UserInv(u)'
    BY <1>2, <2>1, <2>2 DEF UserInv, KnowsInv, ReadInv, AttachingInv, SelectingInv
  <2>6. OthersWait(u)
    BY <2>1, <2>2, <2>3 DEF OthersWait, Waits
  <2>. QED BY <1>1, <2>4, <2>5, <2>6, UserStep, CompletedThere DEF shelfVars, IInv
<1>. QED BY <1>3, <1>4 DEF ClassAnswer

LEMMA CreateClassInv ==
  ASSUME IInv, NEW u \in Users, CreateClass(u)
  PROVE  IInv'
<1>1. /\ TableInv' /\ revision' = revision + 1 /\ UNCHANGED <<images, completed, boxes>>
  BY ClassInv DEF CreateClass, CommitClass, IInv
<1>. QED BY <1>1, AnswerInv DEF CreateClass

LEMMA UpdateClassInv ==
  ASSUME IInv, NEW u \in Users, UpdateClass(u)
  PROVE  IInv'
<1>1. /\ TableInv' /\ revision' = revision + 1 /\ UNCHANGED <<images, completed, boxes>>
  BY UpdateInv DEF UpdateClass, CommitUpdate, IInv
<1>. QED BY <1>1, AnswerInv DEF UpdateClass

LEMMA DeleteReadInv ==
  ASSUME IInv, NEW u \in Users, DeleteRead(u)
  PROVE  IInv'
<1>. TableInv /\ TableTypeOK /\ UserTypeOK /\ UserInv(u)
  BY DEF IInv, TableInv, UsersInv
<1>0. UNCHANGED <<tableVars, shelfVars, lock, at, known, shown>> /\ pc[u] = "open"
  BY DEF DeleteRead
<1>1. PICK c \in Present : Deletable(c) /\ Ask(u, {c}, <<0, 0>>)
  BY DEF DeleteRead
<1>2. UserTypeOK' /\ OthersWait(u) /\ pc'[u] = "deleting" /\ asked'[u] = {c} /\ c \in Classes
  <2>1. {c} \in SUBSET Classes
    BY DEF Present
  <2>. QED BY <1>0, <1>1, <2>1, AskTypes DEF DeleteRead
<1>3. TableInv' /\ Onward
  BY <1>0, TablesStay, StayIsOnward
<1>4. Unused(c)' /\ c \in Present'
  BY <1>0, <1>1 DEF Deletable, Unused, tableVars, Indexes, Present
<1>5. UserInv(u)'
  BY <1>0, <1>2, <1>4 DEF UserInv, KnowsInv, ReadInv, AttachingInv, SelectingInv, tableVars
<1>. QED BY <1>0, <1>2, <1>3, <1>5, UserStep, CompletedThere DEF tableVars, shelfVars, IInv

\* The class that a deletion takes, under the revision it was read at, has no boxes.
LEMMA DeletionTakesNone ==
  ASSUME IInv, NEW u \in Users, DeleteCommit(u)
  PROVE  boxes' = boxes /\ \E c \in Present : CommitDelete(c)
<1>1. PICK c \in asked[u] : CommitDelete(c)
  BY DEF DeleteCommit
<1>2. c \in Present /\ Unused(c)
  BY DEF DeleteCommit, Cas, IInv, UsersInv, UserInv, ReadInv
<1>3. \A i \in Indexes : {b \in boxes[i] : b[1] # c} = boxes[i]
  BY <1>2 DEF Unused
<1>4. boxes' = [i \in Indexes |-> boxes[i]] /\ boxes = [i \in Indexes |-> boxes[i]]
  BY <1>1, <1>3 DEF CommitDelete, IInv, TableInv, TableTypeOK
<1>. QED BY <1>1, <1>2, <1>4

LEMMA DeleteCommitInv ==
  ASSUME IInv, NEW u \in Users, DeleteCommit(u)
  PROVE  IInv'
<1>1. boxes' = boxes
  BY DeletionTakesNone
<1>2. PICK c \in Present : CommitDelete(c)
  BY DeletionTakesNone
<1>3. /\ TableInv' /\ revision' = revision + 1 /\ UNCHANGED <<images, completed, boxes>>
  BY <1>1, <1>2, DeleteInv DEF CommitDelete, IInv
<1>. QED BY <1>3, AnswerInv DEF DeleteCommit

-----------------------------------------------------------------------------
(* The steps: a brand's data sets *)

LEMMA AttachReadInv ==
  ASSUME IInv, NEW u \in Users, AttachRead(u)
  PROVE  IInv'
<1>. TableInv /\ TableTypeOK /\ UserTypeOK /\ UserInv(u) /\ Len(images) \in Nat
  BY IndexesFinite DEF IInv, TableInv, TableTypeOK, UsersInv, Indexes
<1>0. UNCHANGED <<tableVars, shelfVars, at, known, shown>> /\ pc[u] = "away"
  BY DEF AttachRead
<1>1. PICK found \in SUBSET Sources : Ask(u, found \ Range(images), <<Len(images), NextYolo>>)
  BY DEF AttachRead
<1>2. pc' \in [Users -> UserPC] /\ pc'[u] = "attaching" /\ \A w \in Users \ {u} : pc'[w] = pc[w]
  BY Goes DEF AttachRead, UserPC
<1>3. /\ asked' \in [Users -> SUBSET (Classes \cup Nat)] /\ seen' \in [Users -> Nat \X Nat]
      /\ asked'[u] = found \ Range(images) /\ seen'[u] = <<Len(images), NextYolo>>
      /\ \A w \in Users \ {u} : asked'[w] = asked[w] /\ seen'[w] = seen[w]
  <2>1. found \ Range(images) \in SUBSET (Classes \cup Nat)
    BY TablesAssumption
  <2>2. <<Len(images), NextYolo>> \in Nat \X Nat
    BY NextYoloIsNew
  <2>. QED BY <1>1, <2>1, <2>2, Asks
<1>4. TableInv' /\ Onward
  BY <1>0, TablesStay, StayIsOnward
<1>5. lock' = u \/ lock' = lock
  BY DEF AttachRead
<1>6. UserTypeOK'
  <2>1. \A w \in Users : /\ lock' = w => pc'[w] \in {"attaching", "selecting"}
                         /\ pc'[w] = "selecting" => lock' = w
    BY <1>0, <1>2, ProjectAssumption DEF UserTypeOK, AttachRead, Free
  <2>. QED BY <1>0, <1>2, <1>3, <1>5, <2>1 DEF UserTypeOK, shelfVars
<1>7. UserInv(u)'
  BY <1>0, <1>2, <1>3 DEF UserInv, KnowsInv, ReadInv, AttachingInv, SelectingInv, tableVars
<1>8. OthersWait(u)
  BY <1>0, <1>2, <1>3 DEF OthersWait, Waits
<1>. QED BY <1>0, <1>4, <1>6, <1>7, <1>8, UserStep, CompletedThere DEF tableVars, shelfVars, IInv

LEMMA AttachCommitInv ==
  ASSUME IInv, NEW u \in Users, AttachCommit(u)
  PROVE  IInv'
<1>. /\ TableInv /\ TableTypeOK /\ UserTypeOK /\ UserInv(u) /\ seen[u] \in Nat \X Nat
     /\ revision \in Nat
  BY DEF IInv, TableInv, TableTypeOK, UsersInv, UserTypeOK
<1>0. /\ pc[u] = "attaching" /\ lock \in {u, NoOne} /\ CommitAttach(asked[u], seen[u][2])
      /\ bound' = TRUE /\ Release(u) /\ Keep(u, "away") /\ UNCHANGED snapshots
  BY DEF AttachCommit
<1>1. asked[u] \in SUBSET (Sources \ Range(images)) /\ seen[u][2] \in Nat
  BY <1>0 DEF AttachCommit, Taken, UserInv, AttachingInv
<1>2. TableInv' /\ Onward
  BY <1>0, <1>1, AttachInv, AttachIsOnward
<1>3. UNCHANGED <<revision, completed, boxes>>
  BY <1>0 DEF CommitAttach
<1>4. /\ UserTypeOK' /\ OthersWait(u) /\ pc'[u] = "away" /\ known'[u] = known[u]
  BY <1>0, KeepTypes DEF UserTypeOK
<1>5. UserInv(u)'
  BY <1>3, <1>4 DEF UserInv, KnowsInv, ReadInv, AttachingInv, SelectingInv
<1>6. \A i \in Indexes \ DOMAIN images' : ~completed'[i]
  BY <1>2, <1>3 DEF Onward, IInv, ShelfInv
<1>. QED BY <1>0, <1>2, <1>4, <1>5, <1>6, UserStep DEF Free

LEMMA AttachAbortInv ==
  ASSUME IInv, NEW u \in Users, AttachAbort(u)
  PROVE  IInv'
<1>. /\ TableInv /\ TableTypeOK /\ UserTypeOK /\ UserInv(u)
  BY DEF IInv, TableInv, UsersInv
<1>0. /\ Release(u) /\ Keep(u, "away") /\ UNCHANGED <<tableVars, shelfVars>>
  BY DEF AttachAbort
<1>1. /\ UserTypeOK' /\ OthersWait(u) /\ pc'[u] = "away" /\ known'[u] = known[u]
  BY <1>0, KeepTypes DEF UserTypeOK, shelfVars
<1>2. TableInv' /\ Onward
  BY <1>0, TablesStay, StayIsOnward
<1>3. UserInv(u)'
  BY <1>0, <1>1 DEF UserInv, KnowsInv, ReadInv, AttachingInv, SelectingInv, tableVars
<1>. QED BY <1>0, <1>1, <1>2, <1>3, UserStep, CompletedThere DEF tableVars, shelfVars, IInv

-----------------------------------------------------------------------------
(* The steps: snapshots *)

LEMMA SelectReadInv ==
  ASSUME IInv, NEW u \in Users, SelectRead(u)
  PROVE  IInv'
<1>. TableInv /\ TableTypeOK /\ UserTypeOK /\ UserInv(u) /\ revision \in Nat
  BY DEF IInv, TableInv, TableTypeOK, UsersInv
<1>0. /\ UNCHANGED <<tableVars, shelfVars, at, known, shown>> /\ pc[u] = "away"
      /\ Free /\ lock' = u
  BY DEF SelectRead, SelectLock
<1>1. pc' \in [Users -> UserPC] /\ pc'[u] = "selecting" /\ \A w \in Users \ {u} : pc'[w] = pc[w]
  BY Goes DEF SelectRead, UserPC
<1>2. /\ asked' \in [Users -> SUBSET (Classes \cup Nat)] /\ seen' \in [Users -> Nat \X Nat]
      /\ asked'[u] = Completed /\ seen'[u] = <<revision, 0>>
      /\ \A w \in Users \ {u} : asked'[w] = asked[w] /\ seen'[w] = seen[w]
  <2>1. Completed \in SUBSET (Classes \cup Nat)
    BY IndexesOfImages DEF Completed, Indexes
  <2>. QED BY <2>1, Asks DEF SelectRead
<1>3. TableInv' /\ Onward
  BY <1>0, TablesStay, StayIsOnward
<1>4. UserTypeOK'
  <2>1. \A w \in Users : /\ lock' = w => pc'[w] \in {"attaching", "selecting"}
                         /\ pc'[w] = "selecting" => lock' = w
    BY <1>0, <1>1, ProjectAssumption DEF UserTypeOK, Free
  <2>. QED BY <1>0, <1>1, <1>2, <2>1 DEF UserTypeOK, shelfVars
<1>5. UserInv(u)'
  <2>1. Completed' = Completed
    BY <1>0 DEF Completed, tableVars
  <2>. QED BY <1>0, <1>1, <1>2, <2>1
           DEF UserInv, KnowsInv, ReadInv, AttachingInv, SelectingInv, tableVars
<1>6. OthersWait(u)
  BY <1>0, <1>1, <1>2 DEF OthersWait, Waits
<1>. QED BY <1>0, <1>3, <1>4, <1>5, <1>6, UserStep, CompletedThere DEF tableVars, shelfVars, IInv

\* The boxes a selection reads under its lock are those of its revision.
LEMMA SelectCommitInv ==
  ASSUME IInv, NEW u \in Users, SelectCommit(u)
  PROVE  IInv'
<1>. TableInv /\ TableTypeOK /\ UserTypeOK /\ UserInv(u) /\ revision \in Nat /\ ShelfInv
  BY DEF IInv, TableInv, TableTypeOK, UsersInv
<1>0. /\ UNCHANGED <<tableVars, bound>> /\ pc[u] = "selecting" /\ Release(u) /\ Keep(u, "away")
  BY DEF SelectCommit
<1>. DEFINE taken == UNION {{i} \X boxes[i] : i \in Completed}
            new == [revision |-> revision, boxes |-> taken]
<1>1. snapshots' \subseteq snapshots \cup {new}
  BY <1>0 DEF SelectCommit, UserInv, SelectingInv
<1>2. taken \subseteq Indexes \X Boxes /\ \A x \in taken : x[2][2] <= revision
  <2>1. Completed \subseteq Indexes
    BY IndexesOfImages DEF Completed
  <2>2. \A i \in Indexes : boxes[i] \subseteq Boxes /\ \A b \in boxes[i] : b[2] <= revision
    BY DEF TableTypeOK
  <2>. HIDE DEF Boxes, Completed, Indexes
  <2>. QED BY <2>1, <2>2
<1>. HIDE DEF taken
<1>3. /\ UserTypeOK' /\ OthersWait(u) /\ pc'[u] = "away" /\ known'[u] = known[u]
  <2>1. \A s \in snapshots' : s.revision \in Nat /\ s.boxes \subseteq Indexes \X Boxes
    BY <1>1, <1>2 DEF UserTypeOK
  <2>. QED BY <1>0, <2>1, KeepTypes DEF UserTypeOK
<1>4. TableInv' /\ Onward
  BY <1>0, TablesStay, StayIsOnward
<1>5. UserInv(u)'
  BY <1>0, <1>3 DEF UserInv, KnowsInv, ReadInv, AttachingInv, SelectingInv, tableVars
<1>6. Completed' = Completed /\ revision' = revision
  BY <1>0 DEF Completed, tableVars
<1>7. ASSUME NEW w \in Users, w # u
      PROVE  UserInv(w)'
  BY <1>3, <1>4, <1>6, <1>7, WaitingInv DEF OthersWait, TableInv, IInv, UsersInv
<1>8. ShelfInv'
  <2>1. \A s \in snapshots' :
          /\ s.revision <= revision /\ \A x \in s.boxes : x[2][2] <= s.revision
          /\ s.revision = revision => s.boxes = taken
    BY <1>1, <1>2 DEF ShelfInv, SnapshotIsRevision, taken
  <2>2. SnapshotIsRevision'
    BY <1>0, <1>6, <2>1 DEF SnapshotIsRevision, tableVars, taken
  <2>. QED BY <1>0, <1>6, <2>1, <2>2 DEF ShelfInv, tableVars
<1>. QED BY <1>3, <1>4, <1>5, <1>7, <1>8 DEF IInv, UsersInv

-----------------------------------------------------------------------------
(* The steps: a labelling, and none *)

LEMMA PredictInv ==
  ASSUME IInv, Predict
  PROVE  IInv'
<1>. TableInv /\ TableTypeOK /\ UserTypeOK /\ ShelfInv
     /\ UNCHANGED <<shelfVars, lock, userVars>> /\ Free
  BY DEF IInv, TableInv, Predict
<1>1. PICK i \in Indexes : Unlabelled(i) /\ CommitPredictions(i, 1)
  BY DEF Predict
<1>2. TableInv' /\ Onward /\ UNCHANGED <<images, completed>>
  BY <1>1, PredictionInv, PredictionIsOnward
<1>3. UserTypeOK'
  BY DEF UserTypeOK, shelfVars, userVars
<1>4. ASSUME NEW w \in Users
      PROVE  UserInv(w)'
  <2>1. pc[w] # "selecting"
    BY ProjectAssumption DEF UserTypeOK, Free
  <2>2. Waits(w) /\ UserInv(w)
    BY DEF Waits, userVars, IInv, UsersInv
  <2>. QED BY <1>2, <2>1, <2>2, WaitingInv DEF TableInv
<1>5. ShelfInv'
  BY <1>2, ShelfStays, CompletedThere DEF TableInv, shelfVars
<1>. QED BY <1>2, <1>3, <1>4, <1>5 DEF IInv, UsersInv

LEMMA StutterInv ==
  ASSUME IInv, UNCHANGED projectVars
  PROVE  IInv'
<1>. TableInv /\ TableTypeOK /\ UserTypeOK /\ ShelfInv
     /\ UNCHANGED <<tableVars, shelfVars, lock, userVars>>
  BY DEF IInv, TableInv, projectVars
<1>1. TableInv' /\ Onward
  BY TablesStay, StayIsOnward
<1>2. UserTypeOK'
  BY DEF UserTypeOK, shelfVars, userVars
<1>3. revision' = revision /\ Completed' = Completed
  BY DEF Completed, tableVars
<1>4. ASSUME NEW w \in Users
      PROVE  UserInv(w)'
  <2>1. Waits(w) /\ UserInv(w)
    BY DEF Waits, userVars, IInv, UsersInv
  <2>. QED BY <1>1, <1>3, <2>1, WaitingInv DEF TableInv
<1>5. ShelfInv'
  BY <1>1, ShelfStays, CompletedThere DEF TableInv, shelfVars, tableVars
<1>. QED BY <1>1, <1>2, <1>4, <1>5 DEF IInv, UsersInv

-----------------------------------------------------------------------------
(* The theorems *)

LEMMA InitInv == Init => IInv
<1>. SUFFICES ASSUME Init
              PROVE  IInv
  OBVIOUS
<1>1. TableInv /\ revision = 0 /\ completed = [i \in Indexes |-> FALSE]
  BY TableInitInv DEF Init, TableInit
<1>2. UserTypeOK
  BY <1>1, FirstIndex, ProjectAssumption DEF Init, UserTypeOK, UserPC, TableInv
<1>3. UsersInv
  BY <1>1 DEF Init, UsersInv, UserInv, KnowsInv, ReadInv, AttachingInv, SelectingInv
<1>4. ShelfInv
  BY <1>1 DEF Init, ShelfInv, SnapshotIsRevision
<1>. QED BY <1>1, <1>2, <1>3, <1>4 DEF IInv

LEMMA NextInv ==
  ASSUME IInv, [Next]_projectVars
  PROVE  IInv'
<1>1. ASSUME NEW u \in Users, Reading(u)
      PROVE  IInv'
  BY <1>1, LoadReadInv, LoadReplyInv, LeaveInv DEF Reading
<1>2. ASSUME NEW u \in Users, Saving(u)
      PROVE  IInv'
  BY <1>2, SaveReadInv, SaveCommitInv, ConflictInv, SaveReplyInv, SaveLostInv DEF Saving
<1>3. ASSUME NEW u \in Users, Classing(u)
      PROVE  IInv'
  BY <1>3, CreateClassInv, UpdateClassInv, DeleteReadInv, DeleteCommitInv, ConflictInv
     DEF Classing
<1>4. ASSUME NEW u \in Users, Attaching(u)
      PROVE  IInv'
  BY <1>4, AttachReadInv, AttachCommitInv, AttachAbortInv DEF Attaching
<1>5. ASSUME NEW u \in Users, Selecting(u)
      PROVE  IInv'
  BY <1>5, SelectReadInv, SelectCommitInv DEF Selecting
<1>. QED BY <1>1, <1>2, <1>3, <1>4, <1>5, PredictInv, StutterInv DEF Next

\* Every state that can be reached has the inductive invariant.
THEOREM SpecIInv == Spec => []IInv
<1>1. IInv /\ [Next]_projectVars => IInv'
  BY NextInv
<1>. QED BY <1>1, InitInv, PTL DEF Spec

\* The rows of the project and the requests under way have their types; among them that the
\* limit of the boxes holds under any interleaving of saves and predictions, that no two
\* classes share an index and no two images a source, and that a selection alone holds the row.
THEOREM SpecTypeOK == Spec => []TypeOK
<1>1. IInv => TypeOK
  BY DEF IInv, TableInv, TypeOK
<1>. QED BY <1>1, SpecIInv, PTL

\* A save replaces exactly what its user was shown (put_image() and its conditional update).
THEOREM SpecNoLostUpdate == Spec => NoLostUpdate
<1>1. ASSUME IInv, [Next]_projectVars, NEW u \in Users, pc[u] = "saving", pc'[u] = "saved"
      PROVE  boxes[at[u]] = shown[u]
  <2>1. SaveCommit(u)
    <3>1. pc' # pc
      BY <1>1
    <3>2. ASSUME NEW w \in Users, NEW p, Go(w, p)
          PROVE  w = u /\ p = "saved"
      <4>1. w = u
        BY <1>1, <3>2 DEF Go, IInv, UserTypeOK
      <4>. QED BY <1>1, <3>2, <4>1 DEF Go, IInv, UserTypeOK
    <3>3. ~Predict /\ ~UNCHANGED projectVars
      BY <3>1 DEF Predict, userVars, projectVars
    <3>4. ASSUME NEW w \in Users, Reading(w) \/ Classing(w) \/ Attaching(w) \/ Selecting(w)
          PROVE  FALSE
      <4>1. \E p \in UserPC \ {"saved"} : Go(w, p)
        BY <3>4 DEF Reading, LoadRead, LoadReply, Leave, Reload, Classing, CreateClass,
             UpdateClass, DeleteRead, DeleteCommit, ClassConflict, Conflict, ClassAnswer, Advance,
             Keep, Attaching, AttachRead, AttachCommit, AttachAbort, Selecting, SelectRead,
             SelectCommit, UserPC
      <4>. QED BY <3>2, <4>1
    <3>5. PICK w \in Users : Saving(w)
      BY <1>1, <3>3, <3>4 DEF Next
    <3>6. SaveCommit(w)
      <4>1. SaveCommit(w) \/ \E p \in UserPC \ {"saved"} : Go(w, p)
        BY <3>5 DEF Saving, SaveRead, SaveConflict, Conflict, Reload, SaveReply, SaveLost, Keep,
             UserPC
      <4>. QED BY <3>2, <4>1
    <3>. QED BY <3>2, <3>6 DEF SaveCommit
  <2>. QED BY <1>1, <2>1 DEF SaveCommit, Cas, IInv, UsersInv, UserInv, KnowsInv
<1>2. IInv /\ [Next]_projectVars
      => [\A u \in Users : pc[u] = "saving" /\ pc'[u] = "saved" => boxes[at[u]] = shown[u]
         ]_projectVars
  BY <1>1
<1>. QED BY <1>2, SpecIInv, PTL DEF Spec, NoLostUpdate

\* The deletion of a class takes no box with it (delete_class(), ON DELETE CASCADE).
THEOREM SpecDeletionKeepsBoxes == Spec => DeletionKeepsBoxes
<1>1. ASSUME IInv, Next, retired' # retired
      PROVE  boxes' = boxes
  <2>1. PICK u \in Users : DeleteCommit(u)
    BY <1>1 DEF Next, Predict, Reading, LoadRead, LoadReply, Leave, Saving, SaveRead, SaveCommit,
         CommitSave, SaveConflict, Conflict, SaveReply, SaveLost, Classing, CreateClass,
         CommitClass, UpdateClass, CommitUpdate, DeleteRead, ClassConflict, Attaching,
         AttachRead, AttachCommit, CommitAttach, AttachAbort, Selecting, SelectRead,
         SelectCommit, CommitPredictions, tableVars
  <2>. QED BY <1>1, <2>1, DeletionTakesNone
<1>2. IInv /\ [Next]_projectVars => [retired' # retired => boxes' = boxes]_projectVars
  BY <1>1
<1>. QED BY <1>2, SpecIInv, PTL DEF Spec, DeletionKeepsBoxes

\* A snapshot is its project at one revision (AnnotationTrainingService.create).
THEOREM SpecSnapshotIsRevision == Spec => []SnapshotIsRevision
<1>1. IInv => SnapshotIsRevision
  BY DEF IInv, ShelfInv
<1>. QED BY <1>1, SpecIInv, PTL

=============================================================================
