---------------------------- MODULE ResultDelivery ----------------------------
(***************************************************************************)
(* A job from its source to its readers: the worker makes frames of a      *)
(* video or a data set of images and publishes them with a manifest; the   *)
(* API checks the manifest, serves what it lists, and lets people and the  *)
(* labelling put boxes on it, which a training takes.                      *)
(***************************************************************************)
EXTENDS FrameSelection, DatasetSelection, BoxGeometry

CONSTANTS
  Sizes,         \* width and height of images
  MaxFrames,     \* max_length of the frames of a manifest; a worker makes fewer images
  MaxSaves       \* bound: saves of a box

ASSUME DeliveryAssumption ==
  Sizes \subseteq (Nat \ {0}) \X (Nat \ {0}) /\ MaxFrames \in Nat /\ MaxSaves \in Nat

VARIABLES
  kind,    \* "video" or "images"
  phase,   \* the job is "running", "succeeded" or "failed"
  box      \* on the only image of a data set: where it was drawn or predicted, and its row

deliveryVars == <<selectionVars, entries, kind, phase, box>>

NoBox == [by |-> "nobody"]

Init ==
  /\ SelectionInit /\ DatasetInit
  /\ kind \in {"video", "images"} /\ phase = "running" /\ box = NoBox

-----------------------------------------------------------------------------
(* The worker *)

ProcessVideo ==
  /\ kind = "video" /\ phase = "running"
  /\ Extract
  /\ UNCHANGED <<entries, kind, phase, box>>

PublishVideo ==
  /\ kind = "video" /\ phase = "running"
  /\ EndOfVideo
  /\ phase' = "succeeded"
  /\ UNCHANGED <<entries, kind, box>>

ProcessImage ==
  /\ kind = "images" /\ phase = "running"
  /\ Judge
  /\ UNCHANGED <<selectionVars, kind, phase, box>>

PublishDataset ==
  /\ kind = "images" /\ phase = "running"
  /\ Usable # {}
  /\ entries' = Uploaded
  /\ phase' = "succeeded"
  /\ UNCHANGED <<selectionVars, kind, box>>

Fails == phase' = "failed" /\ UNCHANGED <<selectionVars, entries, kind, box>>

\* All files of a data set are downloaded, and its archive extracted, before the first is
\* judged; a limit, or a source that is not what was submitted, ends it here.
SourceRefused ==
  /\ kind = "images" /\ phase = "running" /\ entries = <<>>
  /\ Fails

\* A file that is not what its name says, a data set without a usable image, a limit, a
\* video that cannot be read, or storage that is not available: objects are deleted.
JobFails ==
  /\ phase = "running"
  /\ Fails

-----------------------------------------------------------------------------
(* The API *)

\* StoredManifestV1, and StoredDatasetManifestV1 with what is asked of its images
FramesValid == Len(frames) <= MaxFrames
ImagesValid == \A i \in DOMAIN entries : entries[i].keys <=> entries[i].category # "unusable"

\* validate_manifest() and validate_dataset_manifest()
ManifestValid == IF kind = "video" THEN FramesValid ELSE ImagesValid

\* _load(): what every reader asks first
Loaded ==
  CASE phase = "failed" -> "FAILED_RESULT_UNAVAILABLE"
    [] phase = "running" -> "RESULT_NOT_READY"
    [] phase = "succeeded" -> IF ManifestValid THEN "LOADED" ELSE "MANIFEST_INVALID"

OfLoaded(answer) == IF Loaded = "LOADED" THEN answer ELSE Loaded

Listed == IF kind = "video" THEN DOMAIN frames ELSE DOMAIN entries
WithObject == IF kind = "video" THEN DOMAIN frames ELSE {i \in DOMAIN entries : entries[i].keys}

Found(i) == IF i \in WithObject THEN "SERVED" ELSE "ARTIFACT_NOT_FOUND"

\* What readers get who ask for frame or image i.  An image that is listed without an
\* object is an invalid manifest to the first, and not found to the others.
frame_access(i) ==
  OfLoaded(IF i \in Listed \ WithObject THEN "MANIFEST_INVALID" ELSE Found(i))
frame_download(i) == OfLoaded(Found(i))
dataset_preview(i) == OfLoaded(IF kind = "images" THEN Found(i) ELSE "ARTIFACT_NOT_FOUND")
annotation_preview(i) == OfLoaded(Found(i))

\* public_manifest(): the frames and images that it gives addresses of
Addressed == IF Loaded = "LOADED" THEN WithObject ELSE {}

\* _manifest_images(): the images that can be annotated
Annotatable ==
  IF kind = "video"
  THEN DOMAIN frames
  ELSE {i \in DOMAIN entries : entries[i].keys /\ entries[i].category \in {"normal", "challenging"}}

-----------------------------------------------------------------------------
(* Boxes on the only image of a data set (bound).  On a frame of a video a row holds what *)
(* the workspace sends, as on an image that needs no padding.                             *)

Open ==
  /\ kind = "images" /\ phase = "succeeded" /\ ManifestValid
  /\ Len(entries) = 1 /\ Annotatable # {}

\* A person draws a box and saves it, if the request is valid.
DrawBox ==
  /\ Open /\ box = NoBox
  /\ \E size \in Sizes, width \in 4 * MinBox..4 * Scale : \E left \in 0..4 * Scale - width :
       \E sent \in ToBox(left, width) :
         /\ Saveable(sent, Content(size[1], size[2]))
         /\ box' = [by |-> "person", content |-> Content(size[1], size[2]), left |-> left, width |-> width,
                    row |-> ToStorage(sent, Content(size[1], size[2])), saves |-> 1]
  /\ UNCHANGED <<selectionVars, entries, kind, phase>>

\* The image is loaded, something else on it changes, and it is saved.
SaveAgain ==
  /\ Open /\ box # NoBox /\ box.saves < MaxSaves
  /\ \E sent \in SentAgain(box.row, box.content) :
       /\ Saveable(sent, box.content)
       /\ box' = [box EXCEPT !.row = ToStorage(sent, box.content), !.saves = @ + 1]
  /\ UNCHANGED <<selectionVars, entries, kind, phase>>

\* The labelling predicts a box on the image itself and writes it as it is.
PredictBox ==
  /\ Open /\ box = NoBox
  /\ \E size \in Sizes, center, width \in 1..Scale :
       /\ Contained(<<center, width>>)
       /\ box' = [by |-> "model", content |-> Content(size[1], size[2]),
                  left |-> 4 * center - 2 * width, width |-> 4 * width,
                  row |-> <<center, width>>, saves |-> 0]
  /\ UNCHANGED <<selectionVars, entries, kind, phase>>

Next ==
  \/ ProcessVideo \/ PublishVideo \/ ProcessImage \/ PublishDataset
  \/ SourceRefused \/ JobFails
  \/ DrawBox \/ SaveAgain \/ PredictBox

Spec == Init /\ [][Next]_deliveryVars

-----------------------------------------------------------------------------
(* Properties *)

Answers(i) ==
  {frame_access(i), frame_download(i), annotation_preview(i)}
    \cup (IF kind = "images" THEN {dataset_preview(i)} ELSE {})

\* What a worker has published the API serves: every frame, and every usable image and no
\* other, has an address, is served to every reader and can be annotated, and nothing of a
\* job that runs or has failed.  Exactly two results are refused, to every reader: one with
\* a file that could not be decoded, and one with more frames than a manifest may list,
\* which no worker's limit prevents.  Of a result that is served, only who asks for access
\* to an unusable image, to which there is no address, is told that it is invalid.
PublishedIsReadable ==
  LET produced == IF kind = "video" THEN DOMAIN frames ELSE Usable
      refused == Of("rejected") # {} \/ Len(frames) > MaxFrames
  IN  \A i \in 1..MaxImages + MaxCandidates :
        /\ phase # "succeeded" =>
             Answers(i) \cap {"SERVED", "ARTIFACT_NOT_FOUND", "MANIFEST_INVALID"} = {}
        /\ phase = "succeeded" /\ refused => Answers(i) = {"MANIFEST_INVALID"}
        /\ phase = "succeeded" /\ ~refused =>
             /\ i \in produced =>
                  Answers(i) = {"SERVED"} /\ i \in Addressed /\ i \in Annotatable
             /\ i \notin produced =>
                  /\ "SERVED" \notin Answers(i) /\ i \notin Addressed /\ i \notin Annotatable
                  /\ frame_access(i) = "MANIFEST_INVALID" <=> i \in Of("unusable")
                  /\ frame_download(i) = "ARTIFACT_NOT_FOUND"
                  /\ dataset_preview(i) = "ARTIFACT_NOT_FOUND"
                  /\ annotation_preview(i) = "ARTIFACT_NOT_FOUND"

Distance(a, b) == IF a < b THEN b - a ELSE a - b

\* How far rounding may move the box, in quarters of units times content
Rounding == 2 * box.content + 2 * Side

\* A box that a person has drawn is shown where it was drawn but for rounding, however
\* often it is shown and saved; and a save or a training refuses it only if it reaches to
\* a border of its image but for rounding.
BoxesKeepTheirPlace ==
  box.by = "person" =>
    LET shown == FromStorage(box.row, box.content)
        left == box.left * box.content
        right == 4 * Scale * box.content - left - box.width * box.content
        mayRefuse ==
          \/ MayRefuse(box.row, box.content)
          \/ \E sent \in SentAgain(box.row, box.content) : ~Saveable(sent, box.content)
    IN  /\ Distance(8 * shown[1], 2 * left + box.width * box.content) <= 2 * Rounding
        /\ Distance(4 * shown[2], box.width * box.content) <= Rounding
        /\ mayRefuse => left <= 2 * Rounding \/ right <= 2 * Rounding

\* A predicted box is shown where the model has predicted it.
PredictedBoxesKeepTheirPlace ==
  box.by = "model" =>
    Distance(4 * FromStorage(box.row, box.content)[2], box.width * box.content) <= Rounding

\* The API serves a data set however many of its files could not be decoded.
DatasetIsReadable ==
  kind = "images" /\ phase = "succeeded" => Loaded # "MANIFEST_INVALID"

=============================================================================
