---------------------------- MODULE MCJobPipeline ----------------------------
(* Instances of JobPipeline for TLC. *)
EXTENDS JobPipeline, TLC

CONSTANTS video, dataset

OneOfEach == {video, dataset}
OneVideo == {video}
OneDataset == {dataset}

\* Every fault the model knows.
AllFaults == FaultKinds

WorkerSymmetry == Permutations(Workers)

=============================================================================
