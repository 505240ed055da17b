------------------------- MODULE MCAnnotationTraining -------------------------
(* Instances of AnnotationTraining for TLC. *)
EXTENDS AnnotationTraining

\* Every fault the model knows.
AllFaults == FaultKinds

=============================================================================
