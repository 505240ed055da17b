------------------------ MODULE MCAnnotationInference ------------------------
(* A labelling of two images by two workers, for TLC. *)
EXTENDS AnnotationInference, TLC

CONSTANTS c1, c2

First == [c \in Classes |-> IF c = c1 THEN 0 ELSE NoIndex]
AllFaults == FaultKinds

=============================================================================
