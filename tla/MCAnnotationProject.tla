------------------------- MODULE MCAnnotationProject -------------------------
(* Two people, a brand and a labelling at one project, for TLC. *)
EXTENDS AnnotationProject, TLC

CONSTANTS c1, c2

First == [c \in Classes |-> IF c = c1 THEN 0 ELSE NoIndex]
Symmetric == Permutations(Users)

=============================================================================
