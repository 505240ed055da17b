--------------------------- MODULE MCJobSubmission ---------------------------
(* Instances of JobSubmission for TLC. *)
EXTENDS JobSubmission, TLC

\* Every fault the model knows, and none.
AllFaults == FaultKinds
NoFaults == {}

\* Two payloads that differ in their content only, and one that differs in both.
TwinsAndOther == {[description |-> "a", content |-> "x"], [description |-> "a", content |-> "y"],
                  [description |-> "b", content |-> "z"]}

\* Submissions are interchangeable.
SubmissionSymmetry == Permutations(Submissions)

=============================================================================
