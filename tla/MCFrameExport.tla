---------------------------- MODULE MCFrameExport ----------------------------
(* Instances of FrameExport for TLC. *)
EXTENDS FrameExport

\* Every fault the model knows.
AllFaults == FaultKinds

=============================================================================
