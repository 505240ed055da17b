SPECIFICATION Spec
CONSTANTS
  Users = {u1, u2}
  NoOne = NoOne
  Sources = {1, 2}
  FirstImages = {1}
  c1 = c1
  c2 = c2
  Classes = {c1, c2}
  ModelClasses = {c1}
  FirstYolo <- First
  MaxBoxes = 2
  MaxSnapshots = 1
  MinImages = 1
  MaxEdits = 3
SYMMETRY Symmetric
INVARIANTS TypeOK SnapshotIsRevision
PROPERTIES NoLostUpdate DeletionKeepsBoxes
