CONSTANTS
  x = x
  y = y
  Buckets = {b1}
  Keys = {k1}
  Clients = {c1, c2}
  Instances <- RacesAndSequences
SPECIFICATION Spec
SYMMETRY Symmetry
INVARIANTS
  TypeOK ReplayReproduces ReplayNeverRefuses ConditionsHeldAtCommit CopyIsOfCheckedSource
  CompletionIsWhatWasNamed UploadsEndOnce NoVersionLost
CHECK_DEADLOCK FALSE
