\* Two overlapping jobs and up to 3 events.
SPECIFICATION SnapshotsSpec
CONSTANTS
  j1 = j1
  j2 = j2
  SnapshotJobs = {j1, j2}
  MaxId = 3
  Threshold = 2
SYMMETRY Symmetry
INVARIANTS
  TypeOK
  NoEventMissed
