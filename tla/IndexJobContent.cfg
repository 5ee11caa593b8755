CONSTANTS
  Path = {f, g}
  Version = {1}
  Job = {j1, j2}
  NoJob = NoJob
  Handler = {h1}
  MaxFaults = 1
  CleanupOutlivesLease = FALSE
SPECIFICATION Spec
SYMMETRY Symmetry
INVARIANTS
  SnapshotMatchesCloud
