CONSTANTS
  Path = {f}
  Version = {1}
  Job = {j1, j2}
  NoJob = NoJob
  Handler = {h1, h2}
  MaxFaults = 1
  CleanupOutlivesLease = FALSE
SPECIFICATION Spec
SYMMETRY Symmetry
INVARIANTS
  CountsIndexedRows
  OneRunning
  PublishedNeverLost
PROPERTIES
  PublicationEndsByCloud
  ImplementsLifecycle
