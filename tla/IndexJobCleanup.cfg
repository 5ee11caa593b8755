CONSTANTS
  Path = {f}
  Version = {1}
  Job = {j1}
  NoJob = NoJob
  Handler = {h1, h2}
  MaxFaults = 1
  CleanupOutlivesLease = TRUE
SPECIFICATION Spec
PROPERTIES
  PublicationEndsByCloud
