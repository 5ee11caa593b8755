------------------------------- MODULE Manifest -------------------------------
(***************************************************************************)
(* Manifests and their differences (index_jobs.go). A manifest gives each  *)
(* path the version of its content, the pair of hash and size the code     *)
(* compares; Absent marks a path it does not list.                         *)
(***************************************************************************)
EXTENDS Naturals, FiniteSets

CONSTANTS Path, Version

Absent == 0

ASSUME ManifestAssumption == IsFiniteSet(Path) /\ Version \subseteq Nat \ {0}

Manifests == [Path -> Version \cup {Absent}]

NoFiles == [f \in Path |-> Absent]

Listed(m) == {f \in Path : m[f] # Absent}

\* graftUnreadablePaths: a path the client could not read and did not list
\* keeps its previously indexed entry, if it had one.
graftUnreadablePaths(previous, files, unreadable) ==
  [f \in Path |-> IF files[f] = Absent /\ f \in unreadable
                  THEN previous[f] ELSE files[f]]

\* diffManifest: what must be uploaded, and what the new manifest dropped.
Pending(previous, current) == {f \in Listed(current) : current[f] # previous[f]}

Deleted(previous, current) == Listed(previous) \ Listed(current)

\* The cloud's content after it publishes a job that staged `staged` and the
\* deletions `gone`: overlaid on the root, or instead of it for replace_root.
Overlay(root, staged, gone, replace) ==
  IF replace THEN staged
  ELSE [f \in Path |-> IF staged[f] # Absent THEN staged[f]
                       ELSE IF f \in gone THEN Absent ELSE root[f]]
=============================================================================
