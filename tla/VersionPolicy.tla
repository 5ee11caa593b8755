---------------------------- MODULE VersionPolicy ----------------------------
(***************************************************************************)
(* The minimum client version (client_version_policy.go): kept in memory   *)
(* for the gate, stored in relay_runtime_settings, with an environment     *)
(* variable as the default of a database that has none.                    *)
(***************************************************************************)
CONSTANTS
  Version,    \* versions an administrator may require
  Off,        \* the empty string: no gate
  NoRow,      \* relay_runtime_settings has no row
  Default,    \* MIN_CLIENT_VERSION
  Save        \* concurrent saves

ASSUME VersionAssumption == Default \in Version \cup {Off} /\ NoRow \notin Version \cup {Off}

VARIABLES
  stored,     \* the row
  minimum,    \* minClientVersion
  saving,     \* saveMinimumClientVersion
  running,    \* the process runs
  decided,    \* history: the last version committed, or the default
  muddled     \* history: since the start, two saves crossed or a commit's answer was lost

versionVars == <<stored, minimum, saving, running, decided, muddled>>

Setting == Version \cup {Off}
Idle == [at |-> "idle"]

\* Versions and saves keep their shape.
VersionTypeOK ==
  /\ stored \in Setting \cup {NoRow} /\ minimum \in Setting /\ decided \in Setting
  /\ saving \in [Save -> [at : {"commit", "set"}, version : Setting] \cup {Idle}]
  /\ running \in BOOLEAN /\ muddled \in BOOLEAN

VersionInit ==
  /\ stored = NoRow /\ minimum = Default /\ decided = Default
  /\ saving = [s \in Save |-> Idle]
  /\ running = TRUE /\ muddled = FALSE

BeginSave(s, v) ==
  /\ running /\ saving[s] = Idle
  /\ saving' = [saving EXCEPT ![s] = [at |-> "commit", version |-> v]]
  /\ UNCHANGED <<stored, minimum, running, decided, muddled>>

\* Variant of RowFor: no row stands for no gate.
RowForNone(v) == IF v = Off THEN NoRow ELSE v

\* "空字符串也必须持久化": the empty string is stored like any other.
RowFor(v) == v

Crossing(s) == \E t \in Save \ {s} : saving[t].at = "set"

\* The transaction commits; its answer may be lost.
CommitVersion(s, answered) ==
  /\ saving[s].at = "commit"
  /\ stored' = RowFor(saving[s].version) /\ decided' = saving[s].version
  /\ saving' = [saving EXCEPT ![s] = IF answered THEN [@ EXCEPT !.at = "set"] ELSE Idle]
  /\ muddled' = (muddled \/ Crossing(s) \/ ~answered)
  /\ UNCHANGED <<minimum, running>>

RollBack(s) ==
  /\ saving[s].at = "commit"
  /\ saving' = [saving EXCEPT ![s] = Idle]
  /\ UNCHANGED <<stored, minimum, running, decided, muddled>>

\* setMinClientVersion
SetMinimum(s) ==
  /\ saving[s].at = "set"
  /\ minimum' = saving[s].version
  /\ saving' = [saving EXCEPT ![s] = Idle]
  /\ UNCHANGED <<stored, running, decided, muddled>>

Halt ==
  /\ running
  /\ running' = FALSE /\ saving' = [s \in Save |-> Idle]
  /\ UNCHANGED <<stored, minimum, decided, muddled>>

\* migrateClientVersionPolicy
Launch ==
  /\ ~running
  /\ running' = TRUE /\ muddled' = FALSE
  /\ minimum' = IF stored = NoRow THEN Default ELSE stored
  /\ UNCHANGED <<stored, saving, decided>>

VersionNext ==
  \/ \E s \in Save : \/ \E v \in Setting : BeginSave(s, v)
                     \/ \E answered \in BOOLEAN : CommitVersion(s, answered)
                     \/ RollBack(s) \/ SetMinimum(s)
  \/ Halt \/ Launch

VersionSpec == VersionInit /\ [][VersionNext]_versionVars

\* The gate enforces the last version saved, "no gate" included, through any restart
\* and any failed save ("重启后会重新落回环境变量的启动默认值", what storing the empty
\* string prevents), except while a save is between its commit and its assignment, and
\* until the next start after two saves crossed there or a commit's answer was lost.
GateFollowsDecision ==
  running /\ ~muddled /\ (\A s \in Save : saving[s].at # "set") => minimum = decided
=============================================================================
