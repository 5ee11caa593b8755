--------------------------- MODULE MCRootDeletion ---------------------------
(***************************************************************************)
(* The two ways to take content away: the durable deletion of a root and   *)
(* the console's direct operations. The lease and its fence keep them      *)
(* apart (IndexLeases), so each behaviour of this instance follows one of  *)
(* them; way says which.                                                   *)
(***************************************************************************)
EXTENDS RootDeletion, RootAdmin, TLC

VARIABLE way

DeletionInit == way \in {"durable", "direct"} /\ Init /\ AdminInit

Durable == way = "durable" /\ Next /\ UNCHANGED <<adminVars, way>>
Direct == way = "direct" /\ AdminNext /\ UNCHANGED <<vars, way>>

DeletionSpec == DeletionInit /\ [][Durable \/ Direct]_<<vars, adminVars, way>>

\* The roots of the direct operations carry the names of the workers. Attempt ids are
\* interchangeable although Fresh picks one: whichever it picks, the states that follow
\* differ by a permutation of the ids.
Symmetry == Permutations(Attempt) \cup Permutations(Worker) \cup Permutations(Deletion)
=============================================================================
