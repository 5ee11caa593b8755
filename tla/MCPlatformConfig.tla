-------------------------- MODULE MCPlatformConfig --------------------------
(* An instance of PlatformConfig for TLC. *)
EXTENDS PlatformConfig, TLC

Symmetry == Permutations(Op)
=============================================================================
