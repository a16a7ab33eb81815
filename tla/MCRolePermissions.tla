--------------------------- MODULE MCRolePermissions ---------------------------
(* RolePermissions for TLC: replacements that overlap.                     *)
EXTENDS RolePermissions, TLC

Symmetry == Permutations(Thread)
=============================================================================
