--------------------------- MODULE MCRoleHierarchy ---------------------------
(* Small instances of RoleHierarchy for TLC.                               *)
EXTENDS RoleHierarchy, TLC

(* Custom roles are interchangeable, and so are requests; used only where  *)
(* no liveness is checked.                                                 *)
Symmetry == Permutations(Roles \ Builtin) \cup Permutations(TreeRequests)

=============================================================================
