-------------------------- MODULE MCModuleVersions --------------------------
(* Small instances of ModuleVersions for TLC.                              *)
EXTENDS ModuleVersions, TLC

(* Versions, contents and requests are interchangeable; two modules are    *)
(* too.  Safety only: symmetry is not used where liveness is checked.      *)
Symmetry ==
    Permutations(Modules) \cup Permutations(Versions)
      \cup Permutations(Requests)

=============================================================================
