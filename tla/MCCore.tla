-------------------------------- MODULE MCCore --------------------------------
(***************************************************************************)
(* The two components whose overlapping requests matter most, the module   *)
(* versions and the role tree, on small instances.  They share nothing: a  *)
(* scene, chosen at the start, lets one of them move.                      *)
(***************************************************************************)
EXTENDS ModuleVersions, RoleHierarchy, TLC

VARIABLE scene

(* Versions, contents and requests are interchangeable, two modules are    *)
(* too, and so are custom roles, which have the names of versions.  Safety *)
(* only: symmetry is not used where liveness is checked.                   *)
Symmetry ==
    Permutations(Versions) \cup Permutations(Modules) \cup Permutations(Requests)

(* Bounds on the instance: one role is assigned at a time; the three       *)
(* versions are of one module, or two of any, and one is never revoked;    *)
(* manifests are cached and resets run while there are at most two         *)
(* versions.                                                               *)
WithinBounds ==
    /\ Cardinality(assigned) <= 1
    /\ \/ \E m \in Modules : \A v \in Versions : vmodule[v] = m
       \/ \E v \in Versions : vmodule[v] = None
    /\ \E v \in Versions : vstate[v] # "revoked"
    /\ \/ \E v \in Versions : vmodule[v] = None
       \/ /\ \A v \in Versions : parts[v][Manifest] = None
          /\ \A r \in Requests : req[r].pc \notin {"reset_scripts", "reset_actions"}

CoreInit == scene \in {"versions", "roles"} /\ Init /\ TreeInit

CoreNext ==
    /\ UNCHANGED scene
    /\ \/ scene = "versions" /\ Next /\ UNCHANGED treeVars
       \/ scene = "roles" /\ TreeNext /\ UNCHANGED vars
    /\ WithinBounds'

CoreSpec == CoreInit /\ [][CoreNext]_<<scene, vars, treeVars>>

=============================================================================
