------------------------------ MODULE MCRequests ------------------------------
(***************************************************************************)
(* Does every request end?  The two components whose requests loop: a      *)
(* scene, chosen at the start, lets one of them move.                      *)
(***************************************************************************)
EXTENDS ModuleVersions, RoleHierarchy

VARIABLE scene

(* Bounds: no manifest is kept, which no request waits for, and resets run *)
(* while there is one version.                                             *)
WithinRequestBounds ==
    /\ \A v \in Versions : parts[v][Manifest] = None
    /\ \/ \E v \in Versions : vmodule[v] = None
       \/ \A r \in Requests : req[r].pc \notin {"reset_scripts", "reset_actions"}

RequestsInit == scene \in {"versions", "roles"} /\ Init /\ TreeInit

RequestsNext ==
    /\ UNCHANGED scene
    /\ \/ scene = "versions" /\ Next /\ UNCHANGED treeVars
       \/ scene = "roles" /\ TreeNext /\ UNCHANGED vars
    /\ WithinRequestBounds'

(* As FairSpec and TreeFairSpec.                                           *)
RequestsSpec ==
    /\ RequestsInit
    /\ [][RequestsNext]_<<scene, vars, treeVars>>
    /\ \A r \in Requests : SF_vars(Continue(r))
    /\ \A r \in TreeRequests : WF_treeVars(TreeContinue(r))

(* Every publish, fork and bulk revocation ends, and so does every request *)
(* about the role tree, even where a race has left a cycle to walk in.     *)
EveryRequestEnds == RequestsEnd /\ TreeRequestsEnd

=============================================================================
