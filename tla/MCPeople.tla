------------------------------- MODULE MCPeople -------------------------------
(***************************************************************************)
(* Who may do what, in two scenes: the matrices of four roles, and the     *)
(* accounts of two people.  As in MCConsole, a scene lets one of the two   *)
(* components move and the other stay in its initial state.                *)
(*                                                                         *)
(* A resolution reads three rows here, so that the chain of all four       *)
(* roles, which moving top below root builds under low and mid, is cut     *)
(* short.                                                                  *)
(***************************************************************************)
EXTENDS RoleMatrix, Accounts, TLC

CONSTANTS root, top, mid, low, acting, super, o1, o2, e1, e2

VARIABLE scene

MCSavedRoles == acting :> {mid, low} @@ super :> {top}

(* mid and low may trade places.                                           *)
MCParents == low :> {mid} @@ mid :> {top, low} @@ top :> {root} @@ root :> {}

MCForms == {[org |-> o1, email |-> e1], [org |-> o2, email |-> e2]}

(* Two organizations with their addresses and forms can change places.     *)
Swap == o1 :> o2 @@ o2 :> o1 @@ e1 :> e2 @@ e2 :> e1

Symmetry == Permutations(Wizards) \cup Permutations(Visits) \cup {Swap}

PeopleInit ==
    /\ scene \in {"matrix", "accounts"}
    /\ RoleMatrixInit /\ AccountsInit

(* After a mishap nothing is claimed of accounts, so nothing is followed.  *)
PeopleNext ==
    /\ UNCHANGED scene
    /\ \/ scene = "matrix" /\ RoleMatrixNext /\ UNCHANGED accountVars
       \/ scene = "accounts" /\ mishaps = {} /\ AccountsNext /\ UNCHANGED matrixVars

PeopleSpec == PeopleInit /\ [][PeopleNext]_<<scene, matrixVars, accountVars>>

=============================================================================
