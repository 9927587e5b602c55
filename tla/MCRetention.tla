----------------------------- MODULE MCRetention -----------------------------
(* Small instances of Retention for TLC.                                   *)
EXTENDS Retention, TLC

CONSTANTS m, g, c, d    \* a policy module, a group, a configuration group,
                        \* a dependency group

MCKindOf ==
    [x \in Items |-> CASE x = m -> "policy_module"
                       [] x = g -> "group"
                       [] x = c -> "configuration_group"
                       [] x = d -> "dependency_group"]

(* Requests are interchangeable; used only where no liveness is checked.   *)
Symmetry == Permutations(Requests)

=============================================================================
