-------------------------- MODULE VersionLifecycle --------------------------
(***************************************************************************)
(* What the policy module service promises about the versions of a module, *)
(* apart from how its requests carry it out: a version is created as a     *)
(* draft, is published in one step that retires the version published      *)
(* before it, may be revoked, and disappears only as a draft or together   *)
(* with its module.  ModuleVersions.tla is shown to implement this.        *)
(***************************************************************************)

CONSTANTS
    Modules,    \* policy modules
    Versions,   \* ids a policy_module_versions row can get; never reused
    None        \* NULL

VARIABLES
    vstate,     \* vstate[v]: the state column, "unused" before the INSERT
    vmodule,    \* vmodule[v]: the module the version belongs to
    live        \* modules whose row exists

vars == <<vstate, vmodule, live>>

VersionStates ==
    {"unused", "draft", "published", "superseded", "revoked", "deleted"}

(* States an agent may be told to install. *)
Deployable == {"published", "superseded"}

Of(m) == {v \in Versions : vmodule[v] = m}

(* The state column after publishing v: v is published and any other       *)
(* version of its module that was published is superseded.                 *)
AfterPublish(v) ==
    [x \in Versions |->
        IF x = v THEN "published"
        ELSE IF vmodule[x] = vmodule[v] /\ vstate[x] = "published"
             THEN "superseded"
             ELSE vstate[x]]

TypeOK ==
    /\ vstate \in [Versions -> VersionStates]
    /\ vmodule \in [Versions -> Modules \cup {None}]
    /\ live \subseteq Modules

Init ==
    /\ vstate = [v \in Versions |-> "unused"]
    /\ vmodule = [v \in Versions |-> None]
    /\ live = Modules

Create(v, m) ==
    /\ m \in live
    /\ vstate[v] = "unused"
    /\ vstate' = [vstate EXCEPT ![v] = "draft"]
    /\ vmodule' = [vmodule EXCEPT ![v] = m]
    /\ UNCHANGED live

Publish(v) ==
    /\ vstate[v] = "draft"
    /\ vstate' = AfterPublish(v)
    /\ UNCHANGED <<vmodule, live>>

Revoke(v) ==
    /\ vstate[v] \in Deployable
    /\ vstate' = [vstate EXCEPT ![v] = "revoked"]
    /\ UNCHANGED <<vmodule, live>>

Discard(v) ==
    /\ vstate[v] = "draft"
    /\ vstate' = [vstate EXCEPT ![v] = "deleted"]
    /\ UNCHANGED <<vmodule, live>>

Remove(m) ==
    /\ m \in live
    /\ live' = live \ {m}
    /\ vstate' = [v \in Versions |->
                    IF vmodule[v] = m THEN "deleted" ELSE vstate[v]]
    /\ UNCHANGED vmodule

Next ==
    \/ \E v \in Versions, m \in Modules : Create(v, m)
    \/ \E v \in Versions : Publish(v) \/ Revoke(v) \/ Discard(v)
    \/ \E m \in Modules : Remove(m)

Spec == Init /\ [][Next]_vars

-----------------------------------------------------------------------------
(* At most one version of a module is published at a time.                 *)
AtMostOnePublished ==
    \A v, w \in Versions :
        /\ vstate[v] = "published"
        /\ vstate[w] = "published"
        /\ vmodule[v] = vmodule[w]
        => v = w

(* A superseded version has a successor: its module still has a published  *)
(* version unless someone revoked one.                                     *)
SupersededHasSuccessor ==
    \A v \in Versions : vstate[v] = "superseded" =>
        \E w \in Versions : /\ vmodule[w] = vmodule[v]
                            /\ vstate[w] \in {"published", "revoked"}

=============================================================================
