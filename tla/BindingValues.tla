----------------------------- MODULE BindingValues -----------------------------
(***************************************************************************)
(* The binding of one policy in one configuration group: its module        *)
(* override, version pin and parameter values as the Bindings tab saves    *)
(* them (pkg/services/configgroups.go, console/handlers/config_groups.go   *)
(* under src/), checked against the schema of the module it looks up; and  *)
(* the module and version that ResolveBindingModule picks for a binding    *)
(* (catalog/policymodules/defaults.go: INV-M11).                           *)
(*                                                                         *)
(* A save looks up the override, the modules, a module again and its       *)
(* version before it writes; modules are published, revoked, deleted and   *)
(* restored in between.  The group and the device's OS are left out.       *)
(***************************************************************************)
EXTENDS Naturals, Sequences

CONSTANTS
    Library,        \* the visible modules in ListModules' order
    Satisfying,     \* those that satisfy the policy
    Bundled,        \* those of origin "bundled"
    Catalogs,       \* [module -> states of its versions, oldest first]: where
                    \* to start from
    Accepted,       \* Accepted[m][n]: the values validateParamValues takes for
                    \* version n's schema; all, where there is no schema
    Given,          \* what a form can hold
    MaxChanges,     \* how many changes others make (a bound on the model)
    Savers,         \* requests in flight
    Default         \* no module, no pin, no value

LibraryModules == {Library[n] : n \in DOMAIN Library}

VersionNumbers(m) == DOMAIN Accepted[m]
ReleaseStates == {"draft", "published", "superseded", "revoked"}

Pins == {Default} \cup UNION {VersionNumbers(m) : m \in LibraryModules}

ASSUME LibraryAssumption ==
    /\ Library \in Seq(LibraryModules)
    /\ Satisfying \subseteq LibraryModules /\ Bundled \subseteq LibraryModules
    /\ Default \notin LibraryModules \cup Given /\ MaxChanges \in Nat
    /\ Catalogs \subseteq [LibraryModules -> Seq(ReleaseStates)]
    /\ \A c \in Catalogs : \A m \in LibraryModules : DOMAIN c[m] = VersionNumbers(m)

VARIABLES
    shown,          \* modules that are not deleted
    release,        \* release[m][n]: the state of version n
    tenantDefault,  \* the tenant's default module and pin for the policy
    binding,        \* the row of UNIQUE(group, policy), if there is one
    saver,          \* saver[r]: the save's next statement and locals
    changes         \* changes others have made so far

bindingVars == <<shown, release, tenantDefault, binding, saver, changes>>

NoBinding == [there |-> FALSE, module |-> Default, pin |-> Default, value |-> Default]

(* orphan: the row it updates has been removed.  steady: others have       *)
(* changed nothing since the request began.  blind: a lookup has failed.   *)
(* All three are history.                                                  *)
SaverIdle == [next |-> "none", adding |-> TRUE, row |-> NoBinding, picked |-> Default,
              orphan |-> FALSE, steady |-> TRUE, blind |-> FALSE]

BindingInit ==
    /\ shown = LibraryModules
    /\ release \in Catalogs
    /\ tenantDefault = [module |-> Default, pin |-> Default]
    /\ binding = NoBinding
    /\ saver = [r \in Savers |-> SaverIdle]
    /\ changes = 0

SaverAt(r, next) == saver[r].next = next

SaverGoto(r, next) == saver' = [saver EXCEPT ![r].next = next]

SaverDone(r) == saver' = [saver EXCEPT ![r] = SaverIdle]

Published(m) == {n \in VersionNumbers(m) : release[m][n] = "published"}

(* The first of S in ListModules' order, where a loop over the modules     *)
(* that looks for one of S stops.                                          *)
Earliest(S) ==
    Library[CHOOSE n \in DOMAIN Library :
              Library[n] \in S /\ \A k \in 1 .. (n - 1) : Library[k] \notin S]

-----------------------------------------------------------------------------
(* ResolveBindingModule.                                                   *)

(* pickVersion: the published version, or the pinned one if deployable.    *)
PickVersion(m, pin) ==
    IF pin = Default THEN Published(m)
    ELSE {n \in VersionNumbers(m) \cap {pin} : release[m][n] \in {"published", "superseded"}}

Choosable(m, pin) == m \in shown \cap Satisfying /\ PickVersion(m, pin) # {}

Pick(source, m, pin) ==
    [source |-> source, module |-> m, version |-> CHOOSE n \in PickVersion(m, pin) : TRUE]

PlurisDefaults == {m \in Bundled : Choosable(m, Default)}

ResolveBindingModule(b) ==
    IF b.module # Default /\ Choosable(b.module, b.pin) THEN Pick("binding", b.module, b.pin)
    ELSE IF tenantDefault.module # Default /\ Choosable(tenantDefault.module, tenantDefault.pin)
      THEN Pick("tenant", tenantDefault.module, tenantDefault.pin)
    ELSE IF PlurisDefaults # {} THEN Pick("pluris", Earliest(PlurisDefaults), Default)
    ELSE [source |-> "none", module |-> Default, version |-> Default]

-----------------------------------------------------------------------------
(* A save.                                                                 *)

(* resolveOverrideModule refuses a module that is not there.               *)
SaveStarts(r, adding, m, pin, value) ==
    /\ SaverAt(r, "none")
    /\ m \in shown \cup {Default}
    /\ saver' = [saver EXCEPT ![r] = [SaverIdle EXCEPT
         !.next = IF m = Default THEN "list" ELSE "row", !.adding = adding, !.picked = m,
         !.row = [there |-> TRUE, module |-> m, pin |-> pin, value |-> value]]]
    /\ UNCHANGED <<shown, release, tenantDefault, binding, changes>>

AddCheckedBinding(r, m, pin, value) == SaveStarts(r, TRUE, m, pin, value)

UpdateBinding(r, m, pin, value) == binding.there /\ SaveStarts(r, FALSE, m, pin, value)

(* Mutant: the first that satisfies the policy, wherever it comes from.    *)
FirstSatisfying(S) == Earliest(S)

(* resolveParamSchema without an override: bundled before the tenant's own.*)
DefaultAmong(S) == Earliest(IF S \cap Bundled # {} THEN S \cap Bundled ELSE S)

ListForSchema(r) ==
    LET found == shown \cap Satisfying IN
    /\ SaverAt(r, "list")
    /\ saver' = [saver EXCEPT
         ![r].next = IF found = {} THEN "write" ELSE "row",
         ![r].picked = IF found = {} THEN Default ELSE DefaultAmong(found)]
    /\ UNCHANGED <<shown, release, tenantDefault, binding, changes>>

(* A module deleted by now leaves nothing to check the values against.     *)
GetModuleRow(r) ==
    /\ SaverAt(r, "row")
    /\ SaverGoto(r, IF saver[r].picked \in shown THEN "version" ELSE "write")
    /\ UNCHANGED <<shown, release, tenantDefault, binding, changes>>

ValidateParamValues(m, value) == \A n \in Published(m) : value \in Accepted[m][n]

(* GetLatestPublishedVersion, by id; the values are checked, or refused.   *)
CheckValues(r) ==
    /\ SaverAt(r, "version")
    /\ IF ValidateParamValues(saver[r].picked, saver[r].row.value)
         THEN SaverGoto(r, "write") ELSE SaverDone(r)
    /\ UNCHANGED <<shown, release, tenantDefault, binding, changes>>

(* Whatever makes a lookup fail, there is then no schema, and the values   *)
(* are written as they came.                                               *)
LookupFails(r) ==
    /\ saver[r].next \in {"list", "row", "version"}
    /\ saver' = [saver EXCEPT ![r].next = "write", ![r].blind = TRUE]
    /\ UNCHANGED <<shown, release, tenantDefault, binding, changes>>

(* INSERT under UNIQUE(group, policy), or UPDATE of the row by its id.     *)
WriteBinding(r) ==
    /\ SaverAt(r, "write")
    /\ IF saver[r].adding THEN ~binding.there ELSE ~saver[r].orphan
    /\ binding' = saver[r].row
    /\ SaverDone(r)
    /\ UNCHANGED <<shown, release, tenantDefault, changes>>

(* The write is refused or fails, or the process dies.                     *)
SaverFails(r) ==
    /\ ~SaverAt(r, "none")
    /\ SaverDone(r)
    /\ UNCHANGED <<shown, release, tenantDefault, binding, changes>>

RemoveCheckedBinding ==
    /\ binding.there
    /\ binding' = NoBinding
    /\ saver' = [r \in Savers |->
         [saver[r] EXCEPT !.orphan = ~SaverAt(r, "none") /\ ~saver[r].adding]]
    /\ UNCHANGED <<shown, release, tenantDefault, changes>>

-----------------------------------------------------------------------------
(* What others change meanwhile.                                           *)

OthersChange ==
    /\ changes < MaxChanges
    /\ changes' = changes + 1
    /\ saver' = [r \in Savers |-> [saver[r] EXCEPT !.steady = SaverAt(r, "none")]]
    /\ UNCHANGED binding

PublishRelease(m, n) ==
    /\ release[m][n] = "draft"
    /\ release' = [release EXCEPT ![m] = [k \in VersionNumbers(m) |->
         IF k = n THEN "published" ELSE IF @[k] = "published" THEN "superseded" ELSE @[k]]]
    /\ UNCHANGED <<shown, tenantDefault>>
    /\ OthersChange

RevokeRelease(m, n) ==
    /\ release[m][n] \in {"published", "superseded"}
    /\ release' = [release EXCEPT ![m][n] = "revoked"]
    /\ UNCHANGED <<shown, tenantDefault>>
    /\ OthersChange

DeleteOrRestoreModule(m) ==
    /\ shown' = IF m \in shown THEN shown \ {m} ELSE shown \cup {m}
    /\ UNCHANGED <<release, tenantDefault>>
    /\ OthersChange

(* SetTenantDefault, ClearTenantDefault.                                   *)
SetTenantDefault(m, pin) ==
    /\ tenantDefault' = [module |-> m, pin |-> pin]
    /\ UNCHANGED <<shown, release>>
    /\ OthersChange

BindingNext ==
    \/ \E r \in Savers :
         \/ \E m \in LibraryModules \cup {Default}, pin \in Pins, value \in Given :
              AddCheckedBinding(r, m, pin, value) \/ UpdateBinding(r, m, pin, value)
         \/ ListForSchema(r) \/ GetModuleRow(r) \/ CheckValues(r)
         \/ LookupFails(r) \/ WriteBinding(r) \/ SaverFails(r)
    \/ RemoveCheckedBinding
    \/ \E m \in LibraryModules :
         \/ DeleteOrRestoreModule(m)
         \/ \E n \in VersionNumbers(m) : PublishRelease(m, n) \/ RevokeRelease(m, n)
    \/ \E m \in LibraryModules \cup {Default}, pin \in Pins : SetTenantDefault(m, pin)

BindingSpec == BindingInit /\ [][BindingNext]_bindingVars

-----------------------------------------------------------------------------

BindingTypeOK ==
    /\ shown \subseteq LibraryModules
    /\ \A m \in LibraryModules : \A n \in VersionNumbers(m) :
         release[m][n] \in ReleaseStates
    /\ {tenantDefault.module, binding.module} \subseteq LibraryModules \cup {Default}
    /\ binding.value \in Given \cup {Default}
    /\ \A r \in Savers : saver[r].next \in {"none", "list", "row", "version", "write"}

(* The first bundled module that satisfies the policy, published or not.   *)
FirstBundled == Earliest(shown \cap Satisfying \cap Bundled)

(* A save that no change of the modules overlaps and whose lookups are all *)
(* answered has checked its values for the very module and version the     *)
(* binding then resolves to, although each finds it in its own way: when   *)
(* nothing is pinned, by an override that satisfies the policy, or else by *)
(* the first bundled module, as long as that one is published and the      *)
(* tenant has no default of its own.  (A lookup that fails is taken for a  *)
(* module without a schema, and nothing is checked: LookupFails.)          *)
ValidatedAsResolved ==
    [][\A r \in Savers :
         WriteBinding(r) /\ saver[r].steady /\ ~saver[r].blind /\ binding'.pin = Default =>
           LET pick == ResolveBindingModule(binding') IN
           (\/ pick.source = "binding"
            \/ pick.source = "pluris" /\ binding'.module = Default /\ pick.module = FirstBundled)
           => binding'.value \in Accepted[pick.module][pick.version]
      ]_bindingVars

=============================================================================
