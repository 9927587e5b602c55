--------------------------- MODULE ConfigAssignments ---------------------------
(***************************************************************************)
(* Configuration groups, the policies bound in them and the targets they   *)
(* are assigned to: ConfigGroupService (src/pkg/services/configgroups.go), *)
(* with the quick assignment of one policy to one target through a group   *)
(* of the target's name, and AssignmentService.ResolveForTarget            *)
(* (assignments.go), which reads what applies to a target.                 *)
(*                                                                         *)
(* Nothing is a transaction.  Where an operation reads a row only to       *)
(* refuse, and then writes by id, its guard here is what holds of the row  *)
(* at any time after the read: a group that was there may be soft deleted  *)
(* when the write comes.  Values, states and priorities are left out.      *)
(***************************************************************************)
EXTENDS Naturals, FiniteSets

CONSTANTS
    CGroups,            \* ids a configuration_groups row can get
    Policies,
    Hosts,              \* assets and identities
    HostName,           \* HostName[h]: the name its direct group is given
    OtherNames,         \* names of groups that are no host's
    ScopesOf,           \* ScopesOf[h]: h, its groups, its site, the tenant
    ConfigRequests,
    NoGroup             \* no host, group or policy

HostNames == {HostName[h] : h \in Hosts}
GroupNames == HostNames \cup OtherNames
Targets == UNION {ScopesOf[h] : h \in Hosts}

ASSUME ScopesAssumption == \A h \in Hosts : h \in ScopesOf[h]
ASSUME NoGroupAssumption ==
    NoGroup \notin CGroups \cup Policies \cup Targets \cup GroupNames

VARIABLES
    cgroup,     \* cgroup[g]: "unused", "live", "deleted" (soft) or "gone"
    called,     \* called[g]: its name
    bound,      \* configuration_group_bindings: <<group, policy>>
    assigned,   \* configuration_group_assignments: <<group, target>>
    areq,       \* areq[r]: where request r is and what it has read
    doubled     \* history: names for which two searches overlapped before
                \* either created, or a group was made, restored or given
                \* the name by hand

configVars == <<cgroup, called, bound, assigned, areq, doubled>>

ConfigTables == <<cgroup, called, bound, assigned>>

ConfigIdle ==
    [pc |-> "idle", host |-> NoGroup, policy |-> NoGroup, group |-> NoGroup,
     scopes |-> {}, groups |-> {}, seen |-> {}, steady |-> TRUE]

ConfigRequestType ==
    [pc     : {"idle", "create", "bind", "assign",
               "scopes", "group", "bindings"},
     host   : Hosts \cup {NoGroup},
     policy : Policies \cup {NoGroup},
     group  : CGroups \cup {NoGroup},
     scopes : SUBSET Targets,               \* still to be listed
     groups : SUBSET CGroups,               \* listed, still to be read
     seen   : SUBSET (CGroups \X Policies), \* bindings to be shown
     steady : BOOLEAN]      \* history: nothing it relies on has been taken
                            \* away, or, for a resolution, written at all

ConfigTypeOK ==
    /\ cgroup \in [CGroups -> {"unused", "live", "deleted", "gone"}]
    /\ called \in [CGroups -> GroupNames \cup {NoGroup}]
    /\ bound \subseteq CGroups \X Policies
    /\ assigned \subseteq CGroups \X Targets
    /\ areq \in [ConfigRequests -> ConfigRequestType]
    /\ doubled \subseteq GroupNames

ConfigInit ==
    /\ cgroup = [g \in CGroups |-> "unused"]
    /\ called = [g \in CGroups |-> NoGroup]
    /\ bound = {}
    /\ assigned = {}
    /\ areq = [r \in ConfigRequests |-> ConfigIdle]
    /\ doubled = {}

ConfigAt(r, label) == areq[r].pc = label

ConfigMove(r, q) == areq' = [areq EXCEPT ![r] = q]

Resolving(r) == areq[r].pc \in {"scopes", "group", "bindings"}

(* The requests after a write that takes away what lies in group g when    *)
(* taken is true: it unsettles direct assignments that use g.              *)
Unsettled(g, taken) ==
    [s \in ConfigRequests |->
       IF Resolving(s) \/ (taken /\ areq[s].group = g)
       THEN [areq[s] EXCEPT !.steady = FALSE] ELSE areq[s]]

(* Groups of this name that are not deleted.                               *)
Live(g) == cgroup[g] = "live"

LiveNamed(n) == {g \in CGroups : Live(g) /\ called[g] = n}

(* Rows can be added to a group and taken from it until it is gone.        *)
Exists(g) == cgroup[g] \in {"live", "deleted"}

(* What applies to host h, by the tables of one moment.                    *)
Applied(h) ==
    {b \in bound : Live(b[1]) /\ \E t \in ScopesOf[h] : <<b[1], t>> \in assigned}

-----------------------------------------------------------------------------
(* Groups, bindings and assignments edited by hand.                        *)

CreateGroup(g, n) ==
    /\ cgroup[g] = "unused"
    /\ cgroup' = [cgroup EXCEPT ![g] = "live"]
    /\ called' = [called EXCEPT ![g] = n]
    /\ areq' = Unsettled(g, FALSE)
    /\ doubled' = doubled \cup {n}
    /\ UNCHANGED <<bound, assigned>>

(* UpdateFields: the row is live when it is read, and all of it is written *)
(* back.  n is a new name, or the one it was read with: an edit of another *)
(* field undoes a rename that came between.                                *)
RenameGroup(g, n) ==
    /\ Exists(g)
    /\ n # called[g]
    /\ called' = [called EXCEPT ![g] = n]
    /\ areq' = Unsettled(g, FALSE)
    /\ doubled' = doubled \cup {n}
    /\ UNCHANGED <<cgroup, bound, assigned>>

(* Delete, SoftDeleteConfigurationGroup.                                   *)
SoftDeleteGroup(g) ==
    /\ Live(g)
    /\ cgroup' = [cgroup EXCEPT ![g] = "deleted"]
    /\ areq' = Unsettled(g, TRUE)
    /\ UNCHANGED <<called, bound, assigned, doubled>>

RestoreGroup(g) ==
    /\ cgroup[g] = "deleted"
    /\ cgroup' = [cgroup EXCEPT ![g] = "live"]
    /\ areq' = Unsettled(g, FALSE)
    /\ doubled' = doubled \cup {called[g]}
    /\ UNCHANGED <<called, bound, assigned>>

(* Delete in immediate mode, PermanentlyDelete and the purge: both child   *)
(* tables cascade.                                                         *)
EraseConfigGroup(g) ==
    /\ Exists(g)
    /\ cgroup' = [cgroup EXCEPT ![g] = "gone"]
    /\ called' = [called EXCEPT ![g] = NoGroup]
    /\ bound' = {b \in bound : b[1] # g}
    /\ assigned' = {a \in assigned : a[1] # g}
    /\ areq' = Unsettled(g, TRUE)
    /\ UNCHANGED doubled

AddBinding(g, p) ==
    /\ Exists(g)
    /\ bound' = bound \cup {<<g, p>>}
    /\ areq' = Unsettled(g, FALSE)
    /\ UNCHANGED <<cgroup, called, assigned, doubled>>

RemoveBinding(g, p) ==
    /\ <<g, p>> \in bound
    /\ bound' = bound \ {<<g, p>>}
    /\ areq' = Unsettled(g, TRUE)
    /\ UNCHANGED <<cgroup, called, assigned, doubled>>

AddAssignment(g, t) ==
    /\ Exists(g)
    /\ assigned' = assigned \cup {<<g, t>>}
    /\ areq' = Unsettled(g, FALSE)
    /\ UNCHANGED <<cgroup, called, bound, doubled>>

RemoveAssignment(g, t) ==
    /\ <<g, t>> \in assigned
    /\ assigned' = assigned \ {<<g, t>>}
    /\ areq' = Unsettled(g, TRUE)
    /\ UNCHANGED <<cgroup, called, bound, doubled>>

-----------------------------------------------------------------------------
(* AssignPolicyDirect.                                                     *)

(* Mutant: the search finds nothing.                                       *)
FoundNone(n) == {g \in LiveNamed(n) : FALSE}

(* GetConfigurationGroupByName.                                            *)
Found(n) == LiveNamed(n)

(* FindOrCreateByName: any of several.                                     *)
DirectFind(r, h, p) ==
    LET q == [ConfigIdle EXCEPT !.host = h, !.policy = p]
        n == HostName[h]
        others == {s \in ConfigRequests :
                     ConfigAt(s, "create") /\ HostName[areq[s].host] = n} IN
    /\ ConfigAt(r, "idle")
    /\ \/ /\ Found(n) = {}
          /\ ConfigMove(r, [q EXCEPT !.pc = "create"])
          /\ doubled' = IF others = {} THEN doubled ELSE doubled \cup {n}
       \/ /\ \E g \in Found(n) :
               ConfigMove(r, [q EXCEPT !.pc = "bind", !.group = g])
          /\ UNCHANGED doubled
    /\ UNCHANGED ConfigTables

DirectCreate(r, g) ==
    /\ ConfigAt(r, "create")
    /\ cgroup[g] = "unused"
    /\ cgroup' = [cgroup EXCEPT ![g] = "live"]
    /\ called' = [called EXCEPT ![g] = HostName[areq[r].host]]
    /\ areq' = [Unsettled(g, FALSE) EXCEPT
                  ![r] = [areq[r] EXCEPT !.pc = "bind", !.group = g]]
    /\ UNCHANGED <<bound, assigned, doubled>>

(* Mutant: a policy that is bound already ends the request.                *)
BindStrict(q) == IF <<q.group, q.policy>> \in bound THEN ConfigIdle
                 ELSE [q EXCEPT !.pc = "assign"]

(* isUniqueErr: a row that is there already will do.                       *)
Bind(q) == [q EXCEPT !.pc = "assign"]

(* CreateConfigurationGroupBinding; the foreign key refuses a group that   *)
(* is gone.                                                                *)
DirectBind(r) ==
    LET q == areq[r] IN
    /\ ConfigAt(r, "bind")
    /\ IF Exists(q.group)
       THEN /\ bound' = bound \cup {<<q.group, q.policy>>}
            /\ areq' = [Unsettled(q.group, FALSE) EXCEPT ![r] = Bind(q)]
       ELSE /\ ConfigMove(r, ConfigIdle)
            /\ UNCHANGED bound
    /\ UNCHANGED <<cgroup, called, assigned, doubled>>

(* CreateConfigurationGroupAssignment.                                     *)
DirectAssign(r) ==
    LET q == areq[r] IN
    /\ ConfigAt(r, "assign")
    /\ IF Exists(q.group)
       THEN /\ assigned' = assigned \cup {<<q.group, q.host>>}
            /\ areq' = [Unsettled(q.group, FALSE) EXCEPT ![r] = ConfigIdle]
       ELSE /\ ConfigMove(r, ConfigIdle)
            /\ UNCHANGED assigned
    /\ UNCHANGED <<cgroup, called, bound, doubled>>

-----------------------------------------------------------------------------
(* ResolveForTarget.                                                       *)

ResolveStart(r, h) ==
    /\ ConfigAt(r, "idle")
    /\ ConfigMove(r, [ConfigIdle EXCEPT !.pc = "scopes", !.host = h,
                                        !.scopes = ScopesOf[h]])
    /\ UNCHANGED <<ConfigTables, doubled>>

(* ListAssignmentsByTarget leaves out soft deleted groups.                 *)
ResolveScope(r, t) ==
    LET q == areq[r] IN
    /\ ConfigAt(r, "scopes")
    /\ t \in q.scopes
    /\ ConfigMove(r, [q EXCEPT !.pc = "group", !.scopes = @ \ {t},
                        !.groups = {g \in CGroups :
                                      Live(g) /\ <<g, t>> \in assigned}])
    /\ UNCHANGED <<ConfigTables, doubled>>

(* GetConfigurationGroup: a group that has been deleted since is an error. *)
ResolveGroup(r) ==
    LET q == areq[r] IN
    /\ ConfigAt(r, "group")
    /\ \/ /\ q.groups = {}
          /\ ConfigMove(r, [q EXCEPT !.pc = "scopes"])
       \/ \E g \in q.groups :
            ConfigMove(r, IF Live(g) THEN [q EXCEPT !.pc = "bindings",
                                                    !.group = g,
                                                    !.groups = @ \ {g}]
                          ELSE ConfigIdle)
    /\ UNCHANGED <<ConfigTables, doubled>>

BindingsOf(g) == {b \in bound : b[1] = g}

(* Mutant: the list starts anew with every group.                          *)
ShownLast(q) == BindingsOf(q.group)

Shown(q) == q.seen \cup BindingsOf(q.group)

(* ListBindingsByGroup; seenBinding keeps each once.                       *)
ResolveBindings(r) ==
    LET q == areq[r] IN
    /\ ConfigAt(r, "bindings")
    /\ ConfigMove(r, [q EXCEPT !.pc = "group", !.group = NoGroup,
                               !.seen = Shown(q)])
    /\ UNCHANGED <<ConfigTables, doubled>>

ResolveDone(r) ==
    /\ ConfigAt(r, "scopes")
    /\ areq[r].scopes = {}
    /\ ConfigMove(r, ConfigIdle)
    /\ UNCHANGED <<ConfigTables, doubled>>

(* A statement fails or the process dies.                                  *)
ConfigFail(r) ==
    /\ ~ConfigAt(r, "idle")
    /\ ConfigMove(r, ConfigIdle)
    /\ UNCHANGED <<ConfigTables, doubled>>

ConfigStep(r) ==
    \/ \E h \in Hosts, p \in Policies : DirectFind(r, h, p)
    \/ \E g \in CGroups : DirectCreate(r, g)
    \/ DirectBind(r) \/ DirectAssign(r)
    \/ \E h \in Hosts : ResolveStart(r, h)
    \/ \E t \in Targets : ResolveScope(r, t)
    \/ ResolveGroup(r) \/ ResolveBindings(r) \/ ResolveDone(r)
    \/ ConfigFail(r)

ConfigEdit(g) ==
    \/ \E n \in GroupNames : CreateGroup(g, n) \/ RenameGroup(g, n)
    \/ SoftDeleteGroup(g) \/ RestoreGroup(g) \/ EraseConfigGroup(g)
    \/ \E p \in Policies : AddBinding(g, p) \/ RemoveBinding(g, p)
    \/ \E t \in Targets : AddAssignment(g, t) \/ RemoveAssignment(g, t)

ConfigNext ==
    \/ \E r \in ConfigRequests : ConfigStep(r)
    \/ \E g \in CGroups : ConfigEdit(g)

ConfigSpec == ConfigInit /\ [][ConfigNext]_configVars

-----------------------------------------------------------------------------
(* AssignPolicyDirect is "idempotent on repeats", whoever else assigns at  *)
(* the same time: when it returns without an error the policy applies to   *)
(* the target, unless the group it found has been deleted, or something    *)
(* taken from it, meanwhile.                                               *)
DirectPolicyApplies ==
    [][\A r \in ConfigRequests, h \in Hosts, p \in Policies :
         /\ areq[r].pc \in {"bind", "assign"}
         /\ areq[r].host = h /\ areq[r].policy = p
         /\ DirectAssign(r) \/ (DirectBind(r) /\ areq'[r].pc = "idle")
         /\ areq[r].steady
         => (\E b \in Applied(h) : b[2] = p)']_configVars

(* "returns the tenant's group with the given name, creating it if         *)
(* absent": there are two of a host's name only when two searches          *)
(* overlapped, or somebody made or restored one or renamed one to it.      *)
OneDirectGroup ==
    \A n \in HostNames \ doubled : Cardinality(LiveNamed(n)) <= 1

(* A resolution beside which nothing is written has read, scope by scope   *)
(* and group by group, exactly what applies.                               *)
ResolvedAsAssigned ==
    \A r \in ConfigRequests :
        ConfigAt(r, "scopes") /\ areq[r].scopes = {} /\ areq[r].steady =>
            areq[r].seen = Applied(areq[r].host)

(* Direct assignment works: it applies, one group per target takes it, and *)
(* a resolution shows it.                                                  *)
DirectAssignmentWorks ==
    DirectPolicyApplies /\ [](OneDirectGroup /\ ResolvedAsAssigned)

=============================================================================
