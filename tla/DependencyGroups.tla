--------------------------- MODULE DependencyGroups ---------------------------
(***************************************************************************)
(* The dependency groups of one tenant as pages and bulk requests change   *)
(* them, their conditions, and the links by which modules depend on them   *)
(* (pkg/services/dependencygroups.go and console/handlers/                 *)
(* dependency_group*.go under src/).  Seeding is module Startup's, what a  *)
(* group means for a device DependencyEval's, the purge cycle Retention's. *)
(*                                                                         *)
(* A request finds the group on its page, finds it again, perhaps counts   *)
(* its links, and writes by id.  No statement waits for another's request. *)
(* Names, descriptions and what a condition tests are left out.            *)
(***************************************************************************)
EXTENDS Naturals, FiniteSets, FiniteSetsExt

CONSTANTS
    GroupRows,      \* ids of dependency_groups rows
    BuiltinRows,    \* those seeded at startup
    Slugs,          \* [GroupRows -> the slug a row would get]
    Dependents,     \* modules
    MaxConditionRows,   \* how many conditions are ever added
    Clerks,         \* requests in flight
    NoGroupRow

ASSUME GroupRowsAssumption ==
    /\ BuiltinRows \subseteq GroupRows /\ NoGroupRow \notin GroupRows
    /\ DOMAIN Slugs = GroupRows /\ MaxConditionRows \in Nat

ASSUME DependentsAssumption == IsFiniteSet(GroupRows) /\ IsFiniteSet(Dependents)

LinkRoles == {"platform", "requirement"}

VARIABLES
    grow,           \* grow[g]: "none", "active", "binned" (soft deleted), "gone"
    matching,       \* matching[g]: match_mode
    conditions,     \* [id, group, seq]
    lastCondition,  \* ids are never used twice
    linked,         \* module_dependency_links: [module, group, role]
    clerk           \* clerk[r]: the request's next statement and locals; late:
                    \* a link has been made since it counted (history)

depVars == <<grow, matching, conditions, lastCondition, linked, clerk>>

GroupExists(g) == grow[g] \in {"active", "binned"}

LinkRows == [module : Dependents, group : GroupRows, role : LinkRoles]

ConditionRows ==
    [id : 1 .. MaxConditionRows, group : GroupRows, seq : 0 .. MaxConditionRows]

PageTasks == {"delete", "mode", "condition"} \cup LinkRoles

BulkTasks == {"delete", "restore", "purge"}

ClerkIdle == [next |-> "none", task |-> "delete", group |-> NoGroupRow,
              module |-> NoGroupRow, seq |-> 0, late |-> FALSE]

ClerkType ==
    [next : {"none", "get", "write", "count", "erase"}, task : PageTasks \cup BulkTasks,
     group : GroupRows \cup {NoGroupRow}, module : Dependents \cup {NoGroupRow},
     seq : 0 .. MaxConditionRows, late : BOOLEAN]

DepInit ==
    /\ grow = [g \in GroupRows |-> IF g \in BuiltinRows THEN "active" ELSE "none"]
    /\ matching = [g \in GroupRows |-> "all"]
    /\ conditions = {}
    /\ lastCondition = 0
    /\ linked = {}
    /\ clerk = [r \in Clerks |-> ClerkIdle]

ClerkAt(r, next) == clerk[r].next = next
Doing(r, tasks) == clerk[r].task \in tasks
Subject(r) == clerk[r].group

ClerkGoto(r, next) == clerk' = [clerk EXCEPT ![r].next = next]
ClerkDone(r) == clerk' = [clerk EXCEPT ![r] = ClerkIdle]

DepTables == <<grow, matching, conditions, lastCondition, linked>>

-----------------------------------------------------------------------------
(* The first statements: the page's, and the service's.                    *)

(* UNIQUE(tenant_id, slug) counts rows in the bin.                         *)
CreateDependencyGroup(g) ==
    /\ grow[g] = "none"
    /\ \A h \in GroupRows : Slugs[h] = Slugs[g] => ~GroupExists(h)
    /\ grow' = [grow EXCEPT ![g] = "active"]
    /\ UNCHANGED <<matching, conditions, lastCondition, linked, clerk>>

ResolveTenantDepGroup(r, g, task, m) ==
    /\ ClerkAt(r, "none")
    /\ grow[g] = "active"
    /\ clerk' = [clerk EXCEPT ![r] = [ClerkIdle EXCEPT
         !.task = task, !.group = g, !.module = IF task \in LinkRoles THEN m ELSE NoGroupRow,
         !.next = IF task \in LinkRoles THEN "write" ELSE "get"]]
    /\ UNCHANGED DepTables

DependencyGroupBulk(r, g, task) ==
    /\ ClerkAt(r, "none")
    /\ clerk' = [clerk EXCEPT ![r] = [ClerkIdle EXCEPT !.task = task, !.group = g, !.next = "get"]]
    /\ UNCHANGED DepTables

ConditionsOf(g) == {c \in conditions : c.group = g}

(* Delete, PermanentlyDelete: ErrBuiltinProtected.  Whether a deletion is  *)
(* soft is a setting read at this point.                                   *)
GetForDeletion(r) ==
    /\ ClerkAt(r, "get") /\ Doing(r, {"delete", "purge"})
    /\ GroupExists(Subject(r)) /\ Subject(r) \notin BuiltinRows
    /\ \/ Doing(r, {"delete"}) /\ ClerkGoto(r, "write")
       \/ ClerkGoto(r, "count")
    /\ UNCHANGED DepTables

GetForRestore(r) ==
    /\ ClerkAt(r, "get") /\ Doing(r, {"restore"})
    /\ GroupExists(Subject(r))
    /\ ClerkGoto(r, "write")
    /\ UNCHANGED DepTables

GetForMatchMode(r) ==
    /\ ClerkAt(r, "get") /\ Doing(r, {"mode"})
    /\ grow[Subject(r)] = "active" /\ Subject(r) \notin BuiltinRows
    /\ ClerkGoto(r, "write")
    /\ UNCHANGED DepTables

ListConditionsForGroup(r) ==
    /\ ClerkAt(r, "get") /\ Doing(r, {"condition"})
    /\ clerk' = [clerk EXCEPT ![r].next = "write",
                              ![r].seq = Cardinality(ConditionsOf(Subject(r)))]
    /\ UNCHANGED DepTables

-----------------------------------------------------------------------------
(* The writes.                                                             *)

SoftDeleteDependencyGroup(r) ==
    /\ ClerkAt(r, "write") /\ Doing(r, {"delete"})
    /\ grow' = [grow EXCEPT ![Subject(r)] = IF @ = "active" THEN "binned" ELSE @]
    /\ ClerkDone(r)
    /\ UNCHANGED <<matching, conditions, lastCondition, linked>>

RestoreDependencyGroup(r) ==
    /\ ClerkAt(r, "write") /\ Doing(r, {"restore"})
    /\ grow' = [grow EXCEPT ![Subject(r)] = IF @ = "binned" THEN "active" ELSE @]
    /\ ClerkDone(r)
    /\ UNCHANGED <<matching, conditions, lastCondition, linked>>

(* Mutant: links to a group in the bin do not count.                       *)
CountVisibleLinks(g) == Cardinality({l \in linked : l.group = g /\ grow[g] = "active"})

CountLinksForGroup(g) == Cardinality({l \in linked : l.group = g})

(* hardDeleteDependencyGroup.                                              *)
HardDelete(r) ==
    /\ ClerkAt(r, "count")
    /\ IF CountLinksForGroup(Subject(r)) = 0 THEN ClerkGoto(r, "erase") ELSE ClerkDone(r)
    /\ UNCHANGED DepTables

(* ON DELETE CASCADE on conditions and links.                              *)
DeleteDependencyGroup(r) ==
    LET g == Subject(r) IN
    /\ ClerkAt(r, "erase")
    /\ grow' = [grow EXCEPT ![g] = "gone"]
    /\ conditions' = conditions \ ConditionsOf(g)
    /\ linked' = {l \in linked : l.group # g}
    /\ ClerkDone(r)
    /\ UNCHANGED <<matching, lastCondition>>

UpdateGroupMatchMode(r, mode) ==
    /\ ClerkAt(r, "write") /\ Doing(r, {"mode"})
    /\ matching' = [matching EXCEPT ![Subject(r)] = IF GroupExists(Subject(r)) THEN mode ELSE @]
    /\ ClerkDone(r)
    /\ UNCHANGED <<grow, conditions, lastCondition, linked>>

CreateDependencyGroupCondition(r) ==
    /\ ClerkAt(r, "write") /\ Doing(r, {"condition"})
    /\ GroupExists(Subject(r)) /\ lastCondition < MaxConditionRows
    /\ lastCondition' = lastCondition + 1
    /\ conditions' = conditions \cup
         {[id |-> lastCondition', group |-> Subject(r), seq |-> clerk[r].seq]}
    /\ ClerkDone(r)
    /\ UNCHANGED <<grow, matching, linked>>

(* By both ids, after a look at the page's group.                          *)
DeleteDependencyGroupCondition(c) ==
    /\ conditions' = conditions \ {c}
    /\ UNCHANGED <<grow, matching, lastCondition, linked, clerk>>

(* Mutant: INSERT OR REPLACE.                                              *)
LinkOrReplace(l) ==
    {l} \cup {k \in linked : ~(k.module = l.module /\ k.group = l.group)}

(* INSERT OR IGNORE under UNIQUE(tenant_id, module_id, group_id).          *)
LinkOrIgnore(l) ==
    IF \E k \in linked : k.module = l.module /\ k.group = l.group
      THEN linked ELSE linked \cup {l}

LinkModule(r) ==
    LET g == Subject(r) IN
    /\ ClerkAt(r, "write") /\ Doing(r, LinkRoles)
    /\ GroupExists(g)
    /\ linked' = LinkOrIgnore([module |-> clerk[r].module, group |-> g, role |-> clerk[r].task])
    /\ clerk' = [q \in Clerks |-> IF q = r THEN ClerkIdle
         ELSE [clerk[q] EXCEPT !.late = @ \/ (ClerkAt(q, "erase") /\ Subject(q) = g)]]
    /\ UNCHANGED <<grow, matching, conditions, lastCondition>>

(* By module and group, whichever role the link has.                       *)
UnlinkModule(m, g) ==
    /\ linked' = {l \in linked : ~(l.module = m /\ l.group = g)}
    /\ UNCHANGED <<grow, matching, conditions, lastCondition, clerk>>

(* ErrDependencyGroupNotFound, a builtin, a row that is gone, a failing    *)
(* statement, or the death of the process.                                 *)
ClerkGivesUp(r) ==
    /\ ~ClerkAt(r, "none")
    /\ ClerkDone(r)
    /\ UNCHANGED DepTables

DepNext ==
    \/ \E g \in GroupRows : CreateDependencyGroup(g)
    \/ \E r \in Clerks :
         \/ \E g \in GroupRows, task \in PageTasks, m \in Dependents : ResolveTenantDepGroup(r, g, task, m)
         \/ \E g \in GroupRows, task \in BulkTasks : DependencyGroupBulk(r, g, task)
         \/ GetForDeletion(r) \/ GetForRestore(r) \/ GetForMatchMode(r) \/ ListConditionsForGroup(r)
         \/ SoftDeleteDependencyGroup(r) \/ RestoreDependencyGroup(r)
         \/ HardDelete(r) \/ DeleteDependencyGroup(r)
         \/ \E mode \in {"all", "any"} : UpdateGroupMatchMode(r, mode)
         \/ CreateDependencyGroupCondition(r) \/ LinkModule(r) \/ ClerkGivesUp(r)
    \/ \E c \in conditions : DeleteDependencyGroupCondition(c)
    \/ \E m \in Dependents, g \in GroupRows : UnlinkModule(m, g)

DepSpec == DepInit /\ [][DepNext]_depVars

-----------------------------------------------------------------------------

DepTypeOK ==
    /\ grow \in [GroupRows -> {"none", "active", "binned", "gone"}]
    /\ matching \in [GroupRows -> {"all", "any"}]
    /\ conditions \subseteq ConditionRows
    /\ lastCondition \in 0 .. MaxConditionRows
    /\ linked \subseteq LinkRows
    /\ clerk \in [Clerks -> ClerkType]

(* What a module depends on, and in which role, changes only by unlinking: *)
(* not by linking again in another role, and not by whatever deletes,      *)
(* restores and purges the group meanwhile, except where a link has come   *)
(* between a purge's count of links and its DELETE.                        *)
LinksGoByUnlinking ==
    [][\A l \in linked :
         \/ l \in linked'
         \/ UnlinkModule(l.module, l.group)
         \/ \E r \in Clerks : ClerkAt(r, "erase") /\ Subject(r) = l.group /\ clerk[r].late
      ]_depVars

=============================================================================
