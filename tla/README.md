# Pluris in TLA+

Pluris is a console for managing computers and users: Go, Echo handlers over one
SQLite database, queries generated by sqlc. This directory holds TLA+ models of
its core logic, the TLC configurations that check them on small instances and
TLAPS proofs of what matters most for instances of every size.

Paths below are relative to the repository (`src/` here). `PROJECT.json` maps every
definition to the lines it models.

## 1. What makes this system hard

Echo runs each HTTP request in a goroutine of its own. The pool is limited to one
connection (`pkg/database/database.go`, `SetMaxOpenConns(1)`), which makes each SQL
statement atomic and makes an open transaction exclude every other statement. But
almost no handler uses a transaction: a handler is a sequence of statements, and
the statements of different requests interleave between them. So the recurring
shape is *read, decide, write*, and the recurring question is whether the write
repeats the check. It does for policy module versions (`WHERE state = 'draft'`); it
does not for the role tree. On top of that come a purge goroutine that runs at
boot and every hour, statements that fail half way through a handler, and the
process dying between two statements: what was written stays, nothing is undone
but an open transaction.

## 2. Inventory

| Component | State | Operations | Interacts with | Hard behaviour | Correct when |
|---|---|---|---|---|---|
| Policy module versions (`pkg/services/policymodules*.go`, module editor) | `policy_module_versions.state`, `superseded_by_version`, the version's columns, scripts, actions, tests, dependencies | create, edit, publish, fork, revoke, delete; seed, restore, reset defaults; delete of the module | purge, configuration groups, dependency links | publish is two reads and a transaction, fork, revocation and resets are loops without one | at most one published version per module, frozen content, never a gap in what is published; defaults stay as shipped |
| Module copies (`policymodules_import.go`, `_export.go`, clone) | the same tables | export, import, clone | archives, the editor | a copy is visible from its first row | a copy that reports success is complete |
| Role hierarchy (`pkg/authz/service.go`, `console/handlers/pluris_policy.go`) | `roles.parent_role_id` | create, clone, reparent, delete | role matrix, role assignments | ancestor walk, one SELECT per row, then an unchecked UPDATE | a forest no deeper than `MaxRoleDepth`, nothing orphaned |
| Role matrix and grants (`pkg/authz`) | `roles.permissions` | save overrides, resolve, union, self-lockout guard | hierarchy, middleware | stored differences to a matrix that may have changed | saving a matrix makes it effective; nobody locks himself out |
| Module access (`pkg/authz/modules.go`) | none | view, edit, admin decisions | grants, ownership | many sources of one level | levels nest, grants only add |
| Role assignments and role cache (`pkg/services/roles.go`) | `identity_roles`, `group_roles`, `identities.role` | assign, remove, recompute | groups, login | a denormalised cache recomputed after some changes only | the cache agrees with the assignments when nothing is in flight |
| Groups (`pkg/services/groups.go`, `group_rules.go`) | `groups`, `group_memberships`, `group_membership_rules` | add, remove, rules, evaluate, change mode or kind, delete | roles, assignments, retention | reconciliation as many statements, concurrent evaluations | rule members are those the rules match, direct ones are never touched |
| Retention (`pkg/services/retention.go`, `console/server/server.go`) | `retention_settings`, `deleted_at` of six kinds | delete, restore, purge one, purge cycle | every kind, reference guards | lists first, deletes later | only what is deleted and expired is purged |
| Login, sessions, setup (`console/handlers/auth.go`, `pkg/auth`) | `identities` flags and counters, `sessions`, `tenants` | login, logout, lock, setup, create and delete users | middleware, roles | count-then-lock, multi-statement first-run setup | lock after the threshold; somebody can always sign in |
| Configuration groups (`pkg/services/configgroups.go`, `assignments.go`, `targets.go`) | groups, bindings, assignments | bind, assign, quick-assign, resolve | module versions, targets of four kinds | polymorphic references without foreign keys, find-or-create | what a target gets is what is assigned to it; values fit the version used |
| Dependency groups (`pkg/services/dependencygroups.go`, `catalog/dependencygroups`) | groups, conditions, links | seed, edit, link, delete, evaluate | modules, group rules | three-valued evaluation; links that survive deletion | unknown neither passes nor fails; links go by unlinking |
| Module resolver and defaults (`catalog/policymodules`) | none | resolve a selection; pick a module for a binding | catalogue | cycles, transitive conflicts | an ordered closure or an error |
| Assets and identities (`assets.go`, `identities.go`, field editors) | `assets`, `identities` | enrol, own, bulk actions, field edits | retention, login | names from counts, read-modify-write of rows | ids can be relied on; edits keep what they do not touch |
| Database (`pkg/database`) | `schema_migrations` | open, migrate | all | migrations outside a transaction, crashes | a server serves a whole schema only |
| Demo seeder (`cmd/seed`) | many tables | one run, repeated | a console in use | breaks off anywhere, rows of two statements | everything once |
| Rendering, lists, catalogues, facts, extensions, other commands | none, or static | | | | not modelled: no shared state or pure I/O |

The hazards this gives rise to are listed at their lines in `PROJECT.json`.

## 3. Modules

| Module | Models | Runs |
|---|---|---|
| `VersionLifecycle` | what the version service promises: one atomic step per operation | refined by `ModuleVersions` |
| `ModuleVersions` | the service itself, statement by statement | `core`, `requests`, `inv_m3` |
| `RoleHierarchy` | the role tree, statement by statement | `core`, `requests`, `role_cycle`, `role_depth` |
| `Retention` | soft delete, restore, permanent deletion, references and the purge cycle | `retention*` |
| `GroupMembership` | the members of one group, by hand and by rules | `console` |
| `RoleCache` | `identities.role` against what it caches | `console` |
| `RoleMatrix` | permission matrices, overrides, the self-lockout guard | `people` |
| `Logins` | failed logins, the lock, sessions, edits of the flags | `console` |
| `Startup` | migrations and seeding across crashes | `console`, `migrations` |
| `ConfigAssignments` | configuration groups, quick assignment, resolution | `console` |
| `DependencyEval` | three-valued evaluation of dependency groups | `console` |
| `ModuleAccess` | who may view, edit, administer a module | `console` |
| `ModuleResolver` | the plan for a selection of modules | `console` |
| `FieldEdits` | the inline editors of five kinds of row | `console` |
| `AssetEnrolment` | human ids, owners, bulk actions of assets | `records` |
| `ModuleScripts` | default and custom scripts and actions of a draft | `records` |
| `VersionTests` | tests and dependency list of a draft | `records` |
| `ModuleTransfer` | export, import, clone | `records` |
| `DemoSeed` | the demo seeder | `records` |
| `Accounts` | first-run setup and who can sign in afterwards | `people` |
| `DependencyGroups` | conditions and links of dependency groups | `records` |
| `BindingValues` | parameter values of a binding and the module it resolves to | `records` |
| `Selections` | the loops that keep some elements of a list, for `VersionTests`, `ModuleTransfer` and `DemoSeed` | `records` |
| `VersionLifecycle_proofs`, `ModuleVersions_proofs`, `RoleHierarchy_proofs`, `Retention_proofs` | theorems about the module of that name | |
| `Access_proofs` | theorems about `ModuleAccess`, `RoleCache`, `Logins`, `RoleMatrix` | |
| `Groups_proofs` | theorems about `GroupMembership`, `ConfigAssignments`, `ModuleResolver` | |
| `Console_proofs` | theorems about `Startup`, `FieldEdits`, `DependencyEval` and, with the two above, the composition `MCConsole` | |
| `Records_proofs` | theorems about `ModuleScripts`, `AssetEnrolment`, `VersionTests`, `ModuleTransfer`, `BindingValues`, `DemoSeed`, `Accounts`, `DependencyGroups` and the composition `MCRecords` | |
| `MC*` | compositions, symmetry sets and small instances for TLC | the `.cfg` files |

`MCCore`, `MCRequests`, `MCConsole`, `MCRecords` and `MCPeople` put components that share
no state side by side: a variable `scene`, chosen at the start, lets one of them move and the
others stay as they began, so that the state spaces add up instead of multiplying.
Where two components do share a table, the module that owns the hazard has both
ends: `RoleCache` has memberships and group deletion, `Retention` the references
between five services, `Logins` the edits of the identity, `BindingValues` the
publication of modules.

### ModuleVersions

State: `vstate`, `vmodule` and `by` are the columns `state`, `module_id` and
`superseded_by_version`; `live` the modules whose row exists; `parts` the content of
a version, abstracted to its parts: the version row's own columns (`Fields`), its
`manifest_yaml` (`Manifest`) and one part per script, action or test row. `conn` is the request whose transaction is open and
`work` what that transaction has written; `req[r]` is where request r is in its
handler and the rows it holds copies of.

An operation of one state-changing statement is one action (`CreateDraft`,
`UpdateDraft`, `UpsertScript`, `RenameScript`, `DeleteScript`, `CacheVersionManifest`,
`DeleteDraftVersion`, `Revoke`, `DeletePolicyModule`). Longer ones are one action per statement:

- `Publish` -> `PublishRead`, `PublishCheck` (before the transaction), `PublishMark`
  (BEGIN and the guarded UPDATE), `PublishSupersede`, `PublishCommit`;
- `ForkLatestPublished` -> `ForkRead`, `ForkCreate`, `ForkList`, `ForkCopy` per row,
  `ForkDone`;
- `RevokeVersions` -> `RevokeList`, `RevokeNext` per version;
- `FullReset` -> `FullReset` (is the version a draft?), `DeleteCustomScripts`,
  `DeleteCustomActions`.

`Fail` ends a request at any statement, rolling back its transaction; `Crash` ends
all of them. A save over a script of origin "default" writes two rows; it is two
`UpsertScript`s, which any other request may separate, as it may in the code.
Every statement that writes content says `state = 'draft'` but three. An export caches
the manifest it has generated in the version it exports, published or not; `Content`
leaves that column out, since it is derived from the rest. The two DELETEs of a full
reset take whatever has origin "custom", any set of scripts and then of actions, and
go through when the version has been published since the reset looked (section 5).
Version numbers are identified with row ids: no handler changes a number once the
row exists, and `UNIQUE(module_id, version)` keeps them apart.

### RoleHierarchy

State: `row` (whether the id is unused, present or deleted; AUTOINCREMENT reuses
none), `parent` (`parent_role_id`), `assigned` (roles that some live identity holds
directly), `treeReq`, and `raced`, a history variable that becomes TRUE when a write
happens while another request is under way. Nothing in the code corresponds to
`raced`: it separates what the checks guarantee when requests do not overlap from
what holds always.

`SetRoleParent` -> `SetStart`, `SetRead`, `WalkNext` per ancestor, `SetWrite`;
`CreateCustomRole` -> `CreateRead`, `CreateInsert`, then the same; a creation that
fails in between leaves the role without a parent, as in the code.
`PlurisPolicyDelete` -> `DeleteStart`, `DeleteCheckMembers`, `DeleteCheckChildren`,
`DeleteWrite`, with the cascade of assignments and ON DELETE SET NULL of children.

### Retention

State: `row` the items whose row exists, `deletedAt` and `refs` the `deleted_at` columns
and the rows that refer from one item to another, `mode` and `days` the
`retention_settings`, `now` a clock in days, `cycle` the purge goroutine: the next kind
to list, the rows it has listed and not dealt with yet, the days it read. Two
history variables have no counterpart in the code: `restored`, the listed rows that
were restored since, and `raced`, TRUE once a row has been removed or a reference
added while a request was between two of its statements.

A reference is a pair of items, told apart by the kinds of its ends: a binding
(configuration group to module), an assignment (configuration group to asset,
identity or group) or a dependency link (module to dependency group). The six
services differ in what guards their hard deletes, and `HasGuard`, `Counted`, `Bound`
and `Cascade` say how: modules count their links and bindings (a foreign key repeats
the count of bindings), groups their assignments, dependency groups their links;
assets, identities and configuration groups have no guard. Sites and tenants, which
an assignment can name too, are deleted by no handler.

`Delete` and `PermanentlyDelete` -> (`SoftDelete` | `Count`, `Erase`); the guards run
without a transaction here. `AddBinding`, `AddAssignment` and `ModuleDependencyAdd` ->
`Add`, `AddCheck`, `AddInsert`; their removals -> `Remove`, `RemoveWrite`. `Restore` and
`UpdateSetting` write with one statement. `PurgeExpired` -> `PurgeStart` (reads the
settings), `PurgeList(i)` for each kind in its order, `PurgeRow(x)` for each listed row
(guard and DELETE in one transaction), `PurgeEnd`; `PurgeError` is a row whose
transaction fails and `PurgeAbort` a listing that fails and ends the cycle. Not
modelled: `UpdateBinding` (a binding removed and another one added), the count of
installations (no handler inserts any).

### GroupMembership and RoleCache

`GroupMembership` is one group: `source[m]` is the `source` column of the row of member
m, if it has one (a partial unique index allows one), `memberKind`, `membership`,
`matchMode` and `rules` are the group's columns and its rules, `hidden` the members that
are soft deleted. Which facts satisfy which rule is the constant `Matches`. A request
is the handler with every statement it makes: adding by hand (`AddDirect`), removal
(`RemoveRead`, `RemoveDelete`), a change of kind or mode (`CountExcluded`, `MetaWrite`),
of rules (`AddRuleRead`, `AddRuleInsert`, `RemoveRule`), each followed by an evaluation:
`EvalGroup`, `EvalRules`, per side `EvalList`, `EvalDirect`, `EvalCurrent`, then
`EvalInsert` and `EvalDelete` per row, `EvalTotal`; a group without rules goes through
`EvalClear`. `clean` is a history bit of a request: nobody has written beside it.

`RoleCache` has the three tables an identity's roles come from (`holds`, `carries`,
`joined`), `deleted`, the cached column as a rank, and requests that recompute it
(`ReadDirect`, `ReadGroups`, `WriteCache`, for a whole group member by member). The
changes that recompute nothing are actions of their own: `RuleMembership`,
`DeleteOrRestore`, `EraseGroup`, `DeleteRole`. `excused` is history: identities such a
change, an overtaken or a failed recomputation has touched. The invariant says that
nothing else ever leaves the cache wrong.

### RoleMatrix and ModuleAccess

`RoleMatrix`: `stored[x]` is the `permissions` column (a key without opinion is ""),
`above[x]` the parent. A save is `SaveStart`, `SaveGuard` (wouldLockOutActor),
`SaveReadRole`, `SaveReadParent` and `SaveWalk` per ancestor while the matrices are
merged, `SaveWrite` of the difference. A resolution reads `MaxRoleDepth` rows, the role's
own among them, and so does the walk of a save over the parent's: `Walked` are the
rows read, and `WithinDepth` says that none is left out. Longer chains come about
(finding 3), and on them what is stored need not resolve to what was submitted: where a
key equals the parent's value it is not stored, and the row which gives it to the
parent may be one too far up for the role. The two properties therefore speak of
chains within the depth. The key registry is abstracted to a scoped or
unscoped key and `ManageKey`. The guard looks at the roles the actor holds and resolves
each; it replaces the role being saved only where it is held itself, so that a held
role which inherits from it is judged by the old matrix. `ModuleAccess` is the decision
over everything `moduleAccessInput` loads; `Ask` puts every question.

### Logins and Accounts

`Logins` is one account. `LoginRead` reads the flags, `Verify` compares the password,
`RecordLoginFailure` counts, `LockIfExceeded` locks (one UPDATE with the threshold in
its WHERE), `RecordLoginSuccess` resets, `CreateSession` issues the session; errors of
the two counting statements are ignored, as in the code. `EditRead` and `EditWrite` are
an edit of the identity, which writes back the flags it read, so that an unrelated edit
can undo a lock, and an unlock does not reset the count. History: `wrong`, `missed`,
`unlocked`.

`Accounts` is who can sign in at all. `person[p]` is an identity row with its address
and whether it has a password, a super admin's cache, an assignment, and is `barred`:
locked or not enabled, which a login treats alike. The wizard is
`SetupSubmit` (tenant), `SetupIdentity`, `SetupBuiltins` (best effort),
`SetIdentityPasswordHash`; a browser's session carries an identity and a tenant, and a
change by somebody signed in is checked by `IdentityBulk` and carried out later by
`CarryOut`. A login names an address and no tenant: `GetByEmailGlobal` finds nobody
when two rows share it, and `Admits` refuses who is locked or disabled. Wrong passwords
lock (`LockIdentityIfThresholdExceeded`, counted in `Logins`), and an edit sets or clears
the flags (`UserFieldUpdate`), one's own included. Nothing keeps the last account that can
sign in from being locked or disabled, so `SomebodyCanSignIn` asks that nobody with a
password is so at present. `mishaps` is history and names the other ways nobody may be
left: a wizard cut short, a shared address, a deletion carried out for somebody deleted
since it was checked.

### Startup and DemoSeed

`Startup`: `applied[f]` is how many statements of schema file f are committed, `recorded`
the table `schema_migrations`, `server` and `file` where the process is. A file whose
text mentions PRAGMA runs outside a transaction (`MigrateOutsideTx`, then recorded; or
`MigrateStopped`), others are committed with their record (`MigrateInTx`). `Again` says
that a file run twice in part fails unless its statements are repeatable, and then the
console does not start. `present` and `parts` are what seeders insert: a row, then the
rows that hang from it; seeders race each other, lose on a unique constraint, die and
fail, and a `ServerCrash` ends all.

`DemoSeed` is the seeder, one entry of its lists after the other (`Plan`): rows with a
unique name are inserted unless taken, by somebody deleted too; `SecondStatement`
completes assets and flagged identities; then group members, the baseline with its
binding and assignment, software and descriptions. A run that breaks off leaves `half`
rows half for good, since the next run sees the row. Users delete and restore what has
been seeded; a soft-deleted group aborts every rerun, and a soft-deleted baseline is
seeded again, so that restoring the first one gives two. The seeder also takes any error
of the baseline's lookup for its absence and creates another one of the same name, which
no index forbids (`SeedBaseline`, remembered in `seedLog.mistaken`); this run binds and
assigns the second, later ones whichever the lookup finds. `SeedsExactlyOnce` says so:
everything once, and one baseline alone unless one is restored or its lookup has failed.

### ConfigAssignments and BindingValues

`ConfigAssignments`: `cgroup`, `called`, `bound`, `assigned` are the groups, their names,
bindings and assignments. `AssignPolicyDirect` is `DirectFind`, `DirectCreate`,
`DirectBind` (a row already there is fine), `DirectAssign`; `ResolveForTarget` is
`ResolveStart`, `ResolveScope` per scope, `ResolveGroup` and `ResolveBindings` per group.
The direct group is found by the target's name, so hosts of one name share it, and a
group's name can be edited (`RenameGroup`, among the hosts' names and `OtherNames`): one
renamed away and back, or another one renamed to the target's name, gives two live
groups of one name, as does one made or restored by hand. A resolution fails when a group it listed is soft deleted before it is read.

`BindingValues` is one binding. A save (`AddCheckedBinding`, `UpdateBinding`) looks for a
schema (`ListForSchema`, `GetModuleRow`, `CheckValues`) and then writes
(`WriteBinding`); `OthersChange` publishes, revokes, deletes, restores or sets the
tenant's default in between. A lookup that fails for any reason is taken for a module
without a schema, and the values are stored unchecked (`LookupFails`, remembered in
`blind`). `ResolveBindingModule` is the rule of
`catalog/policymodules/defaults.go`. The two disagree wherever the property does not
speak: with a pin (values are checked against the latest published version, and the pin
itself is not checked), with a tenant default (the save does not know it), with an
override that does not satisfy the policy, with a first bundled module that is not
published, and when the override is deleted between the save's two lookups of it,
which leaves the values unchecked. `ResolveBindingModule` has no caller in the server
yet, so none of this is visible so far.

### DependencyGroups, DependencyEval and ModuleResolver

`DependencyGroups`: `grow`, `matching`, `conditions`, `linked` are the tables; a clerk's
request finds its group on the page (`ResolveTenantDepGroup`, `DependencyGroupBulk`),
again in the service (`GetForDeletion`, `GetForRestore`, ...), counts, and writes by id.
Deleting a group that is linked hides its links until it is restored; linking again in
another role is silently ignored (`LinkOrIgnore`); `late` is history, a link made
between the purge's count and its DELETE, the only way a link goes without unlinking.
`DependencyEval` is the evaluation, with a condition abstracted to its fact, the values
it accepts and those it can be compared with; `Configure` and `Report` put the inputs.
`ModuleResolver` is one call of `Resolve`, a visit at a time: `stack` is the argument of that
name (the grey modules), `planOrder` and `planAdded` are the plan, and a module in the
order is black. `VisitWhite` goes down, `VisitDone` is the end of a visit's loop,
`VisitGrey` and `VisitUnversioned` are the errors, `ResolveReturns` is the conflict pass.
Lists may be in any order, so any module `Wanted` may be next, and a visit to a black one,
which does nothing, is left out. `Closure`, the reference, is the least closed set.

### FieldEdits and AssetEnrolment

`FieldEdits` is one row of any of five kinds. `EditStart` reads it, `WriteFields` writes
back the copy with the submitted fields laid over it; for an asset the payload and the
columns are two statements, each with its own half. `overtaken` is history. The comment
that edits of different fields "cannot clobber the others" (`assets.go`) is true of
edits that do not overlap. `upn` is the user principal name, which the identity editor
takes and no statement writes (section 5).

`AssetEnrolment`: `EnrolCount` and `CreateAsset` (refused when the human id is taken),
`AssetBulk`, `ServiceLookup`, `BulkAct` with `SoftDeleteAsset`, `RestoreAsset` and
`DeleteAsset`, `ResolveDBID`, `CheckOwner`, `SetAssetOwner`, and identities that leave.
The count is of active rows and the human id is unique over all rows, so that from the
first soft deletion on, enrolment of that subtype is refused until the deleted asset is
purged or restored; the property states that this is the only way.

### ModuleScripts, VersionTests and ModuleTransfer

`ModuleScripts`: `script[n]` and `wiring[k]` are the rows of one version with their origin.
`UpsertScriptRead`, `ForkLookup`, `ForkKeep`, `UpsertModuleScriptGuarded` are a save;
`SeedModuleDefaults`, `RestoreDefaults` and `FullReset` go on through the `Seed*`,
`Restore*` and `Reset*` statements. The DELETEs of a reset are not guarded by the draft
state and go through after a publish in between; a default action that a custom one has
overwritten is not rebuilt. `VersionTests`: `AddVersionCondition` takes a position,
`CreateVersionCondition` inserts; the dependency list is read with the row and written
back whole by `UpdateDraftDependsOn`, also by edits of other fields. The version form
takes the list as text (`TypeDependsOn`), with no check but the split at its commas: the
module itself and doubles may be typed there (section 5), and a draft may come with
some. `mistyped` is history and holds those; the property says that no double arises
in any other way, from overlapping additions or from stale lists written back.

`ModuleTransfer`: `original` is a module with its versions, `ExportModule` the archive of a
selection, `copy` and `version` what imports and clones have written so far. In an archive
a version is a directory, `dir`, the cleaned path that its name gives, and a script a
file by its name. `Readable` are the checks that refuse an archive as a whole; of the
rest `Arrives` are the versions the parser finds (in a directory one level deep, the
last of those in one directory) and `FoundScripts` the scripts whose name is a clean
path; what is not found is passed over without a word (section 5). `CopiesAreComplete`
speaks of what is found, `ArchivesHold` in section 6 says where it goes.
`ImportModule` checks and parses the archive, `ImportCandidate` looks for a free URN, `CreateModule`,
`SetModuleOwner`, `SetModuleOrigin`, then per version `CopyDraft`, `CopyScript`,
`CopyTest`, `CopyMode` until `CopyEnds`. An import stops at the first write that fails, a
clone ignores it (`ScriptRefused` and a copy taken by somebody else) and also goes on
past a failure of any of its last statements (`CloneLoses`), without what that one would
have written; `lost` remembers it, and `CopiesAreComplete` speaks of the other clones. Others publish,
edit, delete the copies and purge the module meanwhile.

## 4. Runs

| Run | Instance | Checks |
|---|---|---|
| `core` | versions: 2 modules, 3 versions, 1 row, 2 requests; or roles: 1 builtin, 3 custom, depth 3, 2 requests; symmetric in versions (which are the custom roles), modules, requests | `TypeOK`, `AtMostOnePublished`, `SupersededByIsSound`, `FrozenButByResets`, `NeverUnpublished`, `KeepsPromise` (the refinement of `VersionLifecycle`); `TreeTypeOK`, `ParentsExist`, `AcyclicUnlessRaced`, `GivenParentWithinDepth`, `DeletionOrphansNobody` |
| `requests` | 1 module, 2 versions, 2 rows; or 3 custom roles, depth 2; 2 requests, fairness, no symmetry | `EveryRequestEnds` |
| `inv_m3` | 1 module, 1 request | `DeployableHasApply` is violated |
| `role_cycle` | 2 roles, 2 requests | `Acyclic` is violated |
| `role_depth` | 6 roles, the code's depth of 5, 1 request | `ChainsWithinDepth` is violated |
| `retention` | a group, a configuration group and a builtin dependency group, 1 day, 2 requests; symmetric in requests | `TypeOK`, `BuiltinsStay`, `ReferencesHold`, `PurgesExpiredUnlessRestored` |
| `retention_liveness` | a module and a builtin dependency group, 1 day, 1 request | `ExpiredIsPurged` under `FairSpec` |
| `retention_restored` | a group, 1 request | `PurgesOnlyExpired` is violated |
| `console` | the scenes below, 2 requests; symmetric in requests and configuration groups | `ConsoleTypeOK`; `ReconciledAtTheEnd`, `RowsGoByTheirSource`, `KindChangeStrandsNobody` (groups); `CacheFollowsRoles`; `LockoutHolds`; `StartupIsSound`; `DirectAssignmentWorks`; `EvaluationIsSound`; `AccessLevelsNest`; `PlanIsSound`; `EditsKeepTheRest` |
| `records` | the scenes below, 2 requests; symmetric in requests | `RecordsTypeOK`; `HumanIdsHold`; `DefaultsArePristine`; `EditorListsHold`; `CopiesAreComplete`; `SeedsExactlyOnce`; `LinksGoByUnlinking`; `ValidatedAsResolved` |
| `people` | *matrices*: 4 roles, depth 3, 2 requests; or *accounts*: 2 people, 2 organizations, 2 wizards, 2 browsers; symmetric in wizards, browsers and organizations | `SavedAsSubmitted`, `NoSelfLockout`; `SomebodyCanSignIn` |
| `migrations` | the 12 schema files, with which of them mention PRAGMA | `PragmaFreeMigrationsAreAtomic` is violated |

Bounds of `core`, `requests` and retention. A race about versions is between two
requests of one module, and a third version lets one of them supersede, fork or be
superseded twice; a second module is there so that a statement without its `module_id`
filter is seen. One text is enough because the properties tell a present part from an
absent one and a changed part from an unchanged one, and a change of a frozen part
always includes the change from absent to present or back in some behaviour. Three versions
are of one module, or two of any, and one of them is never revoked; of the roles one at
a time is assigned to identities; manifests are cached and resets run while a version
is still unused, of three in `core` and of two in `requests` (`WithinBounds` in `MCCore`,
`WithinRequestBounds` in `MCRequests`). A reset is about one version and races the
publish of that one, and the manifest only has to be seen not to be frozen. As for the
other bounds, what a statement without
the filter does to another module shows with one version each, a second revocation
already meets a request that holds an old list, and a deletion asks about its own role
alone. For the
role tree, three custom roles below a builtin one reach chains of every length up to
the limit of 3 and one beyond (the builtin one is assigned to nobody: no statement
asks, since it is never deleted); `role_depth` uses the real limit. For retention, a clock
that moves once tells what is deleted from what is expired, and a row is deleted,
expired, restored and referred to in every order within that; rows of one kind do not
touch each other, so one row of a kind is enough, and the kinds chosen are those with
an assignment, a guard, a cascade and the builtin flag; bindings to modules, which
need a fourth row, are covered by the theorem. Ids are finite sets and are not used
twice, so the runs of those modules do stop when they are used up, and deadlock is not
checked there; the retention runs and `migrations` check it.

Bounds of `console`. *Groups*: an asset, an identity and one rule that both satisfy;
three scenes keep the product of what matters small: "groups" is a mixed group with two
requests and nobody deleted; "hiding" lets the kind change and the identity
(`Hideable`) be deleted beside one request; "removing" is a dynamic group of identities
with two requests (`IdentitiesOnly`), the case in which a removal by hand meets an
evaluation. *Cache*: one identity, one group, a highest and a lower role, two requests;
a recomputation that reads too little or too late shows with one of each. *Logins*: threshold 2
instead of 10, two requests, one session; `MaxFailures` of 5 is one more than two
requests can count beyond the threshold. *Startup*: four files of two or three
statements, with and without PRAGMA, repeatable and not; one bundled and one builtin item
of two parts, two seeders. *Assigning* and *resolving*: one host with its tenant scope,
one policy, two groups, one name that is no host's; two direct assignments at once, or one request that may also
resolve beside hand-made changes. *Eval*: groups of up to two conditions
(`MaxConditions`), one of them on a script's output, four values, links of at most two
platforms and one requirement; every configuration and every order of reports. *Access*:
every question with up to two grant rows (`MaxGrantRows`). *Resolver*: every dependency
relation over three modules, self-dependencies included, at most one conflict
(`FoesChoices`), at most one module without a version (`VersionedChoices`), and two
`Selections`, of one module and of two; three modules are the smallest cycle with an
entry and the smallest diamond side. *Fields*: every kind of row, one text, two requests.

Bounds of `people`. *Matrices*: four roles, of which the actor holds the lower two (`mid`, `low`),
one unscoped key; one request of the actor (saving `mid` or `low`) and one of a super
admin (saving `top`), as `SavedRoles` says: together a save meets a change of a parent, of
a grandparent and of the pointer. `ParentsFor` limits who is hung below whom: `mid` and
`low` may trade places, and `top` may be hung below `root`, which makes the chain one row
longer than the three rows a resolution reads. *Accounts*: two identities (`LastPerson`), two
organizations with their addresses and forms, two wizards, two browsers: who signs in, who
is left, and who deletes or locks whom is between two. A behaviour is not followed beyond
the first mishap, after which the property says nothing.

Bounds of `records`. *Assets*: two row ids, one owner, two requests. *Scripts*: one name
and its reserved form, a shipped and a custom text, two requests. *Tests* and *deps*:
four tests ever (`MaxTests`), two other modules, lists of two typed (`MaxTyped`), two
requests, tests without a list and lists without tests. *Transfer*: the four originals of
`MCModuleTransfer` (versions in directories of their own, in one, in none and outside the
archive; scripts named after a phase, after none, and by no clean path), one copy id,
two requests; the real `pmdlMaxEntries`. *Seed*: one row of each list (`SeedDeletable` says
which users touch), no printers and desks (they are inserted like servers), two
identities of which one is flagged, one row at a time in the bin (`OneInTheBin`).
*Depgroups*: a builtin group and another one, one module, one
condition ever (`MaxConditionRows`). *Binding*: an own and two bundled modules, one of
which has two versions, two catalogues to begin with, one change by others
(`MaxChanges`), one save, and only the first version pinned (`OnePin`).

Symmetry is used for safety runs only; the sets exchanged are used by no CHOOSE and no
order. Deadlock is not checked in `console` because the scenes of pure functions stop after
their one step, nor in `records` and `people`, where ids and bounded rows are used up.

Fairness. `requests` asks that a request whose next statement is possible gets to run
it: for the role tree weakly, since no transaction is involved, for versions strongly,
since a statement waits while another request's transaction is open and the pool
hands out the connection in the order it was asked for. A request may also fail, so
fairness never forces success. Nothing is assumed about requests starting. For the
purger, `PurgeStart` and `PurgeEnd` are weakly fair (the ticker goes on), and each
`PurgeList(i)` and `PurgeRow(x)` strongly: listing and deleting may fail, but not every
time. Nobody is assumed to restore, unlink or change settings. No other component
waits for anything, so none has a liveness property: each of their requests is a
bounded sequence of statements.

## 5. What the violated properties show

1. **INV-M3 can be lost** (`inv_m3`). "every deployable module version must supply an
   apply script" (`policymodules.go:37-40`), but the check precedes the transaction
   and the UPDATE does not repeat it: a script deleted in between is missing from
   the published version.
2. **Two reparentings make a cycle** (`role_cycle`). "walking parentID's own chain must
   never reach roleID" (`service.go:200-203`); two overlapping calls both pass the
   walk. Resolution stays bounded, since it walks `MaxRoleDepth` rows at most.
3. **A subtree can be hung too deep** (`role_depth`). "SetRoleParent rejects any change
   whose resulting chain would exceed it" (`service.go:37-39`), but the check counts
   upwards from the role only, and what hangs below it is pushed down.
4. **A restored row can be purged** (`retention_restored`). "hard-deletes rows whose
   `deleted_at` is older than their kind's window" (the retention design,
   `docs/history/specs/2026-07-16-soft-delete-and-retention-design.md:56-57`), but a
   cycle lists the rows of a kind first and then deletes each by id
   (`retention.go:248-261`); one that an administrator restores in between goes too,
   for good. `PurgesExpiredUnlessRestored` shows that this is the only way.
5. **PRAGMA-free migrations are not atomic** (`migrations`). "Each PRAGMA-free migration
   executes and is recorded inside a single transaction, so a crash mid-migration cannot
   leave the schema changed but unrecorded" (`pkg/database/database.go:81-83`), but which
   files those are is decided by a search for the word (`database.go:135`), which the
   comments of 004 to 009, 011 and 012 contain ("Contains no PRAGMA, ..."). They run
   outside a transaction; a crash leaves 004 applied in part, and the next start runs it
   again from its beginning. `StartupIsSound` shows what holds all the same: no server
   starts over such a schema unless the statements can be repeated.

Seen while modelling, without a run of their own:

- A full reset changes what is published. "the immutability rule (ADR-007:
  published/superseded/revoked versions are frozen) hold atomically even if a Publish
  races" (`db/queries/policy_modules.sql:176-180`), but a full reset asks for the state once
  (`policymodules_scripts.go:259-263`) and then deletes the custom scripts and actions with
  statements that do not. `FrozenButByResets` shows that these are the only ones. No handler
  calls `FullReset` so far.
- A field is reported as applied and is not stored. "On success the identity is persisted
  via Update and the list of applied keys is returned" (`pkg/services/identities.go:211-213`),
  but no statement writes `user_principal_name`, which the editor accepts (`:286-287`).
- A module can be made its own dependency. "A module cannot depend on itself."
  (`policy_module_deps.go:71`), but the version form stores what is typed
  (`policy_module_editor.go:466-471`). `EditorListsHold` shows that the list has no other
  source of doubles.
- An import leaves versions out. "Round-trip property test: export → import (as copy) →
  export ⇒ manifests identical modulo URN/origin"
  (`docs/history/plans/2026-07-17-modular-module-system.md:76`), but a version is a
  directory named as the version is, and the parser looks one level deep
  (`policymodules_import.go:113`): a version called "1.0/rc" is not in the copy, nor is one
  of two whose names give the same directory, and the import reports success.
  `CopiesAreComplete` shows what does arrive.
- The language, order and origin of scripts and the actions are not carried by an
  archive; an import takes only scripts named after lifecycle phases, fails at any other,
  and skips one whose name is no clean path ("a//b") without a word.
  `CopiesAreComplete` is stated with what does go along.
- "the guard cannot reject this copy" (`policy_module_editor.go:719-720`, likewise
  `policymodules.go:557-560` of forks): the draft can be published or deleted by another
  request before its rows are copied, and the clone does not look at the refusal.
- A group switched from dynamic to static keeps its rules and rule rows until something
  evaluates it, contrary to `group_rules.go:213-214`.
- The self-lockout guard does not see inheritance by another held role; `CloneRole`
  copies what is stored and not what is inherited.
- A shared address, in two tenants, keeps both its owners from signing in; a
  best-effort assignment that fails in the wizard leaves a super admin only until the
  next recomputation of his role. The last account that can sign in can be locked by
  wrong passwords or disable itself.
- A lookup that fails turns the check of binding values off (`configgroups.go:449-477`), and
  makes the seeder create a second baseline (`cmd/seed/main.go:718-729`).

## 6. Proofs

Every theorem holds for every value of the constants, under the named assumptions of
the modules: `ApplyIsAScript`, `ScriptsAndActionsAreRows`, `ColumnsAreNoRows`,
`NoneIsNothing` (`ModuleVersions`);
`BuiltinAssumption`, `AssignableAssumption`, `DepthAssumption`, `NoneAssumption`
(`RoleHierarchy`); `KindAssumption`, `BuiltinAssumption`, `DaysAssumption`,
`TimeAssumption`, `NoneAssumption` (`Retention`); `SelfAssumption`,
`MaxGrantRowsAssumption` (`ModuleAccess`); `RankAssumption`, `UnsetAssumption`
(`RoleCache`); `ThresholdAssumption`, `MaxFailuresAssumption`, `LoginRequestsAssumption`
(`Logins`); `AbsentIsNobody`, `FormsAssumption`, `FormsDiffer` (`Accounts`);
`HeldAssumption`, `ParentsAssumption`, `ActingAssumption`, `SavedAssumption`,
`KeysAssumption`, `NoRoleAssumption`, `DepthAssumption` (`RoleMatrix`); `MembersAssumption`, `MatchesAssumption`,
`HideableAssumption` (`GroupMembership`); `ScopesAssumption`, `NoGroupAssumption`
(`ConfigAssignments`); `GroupRowsAssumption`, `DependentsAssumption`
(`DependencyGroups`); `CatalogAssumption` (`ModuleResolver`); `LastFileAssumption`, `StatementsAssumption`, `PragmaAssumption`,
`PartsAssumption`, `NoItemAssumption` (`Startup`); `ScriptConstants`,
`PayloadAssumption`, `HoldsAssumption`, `ComparableAssumption`, `ScriptsAssumption`,
`MaxConditionsAssumption`, `AssetRowsAssumption`, `NothingIsNoRow`, `TestConstants`,
`TransferConstants`, `LibraryAssumption`, `SeedListsAreSequences`, `SeedsAreDistinct`
(the other modules of `Records_proofs`, `FieldEdits` and `DependencyEval`). They say that a null is no
value, that what a constant maps has the shape of its table's column, and, where rows
are counted, that there are finitely many of them; `FormsDiffer` that two
setup forms name two organizations and two addresses; `TransferConstants` that a module to be copied
has a version; `SeedsAreDistinct` that no name is seeded twice, of which the proofs use
only that what users delete has been seeded. None bounds the number of requests; `LoginRequestsAssumption` says that
there are finitely many, since `LockoutHolds` counts them.

Most arguments have one shape. A request's record carries what it has read, the
property says what a write may rely on, and the invariant in between, called `...Knows`
below, says that *what a request carries is still true of the tables, unless its
history bit says that somebody has written in between*. The property alone is never
inductive, because the step that could break it is made long after the step that read.

**ModuleVersions.** The inductive invariant is `Inv == TypeOK /\ Locals /\ Transaction`.
`AtMostOnePublished` alone is not inductive: between `PublishMark` and
`PublishCommit` the new state lives in `work`, and one has to know that `work` is
exactly the committed state with one version marked, that the marked version is
still a draft in the database, and that no other request's transaction is open.
`Transaction` says that. With it, `PublishCommit` is the abstract `Publish` and every
other step is an abstract step or changes nothing the abstraction sees, which is
`Implements` (`Spec => Promise!Spec`). `OnePublished` then follows from the theorem
about the abstract module, `LifecyclePromises`, which splits the steps in two: a
publication retires what its module had published (`PublishingRetires`), and no other step
makes a version published or superseded, or takes a successor away but with the whole
module (`OnlyPublishingPromotes`). `SupersededByHolds` adds `Pointers` and `NoCircle`: a
circle of superseded versions would have to pass through the version published
last, and that one was a draft with no pointer when its transaction began.
`Frozen` goes by the statements: each of them leaves the content of what is no draft alone
but for the two DELETEs of a full reset, and `Locals` knows that a reset is about a
version. Whoever assumes that no reset deletes from a version published since it looked
gets `OnlyLateResetsBreakFrozen`: the content is frozen, as the refuted `FrozenContent`
has it. `OnlyTwoGapsBreakInvM3` is about the refuted INV-M3: its hypotheses are that
action property and another, that no step takes the apply script of a version some request
has checked and not yet marked (`ApplyStaysOnceChecked`), and then `DeployableHasApply`
holds. The invariant `Checked` says of every publish past its check that its version, if still a draft, has
the script; once the transaction is open nobody else writes (`TransactionHoldsParts`),
and once the version is published its content is frozen. `RequestsGoForward` is the half
of `RequestsEnd` that needs no fairness: every statement moves its request to a later
stage, or leaves fewer rows to copy or versions to revoke.

**RoleHierarchy.** `Inv == TreeTypeOK /\ TreeLocals /\ BuiltinsPresent /\ ParentsExist` is
inductive and needs no `raced`. For `NoCycleWithoutRace` it is strengthened to
`IInv == Inv /\ Snapshots /\ AcyclicUnlessRaced`: a request that is walking has seen a
set of rows, closed under `parent` up to the row read last and without the role
being reparented, and as long as no write has intervened that is still so. When the
walk ends the set is closed outright, so a cycle through the new edge would lie
within it, where the old tree has none. A cycle is a nonempty set of roles closed
under `parent`, and `Lineage` the smallest closed set that holds a role, which spares
the proofs paths and their induction. `NothingOrphaned` follows from the same
snapshots, and so does `GivenParentsWithinDepth`: the set seen has one row less than the
depth counted, and a role's lineage is no larger than any closed set that holds it.
`OnlyFamiliesExceedDepth` says when the refuted `ChainsWithinDepth` holds: while only roles
without children are given a parent (`OnlyLeavesMove`) the lineage of no other role grows
(`LeavesLengthenOnlyThemselves`), and that of the moved one is what was counted.
`RequestsAreShort` counts the statements a request has left: the walk has at most
`MaxRoleDepth` of them, which uses none of the invariants about the tree and so holds in
a cycle too.

**Retention.** `Inv` is TypeOK, BuiltinsStay and ReferencesHold together with what they
rest on: `Locals` (a request never holds a builtin item or anything but a
reference), `BuiltinsUnlisted` (nor has the purger listed one), `Snapshots` (as long as
nothing has raced, a request about to erase has counted no reference that is there
now, and one about to insert still has its group), and `Listed` (a listed row that is
present and not restored since is still expired, since the clock only goes forward,
nothing else clears `deleted_at`, and the cycle keeps the days it read).
`ReferencesHold` needs `raced` for groups only: nothing but the count protects an
assignment's target, while bindings and links have foreign keys.
`PurgesAreJustified` is the action property that follows from `Listed`.

**ModuleAccess** (`Access_proofs`, like the next three). The module has no behaviour but
the question, so the type is the invariant. `LevelsNest` rests on two lemmas about
explicit rows: a row of a higher level is counted for a lower one (the rank comparison
of `hasExplicitLevel`), and more rows never answer less. The rest is propositional.

**RoleCache.** `CacheInv` adds `FreshReads` to the property: a recomputation nobody has
overtaken carries the highest rank of what it has read, and that is what is there now.
One lemma (a step that touches accounts keeps the invariant if each of them is left to
a pending recomputation or excused) then serves every action that changes a table.

**Logins.** The bound on wrong guesses is counted in four parts, because a guess moves
through the handler: `WrongCounted` (wrong guesses are counted or at the counting
statement), `BeforeTheLock` (while the lock is open, those beyond the threshold are at
the counting or the locking statement), `BoundWithVerify` (with those still being
verified the bound is never passed), and `LoginsTyped`. Cardinalities of the sets of
requests at each statement replace counters.

**RoleMatrix.** `Chain(x)`, the role with what is above it, is the smallest set closed
upwards, and a key is resolved by the `Nearest` holder in it, so that no recursion is
needed. `MatrixInv` says that the tree is a forest; that a save nobody has written
beside has merged exactly what lies between the role and the ancestor it reads next
(`SaveKnows`: laid over the rest of the walk, it is what the parent resolves to); and
that the guard's answer stands (`GuardKnows`). `SavesResolve`: storing the difference to
the parent's matrix resolves to what was submitted, since a key that equals the
parent's is found there and one that does not is stored. Both sides read the same rows
as long as the chain is within `MaxRoleDepth`, and then the walk of the save has ended at
the top and not at the limit (`depth` counts the rows merged). `SavesLockNobodyOut` needs the
exceptions of a held role that inherits from the one saved, which section 5 shows to be
real, and of one deeper than is read.

**GroupMembership** (`Groups_proofs`, like the next two). `Knows` follows an evaluation
through its statements, as long as nobody has written beside it: the columns and rules
read are those of the row; what is to be added has no row and is asked for, what is to
be deleted is a rule row that is not, everything else on that side is as it should be
(`SideWritten`); and the side left behind is `Settled`. The same record gives
`RowsGoBySource` and `KindChangesStrandNobody` through `ChecksStand`.

**ConfigAssignments.** `DirectKnows`: an assignment nothing has been taken from still has
its group and, at the end, its binding. `ResolveKnows` is the loop invariant of a
resolution over scopes, groups and bindings: what applies by the scopes it is through
with has been seen or is in a group still to be shown, and nothing else has been seen.
`NamesKnow` says that a name no two searches have doubled has one live group or one
request about to create it, never both; a name given by hand, on creation, restoring or
renaming, is doubled too where another group has it or a search is under way.

**ModuleResolver.** `StackKnows`: what is on the stack is in the closure of the selection,
and each module there lies below all under it, so that meeting a grey one is a circle.
`OrderKnows`: what is in the order stands after all it needs. The converse, that a plan
rules a circle out, needs no path: what stands before a module is a closed set that holds
all it needs and not the module itself (`WholeOrder`).

**Startup** (`Console_proofs`, like the next two). `MigrationInv`: what is recorded has run to its end, and a server that is up
has everything recorded. `RunInTx` is the part of the documented promise that holds.
`SeedingInv`: an item that is not whole has the one seeder that inserted its first row
at work on it, or has lost it; two seeders never fill the same item, since the insert
of that row is guarded by a unique name.

**FieldEdits.** `EditKnows`: the copy of an edit that has not been overtaken is the row,
for the half the edit is about to write. `OnlyTheNameIsMisreported` is what remains of
the promise that what an edit reports is stored: but for the user principal name, what an edit reports is in
the row. It needs `AppliedSoFar`, since the report covers an asset's payload too, which
was written one statement earlier.

**DependencyEval.** No state to speak of: the theorem is about the evaluation itself, by
cases over three values and without a bound on conditions.

**ModuleScripts** (`Records_proofs`, like the rest). `WriterSound`: every list a request
has read was pristine when read, and since nothing changes the text of a default
without changing its origin, saves never carry a default's row with another text.

**AssetEnrolment.** A human id is never above the number of rows there have ever been
(`HumanIdsBounded`), so that the count of active rows plus one is free unless a row has
been deleted, which is what `HumanIdsHold` says; and `DeskKnows` keeps a bulk request on the
row its handler looked up.

**VersionTests.** `TestsInv`: ids go up, a row's position is above the position of every
row its request had listed, and the position an adding request carries is above all it
has seen and no higher than the number of tests ever added. The doubles of the list carried
by any request, however stale, have been typed, because removing and appending add none.

**ModuleTransfer.** `TransferInv` has a clause for every point of a copy's loop:
`WholeCopy` for the versions it is through with, `PartCopy` for the one at hand (what the
row lacks is exactly what is `left`, in scripts, tests and match mode), both void once
somebody else has changed or published that version; and no two requests write the
same row, which is what makes the rest hold while any number of them run. `ArchivesHold`
ties what is written to what was sent: entry by entry, the copy's archive is what a reader
finds of the one exported, in its order (`PlaceIn`), and no statement changes it.

**BindingValues.** `SaveFollows`: a save no change has disturbed, and none of whose lookups
has failed, has picked its override,
or else the first bundled module there is, and at its last statement has checked its
values against every published version of what it picked. That the resolution, which
loops over the same list for another reason, stops at the same module is a fact about
`Earliest`: the first of a set stays the first of any part of it that holds it.

**DemoSeed.** `DoneUpTo(p, ..)` says what the entries before p of the plan leave behind.
`Undisturbed`, which holds until somebody deletes something, says that this is so for
the place the run has reached and, once a run has been complete, for the whole plan. Runs
only add (`Grow`), so what is done stays done when a later run starts over, and an
entry either adds what it is for or finds it there (`DoneOneMore`). That is why a
run which has broken off anywhere can be repeated. Of the baseline it says that some live
one is bound and assigned, and the run at hand keeps to the one it has found or made.
What holds whatever users do (one row per title, one live baseline until one is restored
or a lookup has failed, `MayBeTwo`) is in `TablesTyped`.

**Accounts.** `SomebodyIsLeft`, an active row with a password behind a closed wizard, alone
fails when a wizard dies, two rows share an address or two people delete each other; the
invariant therefore has `WizardKnows` and
`VisitKnows` (nobody is about to delete himself, and a session is of a row that had a
password), and `EmailsUnique` while no address has been shared, without which a person
who has a password might not be found by `GetByEmailGlobal`. Flags do not enter into it:
who is left can sign in unless locked or disabled, which is the property's own hypothesis. `AccountsTypeCorrect`
adds `OrgsKnown`, that no row, session or form under way names a tenant there is not.

**DependencyGroups.** `ClerkKnows`: a request about to erase a group has counted no link
that is there now, unless one was made since (`late`).

**The compositions.** `ConsoleIsItsComponents` and `RecordsIsItsComponents`: a step of a
composition is a step of the component whose scene it is and leaves the variables of
the others alone, so a behaviour of `ConsoleSpec` is one of `MembershipSpec`,
`RoleCacheSpec` and each of the rest, and every theorem about a component holds of the
composition that TLC explores. `ConsoleTypeCorrect` and `RecordsTypeCorrect` are drawn from them and
from the types of the components (`MembershipTypeCorrect`, `CacheTypeCorrect`,
`TestsTypeCorrect` and so on), each a consequence of the component's invariant.

**What the violations leave true.** Each of the five refuted promises has a theorem beside
it that says what does hold: `OnlyTwoGapsBreakInvM3` for `DeployableHasApply`,
`NoCycleWithoutRace` for `Acyclic`, `OnlyFamiliesExceedDepth` for `ChainsWithinDepth`,
`PurgesAreJustified` for `PurgesOnlyExpired`, `FilesWithoutTheWordAreAtomic` for
`PragmaFreeMigrationsAreAtomic`. So have those of section 5 that no run refutes: `Frozen` and
`OnlyLateResetsBreakFrozen` for the immutability rule, `OnlyTheNameIsMisreported` for the
report of an edit, `TabListsHold` for dependency lists, `CopiesHold` and `ArchivesHold` for
the round trip. Three (`OnlyTwoGapsBreakInvM3`, `OnlyLateResetsBreakFrozen`,
`OnlyFamiliesExceedDepth`) have an action property as their hypothesis, which most
behaviours satisfy and the counterexamples do not.

Two remarks on form. `Selections` defines the loops that keep some elements of a list
(`KeepAt`) by their positions, since the provers know nothing of `SelectSeq`; the lemmas
about it (`KeptOnce`, `KeptStaysInjective`) say that it returns each kept element once and
in place. And induction over numbers, where it cannot be avoided, is taken from the
well-foundedness of strict inclusion among finite sets (`LeastNat`).

Only model-checked: the liveness properties (`EveryRequestEnds`, `ExpiredIsPurged`), since
fairness rests on ENABLED, which is beyond the provers. Of `EveryRequestEnds` the
counting half is proved (`RequestsGoForward`, `RequestsAreShort`); what TLC adds is that
a request can always take its next statement and that fairness makes it.

## 7. Not modelled

- Password hashing (a pure function), route permissions (a longest-prefix lookup in a
  static table), fact conversion, routing, rendering, lists, catalogues, extension
  manifests, `gendocs`: no state that two requests share.
- Of modelled components: the content of a test that is edited in place; names and
  descriptions of groups and dependency groups; priority, state and enablement of
  assignments, which are stored and shown and decide nothing in the server; the expiry
  of sessions (there is no clock); avatars; role templates written at boot
  (`EnsureBuiltinGrants`, `RoleService.EnsureBuiltins`), which are seeded like the items of
  `Startup`; `module_grants`, which nothing writes; `Evaluate` of dependency groups and
  `RestoreDefaults`, `FullReset` and `ResolveBindingModule` have no caller in the server: the
  first is left out, the others are modelled as they stand.
- Other tenants, except where a login crosses them (`Accounts`).
- The activity log is written by every handler and read by nobody but its page.
- Of `ModuleVersions`: the copies in `ModuleTransfer` end in the same guarded statements
  and are not composed with it; actions are `ModuleScripts`'.

## 8. Plan

Modelled: everything listed in section 3. Proved: every property of a passing run but
those named at the end of section 6, and for every refuted one what remains of it. What
could still be added:

1. What a partial `RevokeVersions` owes its caller (`policymodules.go:172`), once the code
   or its comment says so; today there is no statement to hold it to.
2. A bound on the statements of a purge cycle like that of `RequestsAreShort`, which
   needs the rows of a kind to be finite.
