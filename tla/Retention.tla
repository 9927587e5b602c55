------------------------------ MODULE Retention ------------------------------
(***************************************************************************)
(* Soft delete, restore, permanent deletion and the purge cycle of the six *)
(* kinds of entity the console can delete (src/pkg/services/retention.go,  *)
(* the Delete, Restore and PermanentlyDelete of each kind's service, and   *)
(* startPurgeScheduler in src/console/server/server.go), with the          *)
(* references between them that guard the permanent boundary.              *)
(*                                                                         *)
(* Requests run statement by statement.  The purger is one goroutine: it   *)
(* reads the settings once per cycle, lists the expired rows of one kind   *)
(* after the other, and deletes each listed row in a transaction of its    *)
(* own, which one action stands for because an open transaction holds the  *)
(* only connection.                                                        *)
(*                                                                         *)
(* Left out: the attributes of the rows and what else cascades with them,  *)
(* installations of a module (counted like links, never inserted by a      *)
(* handler), the activity log, and creation: the rows are there from the   *)
(* start and AUTOINCREMENT reuses no id.                                   *)
(***************************************************************************)
EXTENDS Naturals, Sequences

CONSTANTS
    Items,          \* the rows of all kinds
    KindOf,         \* KindOf[x]: its entity kind
    Builtin,        \* dependency groups with is_builtin
    Days,           \* values an admin gives purge_after_days
    MaxTime,        \* the clock stops there (a bound on the model)
    Requests,
    None            \* NULL

(* The order of PurgeExpired.                                              *)
PurgeOrder == <<"policy_module", "asset", "identity", "group",
                "configuration_group", "dependency_group">>

Positions == 1..6

Kinds == {PurgeOrder[i] : i \in Positions}

ASSUME KindAssumption == KindOf \in [Items -> Kinds]
ASSUME BuiltinAssumption ==
    \A x \in Builtin : x \in Items /\ KindOf[x] = "dependency_group"
ASSUME DaysAssumption == Days \subseteq Nat
ASSUME TimeAssumption == MaxTime \in Nat
ASSUME NoneAssumption == None \notin Items \cup Nat \cup (Items \X Items)

(* References, by the kinds of their ends: bindings (configuration group   *)
(* to module), assignments (configuration group to target), dependency     *)
(* links (module to dependency group).                                     *)
Bindings == {"configuration_group"} \X {"policy_module"}
Assignments == {"configuration_group"} \X {"asset", "identity", "group"}
Links == {"policy_module"} \X {"dependency_group"}

Ends(p) == <<KindOf[p[1]], KindOf[p[2]]>>

References ==
    {p \in Items \X Items : Ends(p) \in Bindings \cup Assignments \cup Links}

VARIABLES
    row,        \* the items whose row exists
    deletedAt,  \* deletedAt[x]: deleted_at
    refs,       \* the references whose row exists
    mode,       \* mode[k], days[k]: the retention_settings row of kind k
    days,
    now,        \* the clock, in days
    cycle,      \* the purger: next position to list (0: asleep), rows listed
                \* and not dealt with, purge_after_days as read
    req,        \* req[r]: where request r is and what it is about
    restored,   \* history: listed rows restored since they were listed
    raced       \* history: a row has been removed or a reference added
                \* while a request was between two statements

data == <<row, deletedAt, refs>>
settings == <<mode, days>>
history == <<restored, raced>>
vars == <<data, settings, now, cycle, req, history>>

Active(x) == x \in row /\ deletedAt[x] = None

Asleep == [next |-> 0, todo |-> {}, days |-> [k \in Kinds |-> None]]

Idle == [pc |-> "idle", about |-> None]

Labels == {"idle", "soft", "count", "erase", "target", "insert", "remove"}

RequestType == [pc : Labels, about : Items \cup References \cup {None}]

TypeOK ==
    /\ row \subseteq Items
    /\ deletedAt \in [Items -> 0..MaxTime \cup {None}]
    /\ refs \subseteq References
    /\ mode \in [Kinds -> {"soft", "immediate"}]
    /\ days \in [Kinds -> Days \cup {None}]
    /\ now \in 0..MaxTime
    /\ cycle \in [next : 0..7, todo : SUBSET Items,
                  days : [Kinds -> Days \cup {None}]]
    /\ req \in [Requests -> RequestType]
    /\ restored \subseteq Items
    /\ raced \in BOOLEAN

Init ==
    /\ row = Items
    /\ deletedAt = [x \in Items |-> None]
    /\ refs = {}
    /\ mode = [k \in Kinds |-> "soft"]
    /\ days = [k \in Kinds |-> None]
    /\ now = 0
    /\ cycle = Asleep
    /\ req = [r \in Requests |-> Idle]
    /\ restored = {}
    /\ raced = FALSE

At(r, label) == req[r].pc = label

Goto(r, label, about) ==
    req' = [req EXCEPT ![r] = [pc |-> label, about |-> about]]

Done(r) == req' = [req EXCEPT ![r] = Idle]

(* Removing a row or adding a reference while a request outside S is under *)
(* way.                                                                    *)
Interfere(S) == raced' = (raced \/ \E q \in Requests \ S : ~At(q, "idle"))

-----------------------------------------------------------------------------
(* The permanent boundary.                                                 *)

(* Mutant: references held by a row that is itself deleted are not counted.*)
CountedFromActive(x) ==
    {p \in refs :
        /\ deletedAt[p[1]] = None
        /\ \/ KindOf[x] = "policy_module" /\ p[1] = x
           \/ KindOf[x] \in {"group", "dependency_group"} /\ p[2] = x}

(* What the guards count: CountLinksForModule,                             *)
(* CountConfigGroupAssignmentsForGroupTarget, CountLinksForGroup.  Assets, *)
(* identities and configuration groups have no guard.                      *)
Counted(x) ==
    {p \in refs : \/ KindOf[x] = "policy_module" /\ p[1] = x
                  \/ KindOf[x] \in {"group", "dependency_group"} /\ p[2] = x}

(* CountBindingsByModule, which the foreign key of module_id repeats when  *)
(* the row is deleted.                                                     *)
Bound(x) == {p \in refs : KindOf[x] = "policy_module" /\ p[2] = x}

(* ON DELETE CASCADE: the bindings and assignments of a configuration      *)
(* group, the links of a dependency group.                                 *)
Cascade(x) ==
    {p \in refs : \/ KindOf[x] = "configuration_group" /\ p[1] = x
                  \/ KindOf[x] = "dependency_group" /\ p[2] = x}

(* DELETE ... WHERE id = x, whatever deleted_at says by then.              *)
EraseRow(x) ==
    /\ row' = row \ {x}
    /\ deletedAt' = [deletedAt EXCEPT ![x] = None]
    /\ refs' = refs \ Cascade(x)

HasGuard(x) == KindOf[x] \in {"policy_module", "group", "dependency_group"}

-----------------------------------------------------------------------------
(* Requests about one item.                                                *)

(* UpdateSetting, of a kind with rows that can be deleted: the settings of *)
(* the others affect nothing.                                              *)
UpdateSetting(k, m, d) ==
    /\ mode' = [mode EXCEPT ![k] = m]
    /\ days' = [days EXCEPT ![k] = d]
    /\ UNCHANGED <<data, now, cycle, req, history>>

HardPath(x) == IF HasGuard(x) THEN "count" ELSE "erase"

DeletePath(x) == IF mode[KindOf[x]] = "immediate" THEN HardPath(x) ELSE "soft"

(* Mutant: a builtin dependency group can be deleted like any other.       *)
DeleteAny(r, x) ==
    /\ At(r, "idle")
    /\ x \in row
    /\ Goto(r, DeletePath(x), x)
    /\ UNCHANGED <<data, settings, now, cycle, history>>

(* Delete, up to the read of the mode.                                     *)
Delete(r, x) ==
    /\ At(r, "idle")
    /\ x \in row
    /\ x \notin Builtin
    /\ Goto(r, DeletePath(x), x)
    /\ UNCHANGED <<data, settings, now, cycle, history>>

(* PermanentlyDelete, which asks neither for the mode nor for deleted_at.  *)
PermanentlyDelete(r, x) ==
    /\ At(r, "idle")
    /\ x \in row
    /\ x \notin Builtin
    /\ Goto(r, HardPath(x), x)
    /\ UNCHANGED <<data, settings, now, cycle, history>>

(* Mutant: deleted_at is when the row expires, not when it was deleted.    *)
SoftDeleteAhead(r) ==
    LET x == req[r].about IN
    /\ At(r, "soft")
    /\ Done(r)
    /\ deletedAt' = IF Active(x) THEN [deletedAt EXCEPT ![x] = now + 1]
                    ELSE deletedAt
    /\ UNCHANGED <<row, refs, settings, now, cycle, history>>

(* UPDATE ... SET deleted_at WHERE id = x AND deleted_at IS NULL.          *)
SoftDelete(r) ==
    LET x == req[r].about IN
    /\ At(r, "soft")
    /\ Done(r)
    /\ deletedAt' = IF Active(x) THEN [deletedAt EXCEPT ![x] = now]
                    ELSE deletedAt
    /\ UNCHANGED <<row, refs, settings, now, cycle, history>>

(* The guard of hardDeletePolicyModule, hardDeleteGroup and                *)
(* hardDeleteDependencyGroup, outside any transaction here.                *)
Count(r) ==
    LET x == req[r].about IN
    /\ At(r, "count")
    /\ IF Counted(x) = {} THEN Goto(r, "erase", x) ELSE Done(r)
    /\ UNCHANGED <<data, settings, now, cycle, history>>

Erase(r) ==
    LET x == req[r].about IN
    /\ At(r, "erase")
    /\ Done(r)
    /\ IF Bound(x) = {}
       THEN EraseRow(x) /\ Interfere({r})
       ELSE UNCHANGED <<data, raced>>
    /\ UNCHANGED <<settings, now, cycle, restored>>

(* Restore: UPDATE ... SET deleted_at = NULL WHERE deleted_at IS NOT NULL. *)
Restore(x) ==
    /\ x \in row
    /\ deletedAt[x] # None
    /\ deletedAt' = [deletedAt EXCEPT ![x] = None]
    /\ restored' = restored \cup ({x} \cap cycle.todo)
    /\ UNCHANGED <<row, refs, settings, now, cycle, req, raced>>

-----------------------------------------------------------------------------
(* Requests about one reference.                                           *)

(* AddBinding, AddAssignment: the configuration group is read first;       *)
(* LinkModule takes the module's URN as it comes.                          *)
Add(r, p) ==
    /\ At(r, "idle")
    /\ Ends(p) \in Links \/ Active(p[1])
    /\ Goto(r, "target", p)
    /\ UNCHANGED <<data, settings, now, cycle, history>>

AddCheck(r) ==
    LET p == req[r].about IN
    /\ At(r, "target")
    /\ IF Active(p[2]) THEN Goto(r, "insert", p) ELSE Done(r)
    /\ UNCHANGED <<data, settings, now, cycle, history>>

(* What the foreign keys of the new row ask for: target_id of an           *)
(* assignment and module_id of a link have none.                           *)
KeysHold(p) ==
    /\ Ends(p) \in Links \/ p[1] \in row
    /\ Ends(p) \in Assignments \/ p[2] \in row

AddInsert(r) ==
    LET p == req[r].about IN
    /\ At(r, "insert")
    /\ Done(r)
    /\ IF KeysHold(p)
       THEN refs' = refs \cup {p} /\ Interfere({r})
       ELSE UNCHANGED <<refs, raced>>
    /\ UNCHANGED <<row, deletedAt, settings, now, cycle, restored>>

(* RemoveBinding, RemoveAssignment, UnlinkModule.  The first two find      *)
(* nothing under a configuration group that is deleted.                    *)
Remove(r, p) ==
    /\ At(r, "idle")
    /\ p \in refs
    /\ Ends(p) \in Links \/ Active(p[1])
    /\ Goto(r, "remove", p)
    /\ UNCHANGED <<data, settings, now, cycle, history>>

RemoveWrite(r) ==
    /\ At(r, "remove")
    /\ Done(r)
    /\ refs' = refs \ {req[r].about}
    /\ UNCHANGED <<row, deletedAt, settings, now, cycle, history>>

-----------------------------------------------------------------------------
(* PurgeExpired, called at boot and then every hour.                       *)

(* Mutant: the first kind of the order is passed over.                     *)
PurgeStartAtSecond ==
    /\ cycle.next = 0
    /\ cycle' = [Asleep EXCEPT !.next = 2, !.days = days]
    /\ UNCHANGED <<data, settings, now, req, history>>

(* ListRetentionSettings.                                                  *)
PurgeStart ==
    /\ cycle.next = 0
    /\ cycle' = [Asleep EXCEPT !.next = 1, !.days = days]
    /\ UNCHANGED <<data, settings, now, req, history>>

(* deleted_at IS NOT NULL AND deleted_at <= cutoff; no days, no cutoff.    *)
Expired(x, d) ==
    /\ x \in row
    /\ deletedAt[x] # None
    /\ d # None
    /\ deletedAt[x] + d <= now

(* Mutant: whatever is deleted is listed, without a cutoff.                *)
PurgeListAllDeleted(i) ==
    /\ cycle.next = i
    /\ cycle.todo = {}
    /\ cycle' = [cycle EXCEPT
                    !.next = i + 1,
                    !.todo = {x \in row : /\ KindOf[x] = PurgeOrder[i]
                                          /\ deletedAt[x] # None}]
    /\ restored' = {}
    /\ UNCHANGED <<data, settings, now, req, raced>>

(* cutoff and ListExpired<Kind>; a kind that is never purged is skipped.   *)
PurgeList(i) ==
    LET k == PurgeOrder[i] IN
    /\ cycle.next = i
    /\ cycle.todo = {}
    /\ cycle' = [cycle EXCEPT
                    !.next = i + 1,
                    !.todo = {x \in Items : /\ KindOf[x] = k
                                            /\ Expired(x, cycle.days[k])}]
    /\ restored' = {}
    /\ UNCHANGED <<data, settings, now, req, raced>>

(* One listed row: the guard and the DELETE in one transaction, rolled     *)
(* back when the guard refuses (PurgeResult.Skipped).                      *)
PurgeRow(x) ==
    /\ x \in cycle.todo
    /\ cycle' = [cycle EXCEPT !.todo = @ \ {x}]
    /\ IF Counted(x) = {} /\ Bound(x) = {}
       THEN EraseRow(x) /\ Interfere({})
       ELSE UNCHANGED <<data, raced>>
    /\ UNCHANGED <<settings, now, req, restored>>

(* An error anywhere in the transaction: PurgeResult.Err.                  *)
PurgeError(x) ==
    /\ x \in cycle.todo
    /\ cycle' = [cycle EXCEPT !.todo = @ \ {x}]
    /\ UNCHANGED <<data, settings, now, req, history>>

(* A listing fails: the kinds after it are not looked at in this cycle.    *)
PurgeAbort ==
    /\ cycle.next \in Positions
    /\ cycle.todo = {}
    /\ cycle.days[PurgeOrder[cycle.next]] # None
    /\ cycle' = Asleep
    /\ restored' = {}
    /\ UNCHANGED <<data, settings, now, req, raced>>

PurgeEnd ==
    /\ cycle.next = 7
    /\ cycle.todo = {}
    /\ cycle' = Asleep
    /\ restored' = {}
    /\ UNCHANGED <<data, settings, now, req, raced>>

-----------------------------------------------------------------------------
Tick ==
    /\ now < MaxTime
    /\ now' = now + 1
    /\ UNCHANGED <<data, settings, cycle, req, history>>

(* A statement fails or the client goes away.                              *)
Fail(r) ==
    /\ ~At(r, "idle")
    /\ Done(r)
    /\ UNCHANGED <<data, settings, now, cycle, history>>

(* The process dies; the next one starts with a cycle of its own.          *)
Crash ==
    /\ req' = [r \in Requests |-> Idle]
    /\ cycle' = Asleep
    /\ restored' = {}
    /\ UNCHANGED <<data, settings, now, raced>>

Start(r) ==
    \/ \E x \in Items : Delete(r, x) \/ PermanentlyDelete(r, x)
    \/ \E p \in References : Add(r, p) \/ Remove(r, p)

Continue(r) ==
    \/ SoftDelete(r) \/ Count(r) \/ Erase(r)
    \/ AddCheck(r) \/ AddInsert(r) \/ RemoveWrite(r)
    \/ Fail(r)

Purge ==
    \/ PurgeStart \/ PurgeAbort \/ PurgeEnd
    \/ \E i \in Positions : PurgeList(i)
    \/ \E x \in Items : PurgeRow(x) \/ PurgeError(x)

Next ==
    \/ \E x \in Items \ Builtin :
         \E m \in {"soft", "immediate"}, d \in Days \cup {None} :
           UpdateSetting(KindOf[x], m, d)
    \/ \E x \in Items : Restore(x)
    \/ \E r \in Requests : Start(r) \/ Continue(r)
    \/ Purge \/ Tick \/ Crash

Spec == Init /\ [][Next]_vars

(* The purger gets on, and neither an error nor a crash keeps it from the  *)
(* same listing, or the same row, for ever.                                *)
FairSpec ==
    /\ Spec
    /\ WF_vars(PurgeStart) /\ WF_vars(PurgeEnd)
    /\ \A i \in Positions : SF_vars(PurgeList(i))
    /\ \A x \in Items : SF_vars(PurgeRow(x))

-----------------------------------------------------------------------------
(* What a request holds, and what still is so of the rows it has read when *)
(* nothing has interfered.  These and the properties below are inductive   *)
(* together.                                                               *)
LocalsOf(q) ==
    /\ q.pc \in {"soft", "count", "erase"} => q.about \in Items \ Builtin
    /\ q.pc \in {"target", "insert", "remove"} => q.about \in References

SnapshotOf(q) ==
    /\ q.pc = "erase" => Counted(q.about) = {}
    /\ q.pc = "insert" /\ KindOf[q.about[2]] = "group" => q.about[2] \in row

Locals == \A r \in Requests : LocalsOf(req[r])

Snapshots == ~raced => \A r \in Requests : SnapshotOf(req[r])

Listed ==
    \A x \in (cycle.todo \cap row) \ restored :
        Expired(x, cycle.days[KindOf[x]])

BuiltinsUnlisted == cycle.todo \cap Builtin = {}

-----------------------------------------------------------------------------
(* "ErrBuiltinProtected": a builtin dependency group is never deleted.     *)
(* Neither the purge cycle nor hardDeleteDependencyGroup looks at          *)
(* is_builtin; they rely on the service never having marked one.           *)
BuiltinsStay == \A x \in Builtin : Active(x)

(* The permanent boundary breaks no reference: what a binding or a link    *)
(* names exists, its configuration group does, and so does a group that is *)
(* assigned to, whatever is deleted, restored and purged around it, unless *)
(* a row went or a reference came between the statements of a request.     *)
(* Referents and referrers may be soft-deleted: restoring one finds all    *)
(* its references in place.                                                *)
ReferencesHold ==
    \A p \in refs :
        /\ Ends(p) \in Bindings \cup Assignments => p[1] \in row
        /\ Ends(p) \in Bindings \cup Links => p[2] \in row
        /\ KindOf[p[2]] = "group" => p[2] \in row \/ raced

PurgedNow(x) == x \in row \ row' /\ x \in cycle.todo \ cycle'.todo

(* "PurgeExpired permanently removes expired soft-deleted rows": what the  *)
(* purger removes is deleted and past the days its cycle read when it      *)
(* started.                                                                *)
PurgesOnlyExpired ==
    [][\A x \in Items :
         PurgedNow(x) => Expired(x, cycle.days[KindOf[x]])]_vars

(* The same, except for a row restored after its kind was listed.          *)
PurgesExpiredUnlessRestored ==
    [][\A x \in Items :
         PurgedNow(x) /\ x \notin restored
         => Expired(x, cycle.days[KindOf[x]])]_vars

(* "purge skips still-referenced or guard-blocked items, logs the skip, and *)
(* retries next cycle": a row that is deleted, past its days and no longer *)
(* referred to does not stay that way, however many cycles were aborted or *)
(* skipped it before.                                                      *)
Purgeable(x) ==
    /\ Expired(x, days[KindOf[x]])
    /\ Counted(x) = {} /\ Bound(x) = {}

ExpiredIsPurged == \A x \in Items : []<>~Purgeable(x)

=============================================================================
