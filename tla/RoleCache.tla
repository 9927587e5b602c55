------------------------------ MODULE RoleCache ------------------------------
(***************************************************************************)
(* identities.role, the cached slug of the highest role an identity holds  *)
(* directly or through its groups, and who recomputes it: RoleService      *)
(* (src/pkg/services/roles.go) with the handlers that change assignments,  *)
(* memberships and group roles.                                            *)
(*                                                                         *)
(* A role is known by its rank; a custom role ranks as its template.  A    *)
(* recomputation is two reads and a write, a change of a group's roles one *)
(* recomputation after another, and nothing is a transaction.  Rules,      *)
(* group deletion, role deletion and identity deletion change what an      *)
(* identity holds and recompute nothing.                                   *)
(***************************************************************************)
EXTENDS Naturals, FiniteSets

CONSTANTS
    Accounts,       \* identities
    Groups,
    Roles,
    Rank,           \* rolePrivilege of the role's slug or template, or 0
    CacheRequests,
    Unset           \* no account, group or role

ASSUME RankAssumption == Rank \in [Roles -> 0..4]
ASSUME UnsetAssumption == Unset \notin Accounts \cup Groups \cup Roles

VARIABLES
    holds,      \* identity_roles: <<account, role>>
    carries,    \* group_roles: <<group, role>>
    joined,     \* group_memberships: <<account, group>>
    deleted,    \* accounts and groups that are soft deleted
    cache,      \* cache[i]: rank of identities.role
    excused,    \* history: accounts a change without recomputation, a
                \* recomputation overtaken by a change or a failed one has
                \* touched since a good recomputation of theirs
    creq        \* creq[r]: where request r is and what it has read

cacheVars == <<holds, carries, joined, deleted, cache, excused, creq>>

(* "user", the slug of an identity without roles and of the lowest.        *)
UserRank == 1

CacheIdle == [pc |-> "idle", who |-> Unset, group |-> Unset, role |-> Unset,
              todo |-> {}, best |-> UserRank, fresh |-> TRUE]

CacheRequestType ==
    [pc    : {"idle", "members", "next", "direct", "groups", "write",
              "delete"},
     who   : Accounts \cup {Unset},     \* whose cache is being recomputed
     group : Groups \cup {Unset},
     role  : Roles \cup {Unset},
     todo  : SUBSET Accounts,           \* members still to be recomputed
     best  : UserRank..4,               \* highest rank read so far
     fresh : BOOLEAN]                   \* history: what who holds has not
                                        \* changed since the first read

RoleCacheTypeOK ==
    /\ holds \subseteq Accounts \X Roles
    /\ carries \subseteq Groups \X Roles
    /\ joined \subseteq Accounts \X Groups
    /\ deleted \subseteq Accounts \cup Groups
    /\ cache \in [Accounts -> UserRank..4]
    /\ excused \subseteq Accounts
    /\ creq \in [CacheRequests -> CacheRequestType]

RoleCacheInit ==
    /\ holds = {}
    /\ carries = {}
    /\ joined = {}
    /\ deleted = {}
    /\ cache = [i \in Accounts |-> UserRank]
    /\ excused = {}
    /\ creq = [r \in CacheRequests |-> CacheIdle]

CacheAt(r, label) == creq[r].pc = label

CacheMove(r, q) == creq' = [creq EXCEPT ![r] = q]

(* ListRolesForIdentity.                                                   *)
Direct(i) == {x \in Roles : <<i, x>> \in holds}

(* Mutant: roles of soft deleted groups count.                             *)
ViaAnyGroup(i) ==
    {x \in Roles : \E g \in Groups : <<i, g>> \in joined /\ <<g, x>> \in carries}

(* ListGroupRolesForIdentity leaves out groups that are soft deleted.      *)
ViaGroups(i) ==
    {x \in Roles : \E g \in Groups \ deleted :
                     <<i, g>> \in joined /\ <<g, x>> \in carries}

(* Mutant: nothing is assumed of who holds no role.                        *)
BestOfRead(S, least) ==
    LET ranks == {Rank[x] : x \in S} \cup {0}
    IN CHOOSE n \in ranks : \A m \in ranks : n >= m

(* The slug starts as "user" and gives way to a higher rank.               *)
Best(S, least) ==
    LET ranks == {Rank[x] : x \in S} \cup {least}
    IN CHOOSE n \in ranks : \A m \in ranks : n >= m

(* What the cache is meant to hold.                                        *)
Highest(i) ==
    LET ranks == {UserRank} \cup
            {Rank[x] : x \in {y \in Roles :
                \/ <<i, y>> \in holds
                \/ \E g \in Groups \ deleted :
                     <<i, g>> \in joined /\ <<g, y>> \in carries}}
    IN CHOOSE n \in ranks : \A m \in ranks : n >= m

MembersOf(g) == {i \in Accounts : <<i, g>> \in joined}

(* Accounts whose direct or inherited roles the step changes.              *)
Touched ==
    {i \in Accounts : Direct(i)' # Direct(i) \/ ViaGroups(i)' # ViaGroups(i)}

(* Request r writes a table and moves to q; a recomputation another        *)
(* request has begun is overtaken when its account is touched.             *)
CacheWrite(r, q) ==
    creq' = [s \in CacheRequests |->
               IF s = r THEN q
               ELSE IF /\ creq[s].pc \in {"groups", "write"}
                       /\ creq[s].who \in Touched
                    THEN [creq[s] EXCEPT !.fresh = FALSE]
               ELSE creq[s]]

(* The same for a change by which nobody is recomputed and which takes the *)
(* members S from, or adds them to, a group.                               *)
ChangeAlone(S) ==
    /\ creq' = [s \in CacheRequests |->
                  IF /\ creq[s].pc \in {"groups", "write"}
                     /\ creq[s].who \in Touched
                  THEN [creq[s] EXCEPT !.fresh = FALSE] ELSE creq[s]]
    /\ excused' = excused \cup Touched \cup S

Recompute(i, todo) ==
    [CacheIdle EXCEPT !.pc = "direct", !.who = i, !.todo = todo]

-----------------------------------------------------------------------------
(* Changes that recompute.                                                 *)

(* Assign and Remove of RoleService.                                       *)
AssignRole(r, i, x) ==
    /\ CacheAt(r, "idle")
    /\ i \notin deleted
    /\ holds' = holds \cup {<<i, x>>}
    /\ UNCHANGED <<carries, joined, deleted, cache, excused>>
    /\ CacheWrite(r, Recompute(i, {}))

RemoveRole(r, i, x) ==
    /\ CacheAt(r, "idle")
    /\ i \notin deleted
    /\ holds' = holds \ {<<i, x>>}
    /\ UNCHANGED <<carries, joined, deleted, cache, excused>>
    /\ CacheWrite(r, Recompute(i, {}))

(* UserGroupAdd, UserGroupRemove, GroupMemberAdd, GroupMemberRemove.       *)
Join(r, i, g) ==
    /\ CacheAt(r, "idle")
    /\ {i, g} \cap deleted = {}
    /\ joined' = joined \cup {<<i, g>>}
    /\ UNCHANGED <<holds, carries, deleted, cache, excused>>
    /\ CacheWrite(r, Recompute(i, {}))

Leave(r, i, g) ==
    /\ CacheAt(r, "idle")
    /\ g \notin deleted
    /\ <<i, g>> \in joined
    /\ joined' = joined \ {<<i, g>>}
    /\ UNCHANGED <<holds, carries, deleted, cache, excused>>
    /\ CacheWrite(r, Recompute(i, {}))

(* GroupRoleAssign, GroupRoleRemove.                                       *)
GroupRoleChange(r, g, change) ==
    /\ CacheAt(r, "idle")
    /\ g \notin deleted
    /\ carries' = change
    /\ UNCHANGED <<holds, joined, deleted, cache, excused>>
    /\ CacheWrite(r, [CacheIdle EXCEPT !.pc = "members", !.group = g])

GroupRoleAssign(r, g, x) == GroupRoleChange(r, g, carries \cup {<<g, x>>})

GroupRoleRemove(r, g, x) == GroupRoleChange(r, g, carries \ {<<g, x>>})

(* RecomputeForGroupMembers: ListIdentitiesInGroup leaves out accounts     *)
(* that are soft deleted.                                                  *)
ListMembers(r) ==
    LET listed == MembersOf(creq[r].group) \ deleted IN
    /\ CacheAt(r, "members")
    /\ CacheMove(r, [CacheIdle EXCEPT !.pc = "next", !.todo = listed])
    /\ excused' = excused \cup (MembersOf(creq[r].group) \ listed)
    /\ UNCHANGED <<holds, carries, joined, deleted, cache>>

(* One member after another, in the order of their names.                  *)
NextMember(r) ==
    /\ CacheAt(r, "next")
    /\ \/ /\ creq[r].todo = {}
          /\ CacheMove(r, CacheIdle)
       \/ \E i \in creq[r].todo :
            CacheMove(r, Recompute(i, creq[r].todo \ {i}))
    /\ UNCHANGED <<holds, carries, joined, deleted, cache, excused>>

-----------------------------------------------------------------------------
(* recomputeRoleCache.                                                     *)

ReadDirect(r) ==
    LET q == creq[r] IN
    /\ CacheAt(r, "direct")
    /\ CacheMove(r, [q EXCEPT !.pc = "groups",
                              !.best = Best(Direct(q.who), UserRank)])
    /\ UNCHANGED <<holds, carries, joined, deleted, cache, excused>>

ReadGroups(r) ==
    LET q == creq[r] IN
    /\ CacheAt(r, "groups")
    /\ CacheMove(r, [q EXCEPT !.pc = "write",
                              !.best = Best(ViaGroups(q.who), q.best)])
    /\ UNCHANGED <<holds, carries, joined, deleted, cache, excused>>

(* UpdateIdentityRole.                                                     *)
WriteCache(r) ==
    LET q == creq[r] IN
    /\ CacheAt(r, "write")
    /\ cache' = [cache EXCEPT ![q.who] = q.best]
    /\ excused' = IF q.fresh THEN excused \ {q.who} ELSE excused \cup {q.who}
    /\ CacheMove(r, [CacheIdle EXCEPT !.pc = "next", !.todo = q.todo])
    /\ UNCHANGED <<holds, carries, joined, deleted>>

-----------------------------------------------------------------------------
(* Changes that recompute nothing.                                         *)

(* An evaluation of the group's rules adds or deletes a membership.        *)
RuleMembership(i, g) ==
    /\ joined' = IF <<i, g>> \in joined THEN joined \ {<<i, g>>}
                 ELSE joined \cup {<<i, g>>}
    /\ UNCHANGED <<holds, carries, deleted, cache>>
    /\ ChangeAlone({i})

(* A group or an identity is soft deleted or restored.                     *)
DeleteOrRestore(e) ==
    /\ deleted' = IF e \in deleted THEN deleted \ {e} ELSE deleted \cup {e}
    /\ UNCHANGED <<holds, carries, joined, cache>>
    /\ ChangeAlone({})

(* A group is deleted for good, and memberships and group roles with it;   *)
(* its id stands for a new group afterwards.                               *)
EraseGroup(g) ==
    /\ joined' = {p \in joined : p[2] # g}
    /\ carries' = {p \in carries : p[1] # g}
    /\ deleted' = deleted \ {g}
    /\ UNCHANGED <<holds, cache>>
    /\ ChangeAlone(MembersOf(g))

(* PlurisPolicyDelete looks at the active holders of the role and not at   *)
(* groups; the delete cascades to both.                                    *)
DeleteRoleCheck(r, x) ==
    /\ CacheAt(r, "idle")
    /\ \A i \in Accounts \ deleted : <<i, x>> \notin holds
    /\ CacheMove(r, [CacheIdle EXCEPT !.pc = "delete", !.role = x])
    /\ UNCHANGED <<holds, carries, joined, deleted, cache, excused>>

DeleteRole(r) ==
    LET x == creq[r].role IN
    /\ CacheAt(r, "delete")
    /\ holds' = {p \in holds : p[2] # x}
    /\ carries' = {p \in carries : p[2] # x}
    /\ UNCHANGED <<joined, deleted, cache>>
    /\ CacheWrite(r, CacheIdle)
    /\ excused' = excused \cup Touched

-----------------------------------------------------------------------------
(* Accounts request r is still going to recompute from what it reads.      *)
Pending(r) ==
    LET q == creq[r] IN
    CASE q.pc = "members" -> MembersOf(q.group)
      [] q.pc = "direct" -> q.todo \cup {q.who}
      [] q.pc \in {"groups", "write"} ->
           IF q.fresh THEN q.todo \cup {q.who} ELSE q.todo
      [] OTHER -> q.todo

(* A statement fails, which the handlers of memberships and group roles    *)
(* ignore, the client goes away or the process dies.                       *)
CacheFail(r) ==
    /\ ~CacheAt(r, "idle")
    /\ CacheMove(r, CacheIdle)
    /\ excused' = excused \cup Pending(r)
    /\ UNCHANGED <<holds, carries, joined, deleted, cache>>

CacheStart(r) ==
    \/ \E i \in Accounts, x \in Roles : AssignRole(r, i, x) \/ RemoveRole(r, i, x)
    \/ \E i \in Accounts, g \in Groups : Join(r, i, g) \/ Leave(r, i, g)
    \/ \E g \in Groups, x \in Roles :
         GroupRoleAssign(r, g, x) \/ GroupRoleRemove(r, g, x)
    \/ \E x \in Roles : DeleteRoleCheck(r, x)

CacheContinue(r) ==
    \/ ListMembers(r) \/ NextMember(r)
    \/ ReadDirect(r) \/ ReadGroups(r) \/ WriteCache(r)
    \/ DeleteRole(r) \/ CacheFail(r)

RoleCacheNext ==
    \/ \E i \in Accounts, g \in Groups : RuleMembership(i, g)
    \/ \E e \in Accounts \cup Groups : DeleteOrRestore(e)
    \/ \E g \in Groups : EraseGroup(g)
    \/ \E r \in CacheRequests : CacheStart(r) \/ CacheContinue(r)

RoleCacheSpec == RoleCacheInit /\ [][RoleCacheNext]_cacheVars

-----------------------------------------------------------------------------
(* "identities.role stays a denormalized cache of the highest-privilege    *)
(* assigned role": it is that of what the identity holds directly and      *)
(* through groups that are not deleted, unless a request is about to       *)
(* recompute it or one of the changes excused names has come since.        *)
CacheFollowsRoles ==
    \A i \in Accounts :
        \/ cache[i] = Highest(i)
        \/ i \in excused
        \/ \E r \in CacheRequests : i \in Pending(r)

=============================================================================
