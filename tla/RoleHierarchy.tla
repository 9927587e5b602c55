---------------------------- MODULE RoleHierarchy ----------------------------
(***************************************************************************)
(* The role tree of one tenant: roles.parent_role_id as SetRoleParent,     *)
(* CreateCustomRole (src/pkg/authz/service.go) and PlurisPolicyDelete      *)
(* (src/console/handlers/pluris_policy.go) maintain it.                    *)
(*                                                                         *)
(* Each of them reads row after row, decides, and writes with a statement  *)
(* that repeats none of the checks; there is no transaction, so the        *)
(* statements of concurrent requests interleave.  A request keeps copies   *)
(* of the rows it has read: up is the parent_role_id of the row read last, *)
(* which may have changed since.  What a role grants is left out, and so   *)
(* are other tenants (a parent of another tenant is refused like a missing *)
(* one).                                                                   *)
(***************************************************************************)
EXTENDS Naturals, FiniteSets

CONSTANTS
    Roles,          \* ids a roles row can get; AUTOINCREMENT reuses none
    Builtin,        \* the rows setup creates
    MaxRoleDepth,   \* 5 in the code; at least a role and its parent
    Assignable,     \* roles identities are assigned (a bound on the model)
    TreeRequests,
    NoParent        \* NULL

ASSUME BuiltinAssumption == Builtin \subseteq Roles
ASSUME AssignableAssumption == Assignable \subseteq Roles
ASSUME DepthAssumption == MaxRoleDepth \in Nat \ {0, 1}
ASSUME NoneAssumption == NoParent \notin Roles

VARIABLES
    row,        \* row[x]: "unused", "present" or "deleted"
    parent,     \* parent[x]: parent_role_id
    assigned,   \* roles some identity is assigned directly
    treeReq,    \* treeReq[r]: where request r is and the rows it holds
    raced       \* history: some write has happened while another request
                \* was under way; nothing in the code corresponds to it

treeVars == <<row, parent, assigned, treeReq, raced>>

Present(x) == row[x] = "present"

TreeIdle == [pc |-> "idle", role |-> NoParent, target |-> NoParent,
         cur |-> NoParent, up |-> NoParent, depth |-> 0]

TreeLabels == {"idle", "create", "set_read", "walk", "set_write",
           "del_members", "del_children", "del_write"}

TreeRequestType ==
    [pc     : TreeLabels,
     role   : Roles \cup {NoParent},    \* role reparented or deleted
     target : Roles \cup {NoParent},    \* its parent to be
     cur    : Roles \cup {NoParent},    \* row read last on the walk
     up     : Roles \cup {NoParent},    \* its parent_role_id when read
     depth  : 0..MaxRoleDepth]

TreeTypeOK ==
    /\ row \in [Roles -> {"unused", "present", "deleted"}]
    /\ parent \in [Roles -> Roles \cup {NoParent}]
    /\ assigned \subseteq Assignable
    /\ treeReq \in [TreeRequests -> TreeRequestType]
    /\ raced \in BOOLEAN

TreeInit ==
    /\ row = [x \in Roles |-> IF x \in Builtin THEN "present" ELSE "unused"]
    /\ parent = [x \in Roles |-> NoParent]
    /\ assigned = {}
    /\ treeReq = [r \in TreeRequests |-> TreeIdle]
    /\ raced = FALSE

TreeAt(r, label) == treeReq[r].pc = label

TreeGoto(r, q) == treeReq' = [treeReq EXCEPT ![r] = q]

(* Writing while a request other than those in S is under way.             *)
WriteBeside(S) == raced' = (raced \/ \E q \in TreeRequests \ S : ~TreeAt(q, "idle"))

-----------------------------------------------------------------------------
(* TreeRequests whose reads and write are one statement apart at most.         *)

Insert(x) ==
    /\ row[x] = "unused"
    /\ row' = [row EXCEPT ![x] = "present"]

(* CreateCustomRole without a parent, and CloneRole, which does not copy   *)
(* the parent of its source.                                               *)
CreateRole(x) ==
    /\ Insert(x)
    /\ WriteBeside({})
    /\ UNCHANGED <<parent, assigned, treeReq>>

(* SetRoleParent with parentID 0.                                          *)
ClearParent(x) ==
    /\ Present(x)
    /\ x \notin Builtin
    /\ parent' = [parent EXCEPT ![x] = NoParent]
    /\ WriteBeside({})
    /\ UNCHANGED <<row, assigned, treeReq>>

(* The foreign key refuses a role that is gone.                            *)
Assign(x) ==
    /\ Present(x)
    /\ assigned' = assigned \cup {x}
    /\ WriteBeside({})
    /\ UNCHANGED <<row, parent, treeReq>>

Unassign(x) ==
    /\ assigned' = assigned \ {x}
    /\ WriteBeside({})
    /\ UNCHANGED <<row, parent, treeReq>>

-----------------------------------------------------------------------------
(* CreateCustomRole with a parent: the parent is read, the role inserted   *)
(* and then reparented by SetRoleParent.                                   *)

CreateRead(r, p) ==
    /\ TreeAt(r, "idle")
    /\ Present(p)
    /\ TreeGoto(r, [TreeIdle EXCEPT !.pc = "create", !.target = p])
    /\ UNCHANGED <<row, parent, assigned, raced>>

CreateInsert(r, x) ==
    /\ TreeAt(r, "create")
    /\ Insert(x)
    /\ TreeGoto(r, [treeReq[r] EXCEPT !.pc = "set_read", !.role = x])
    /\ WriteBeside({r})
    /\ UNCHANGED <<parent, assigned>>

-----------------------------------------------------------------------------
(* SetRoleParent.                                                          *)

(* GetRole(roleID), and the checks that need no other row.                 *)
SetStart(r, x, p) ==
    /\ TreeAt(r, "idle")
    /\ Present(x)
    /\ x \notin Builtin
    /\ p # x
    /\ TreeGoto(r, [TreeIdle EXCEPT !.pc = "set_read", !.role = x, !.target = p])
    /\ UNCHANGED <<row, parent, assigned, raced>>

(* Mutant: the role itself is not counted.                                 *)
FirstDepthOne == 1

(* roleID and parentID: depth when the parent has been read.               *)
FirstDepth == 2

(* Mutant: one level too many is walked.                                   *)
TooDeepOneLate(d) == d > MaxRoleDepth + 1

TooDeep(d) == d > MaxRoleDepth

(* Mutants: the walk forgets to compare what it reaches with roleID, and   *)
(* it forgets to count its steps.                                          *)
WalkedBlindly(q, c, d) ==
    LET u == parent[c] IN
    IF u = NoParent THEN [q EXCEPT !.pc = "set_write", !.cur = c, !.up = u,
                               !.depth = d]
    ELSE IF TooDeep(d + 1) THEN TreeIdle
    ELSE [q EXCEPT !.pc = "walk", !.cur = c, !.up = u, !.depth = d]

WalkedUncounted(q, c, d) ==
    LET u == parent[c] IN
    IF c = q.role THEN TreeIdle
    ELSE IF u = NoParent THEN [q EXCEPT !.pc = "set_write", !.cur = c, !.up = u]
    ELSE [q EXCEPT !.pc = "walk", !.cur = c, !.up = u]

(* What the walk does with row c once it is read at depth d: reaching      *)
(* roleID or going too deep is ErrRoleCycle, a row without parent ends the *)
(* walk.                                                                   *)
Walked(q, c, d) ==
    LET u == parent[c] IN
    IF c = q.role THEN TreeIdle
    ELSE IF u = NoParent THEN [q EXCEPT !.pc = "set_write", !.cur = c, !.up = u,
                                    !.depth = d]
    ELSE IF TooDeep(d + 1) THEN TreeIdle
    ELSE [q EXCEPT !.pc = "walk", !.cur = c, !.up = u, !.depth = d]

(* GetRole(parentID).                                                      *)
SetRead(r) ==
    LET p == treeReq[r].target IN
    /\ TreeAt(r, "set_read")
    /\ TreeGoto(r, IF Present(p) THEN Walked(treeReq[r], p, FirstDepth) ELSE TreeIdle)
    /\ UNCHANGED <<row, parent, assigned, raced>>

(* GetRole of the parent the last row named; a row that is gone ends the   *)
(* walk as if the chain ended there.                                       *)
WalkNext(r) ==
    LET u == treeReq[r].up IN
    /\ TreeAt(r, "walk")
    /\ TreeGoto(r, IF Present(u) THEN Walked(treeReq[r], u, treeReq[r].depth + 1)
               ELSE [treeReq[r] EXCEPT !.pc = "set_write"])
    /\ UNCHANGED <<row, parent, assigned, raced>>

(* UpdateRoleParent checks nothing again.  A role that is gone matches no  *)
(* row; a parent that is gone violates the foreign key.                    *)
SetWrite(r) ==
    LET x == treeReq[r].role
        p == treeReq[r].target IN
    /\ TreeAt(r, "set_write")
    /\ TreeGoto(r, TreeIdle)
    /\ IF Present(x) /\ Present(p)
       THEN /\ parent' = [parent EXCEPT ![x] = p]
            /\ WriteBeside({r})
       ELSE UNCHANGED <<parent, raced>>
    /\ UNCHANGED <<row, assigned>>

-----------------------------------------------------------------------------
(* PlurisPolicyDelete: three checks and a delete.                          *)

DeleteStart(r, x) ==
    /\ TreeAt(r, "idle")
    /\ Present(x)
    /\ x \notin Builtin
    /\ TreeGoto(r, [TreeIdle EXCEPT !.pc = "del_members", !.role = x])
    /\ UNCHANGED <<row, parent, assigned, raced>>

DeleteCheckMembers(r) ==
    LET x == treeReq[r].role IN
    /\ TreeAt(r, "del_members")
    /\ TreeGoto(r, IF x \in assigned THEN TreeIdle
               ELSE [treeReq[r] EXCEPT !.pc = "del_children"])
    /\ UNCHANGED <<row, parent, assigned, raced>>

Children(x) == {y \in Roles : Present(y) /\ parent[y] = x}

(* Mutant: the children check left out.                                    *)
DeleteCheckNothing(r) ==
    /\ TreeAt(r, "del_children")
    /\ TreeGoto(r, [treeReq[r] EXCEPT !.pc = "del_write"])
    /\ UNCHANGED <<row, parent, assigned, raced>>

DeleteCheckChildren(r) ==
    LET x == treeReq[r].role IN
    /\ TreeAt(r, "del_children")
    /\ TreeGoto(r, IF Children(x) # {} THEN TreeIdle
               ELSE [treeReq[r] EXCEPT !.pc = "del_write"])
    /\ UNCHANGED <<row, parent, assigned, raced>>

(* Mutant: the row goes and what refers to it stays.                       *)
DeleteRowOnly(r) ==
    LET x == treeReq[r].role IN
    /\ TreeAt(r, "del_write")
    /\ TreeGoto(r, TreeIdle)
    /\ row' = [row EXCEPT ![x] = "deleted"]
    /\ parent' = [parent EXCEPT ![x] = NoParent]
    /\ assigned' = assigned \ {x}
    /\ WriteBeside({r})

(* DELETE; assignments cascade and children lose their parent (ON DELETE   *)
(* SET NULL).                                                              *)
DeleteWrite(r) ==
    LET x == treeReq[r].role IN
    /\ TreeAt(r, "del_write")
    /\ TreeGoto(r, TreeIdle)
    /\ row' = [row EXCEPT ![x] = "deleted"]
    /\ parent' = [y \in Roles |-> IF y = x \/ parent[y] = x THEN NoParent
                                  ELSE parent[y]]
    /\ assigned' = assigned \ {x}
    /\ WriteBeside({r})

-----------------------------------------------------------------------------
(* A statement fails, the client goes away or the process dies: what was   *)
(* written stays.                                                          *)
TreeFail(r) ==
    /\ ~TreeAt(r, "idle")
    /\ TreeGoto(r, TreeIdle)
    /\ UNCHANGED <<row, parent, assigned, raced>>

TreeStart(r) ==
    \/ \E p \in Roles : CreateRead(r, p)
    \/ \E x, p \in Roles : SetStart(r, x, p)
    \/ \E x \in Roles : DeleteStart(r, x)

TreeContinue(r) ==
    \/ \E x \in Roles : CreateInsert(r, x)
    \/ SetRead(r) \/ WalkNext(r) \/ SetWrite(r)
    \/ DeleteCheckMembers(r) \/ DeleteCheckChildren(r) \/ DeleteWrite(r)
    \/ TreeFail(r)

TreeNext ==
    \/ \E x \in Roles : CreateRole(x) \/ ClearParent(x)
    \/ \E x \in Assignable : Assign(x) \/ Unassign(x)
    \/ \E r \in TreeRequests : TreeStart(r) \/ TreeContinue(r)

TreeSpec == TreeInit /\ [][TreeNext]_treeVars

-----------------------------------------------------------------------------
(* What a request holds, and what still is so of the rows it has read when *)
(* no write has overlapped it.  These and the properties below are         *)
(* inductive together.                                                     *)
TreeLocalsOf(q) ==
    /\ q.pc \in {"create", "set_read", "walk", "set_write"}
         => q.target \in Roles
    /\ q.pc \notin {"idle", "create"} => q.role \in Roles \ Builtin
    /\ q.pc \in {"walk", "set_write"} => q.cur \in Roles
    /\ q.pc = "walk" => q.up \in Roles /\ q.depth < MaxRoleDepth

(* W holds the rows walked, up to and with cur; roleID is none of them,    *)
(* and depth counts it and them.                                           *)
WalkedRows(q, W) ==
    /\ q.role \notin W
    /\ q.target \in W
    /\ q.cur \in W
    /\ \A x \in W \ {q.cur} : parent[x] \in W
    /\ IsFiniteSet(W) /\ Cardinality(W) < q.depth

SnapshotOf(q) ==
    /\ q.pc \in {"walk", "set_write"} =>
         \E W \in SUBSET Roles : WalkedRows(q, W)
    /\ q.pc = "walk" => parent[q.cur] = q.up
    /\ q.pc = "set_write" => parent[q.cur] = NoParent
    /\ q.pc \in {"del_children", "del_write"} => q.role \notin assigned
    /\ q.pc = "del_write" => Children(q.role) = {}

TreeLocals == \A r \in TreeRequests : TreeLocalsOf(treeReq[r])

Snapshots == ~raced => \A r \in TreeRequests : SnapshotOf(treeReq[r])

BuiltinsPresent == \A x \in Builtin : Present(x)

-----------------------------------------------------------------------------
(* parent_role_id is what its column and the service promise: it joins     *)
(* rows that exist, and builtin roles are roots.  This holds however       *)
(* requests overlap.                                                       *)
ParentsExist ==
    \A x \in Roles : parent[x] # NoParent =>
        /\ Present(x)
        /\ Present(parent[x])
        /\ x \notin Builtin

(* No role is its own ancestor: every set of roles has a member whose      *)
(* parent is outside it.                                                   *)
Acyclic ==
    \A S \in SUBSET Roles : (\A x \in S : parent[x] \in S) => S = {}

(* The walk keeps the tree free of cycles as long as no write falls        *)
(* between another request's reads and its write.                          *)
AcyclicUnlessRaced == ~raced => Acyclic

UpwardClosed(S) == \A y \in S : parent[y] \in S \cup {NoParent}

(* The ancestors of x and x itself.                                        *)
Lineage(x) ==
    {y \in Roles : \A S \in SUBSET Roles : x \in S /\ UpwardClosed(S) => y \in S}

Depth(x) == Cardinality(Lineage(x))

(* A role that is given a parent ends up within MaxRoleDepth, and one more *)
(* level is refused (the guard counts the role itself).                    *)
GivenParentWithinDepth ==
    [][\A x \in Roles :
         parent'[x] \notin {NoParent, parent[x]} /\ ~raced'
         => Depth(x)' <= MaxRoleDepth]_treeVars

(* "A role with children still grants its permissions to every descendant  *)
(* through inheritance; deleting it out from under them would silently     *)
(* drop those children's inherited grants": without a race a deletion      *)
(* takes no parent from a child, and from no identity that is not deleted  *)
(* a role it holds by an assignment of its own.                            *)
DeletionOrphansNobody ==
    [][\A x \in Roles :
         Present(x) /\ ~Present(x)' /\ ~raced'
         => Children(x) = {} /\ x \notin assigned]_treeVars

(* "SetRoleParent rejects any change whose resulting chain would exceed    *)
(* it": no chain is longer than ResolveRoleMatrix walks.                   *)
ChainsWithinDepth == \A x \in Roles : ~raced => Depth(x) <= MaxRoleDepth

(* A request's next statement can always run.                              *)
TreeFairSpec == TreeSpec /\ \A r \in TreeRequests : WF_treeVars(TreeContinue(r))

(* Every request ends: the walk of SetRoleParent is bounded even when a    *)
(* race has left a cycle for it to go round in.                            *)
TreeRequestsEnd == \A r \in TreeRequests : ~TreeAt(r, "idle") ~> TreeAt(r, "idle")

=============================================================================
