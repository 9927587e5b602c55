------------------------------ MODULE RoleMatrix ------------------------------
(***************************************************************************)
(* What roles grant: the matrices of src/pkg/authz (grants.go, service.go) *)
(* and PlurisPolicySave with its self-lockout guard                        *)
(* (src/console/handlers/pluris_policy.go).                                *)
(*                                                                         *)
(* A role stores opinions on keys and inherits the others from its parent. *)
(* The form shows and submits a full matrix; what is stored is its         *)
(* difference to the parent's effective matrix, read row after row and     *)
(* written without a transaction.  Every resolution stops after            *)
(* MaxRoleDepth rows, and a chain may be longer than that: SetRoleParent   *)
(* counts the ancestors of the new parent, not what hangs below the role.  *)
(* Changes of a parent are their final write here: RoleHierarchy models    *)
(* the walk before it.  Roles are neither created nor deleted.             *)
(***************************************************************************)
EXTENDS Naturals, FiniteSets

CONSTANTS
    MatrixRoles,    \* custom roles
    HeldRoles,      \* those the acting identity holds, directly or by groups
    Keys,           \* permission keys
    ScopedKeys,     \* keys with the values none, own, all; others no, yes
    ManageKey,      \* console_access.manage_permissions
    ParentsFor,     \* ParentsFor[x]: roles x may be hung below (a bound)
    SaveRequests,
    SavedRoles,     \* SavedRoles[r]: roles request r saves (the same)
    ActingRequests, \* those of the acting identity; others are a super admin's
    MaxRoleDepth,   \* rows a resolution reads at most
    NoRole          \* NULL

ASSUME HeldAssumption == HeldRoles \subseteq MatrixRoles
ASSUME ParentsAssumption == ParentsFor \in [MatrixRoles -> SUBSET MatrixRoles]
ASSUME ActingAssumption == ActingRequests \subseteq SaveRequests
ASSUME SavedAssumption == SavedRoles \in [SaveRequests -> SUBSET MatrixRoles]
ASSUME KeysAssumption == ScopedKeys \subseteq Keys /\ ManageKey \in Keys
ASSUME NoRoleAssumption == NoRole \notin MatrixRoles
ASSUME DepthAssumption == MaxRoleDepth \in Nat \ {0} /\ IsFiniteSet(MatrixRoles)

VARIABLES
    stored,     \* stored[x]: the role's permissions column
    above,      \* above[x]: parent_role_id
    sreq        \* sreq[r]: where request r is and what it has read

matrixVars == <<stored, above, sreq>>

Values(k) == IF k \in ScopedKeys THEN {"none", "own", "all"} ELSE {"no", "yes"}

AllValues == {"none", "own", "all", "no", "yes"}

(* A full matrix has a value for every key; an absent key is "".           *)
FullMatrices == {m \in [Keys -> AllValues] : \A k \in Keys : m[k] \in Values(k)}

Matrices == [Keys -> AllValues \cup {""}]

Blank == [k \in Keys |-> ""]

SaveIdle == [pc |-> "idle", role |-> NoRole, full |-> Blank,
             up |-> NoRole, merged |-> Blank, depth |-> 0, fresh |-> TRUE,
             alone |-> TRUE]

SaveRequestType ==
    [pc     : {"idle", "guard", "role", "parent", "walk", "write"},
     role   : MatrixRoles \cup {NoRole},
     full   : Matrices,                 \* the matrix submitted
     up     : MatrixRoles \cup {NoRole},    \* the row to be read next
     merged : Matrices,                 \* ancestors read so far, or the diff
     depth  : 0 .. MaxRoleDepth,        \* while walking: rows in merged
     fresh  : BOOLEAN,          \* history: since it began no ancestor of
                                \* role has been saved or changed
     alone  : BOOLEAN]          \* history: nothing has been written since

RoleMatrixTypeOK ==
    /\ stored \in [MatrixRoles -> Matrices]
    /\ above \in [MatrixRoles -> MatrixRoles \cup {NoRole}]
    /\ sreq \in [SaveRequests -> SaveRequestType]

(* CreateCustomRole stores no opinion.                                     *)
RoleMatrixInit ==
    /\ stored = [x \in MatrixRoles |-> Blank]
    /\ above = [x \in MatrixRoles |-> NoRole]
    /\ sreq = [r \in SaveRequests |-> SaveIdle]

SaveAt(r, label) == sreq[r].pc = label

SaveMove(r, q) == sreq' = [sreq EXCEPT ![r] = q]

-----------------------------------------------------------------------------
(* grants.go.                                                              *)

ValueRank == [v \in AllValues \cup {""} |->
                CASE v = "all" -> 5 [] v = "yes" -> 4 [] v = "own" -> 3
                  [] v = "no" -> 2 [] v = "none" -> 1 [] OTHER -> 0]

(* The highest-ranked value any of the matrices S has for each key.        *)
UnionOf(S) ==
    [k \in Keys |->
       LET vs == {m[k] : m \in S} \cup {""}
       IN CHOOSE v \in vs : \A w \in vs : ValueRank[v] >= ValueRank[w]]

Can(m, k) == m[k] \in {"yes", "own", "all"}

(* Opinions of child win over those of base.                               *)
Over(child, base) ==
    [k \in Keys |-> IF child[k] # "" THEN child[k] ELSE base[k]]

-----------------------------------------------------------------------------
(* service.go.                                                             *)

UpwardClosed(S) == \A y \in S : above[y] \in S \cup {NoRole}

(* x and its ancestors.                                                    *)
Chain(x) ==
    LET closed == {S \in SUBSET MatrixRoles : x \in S /\ UpwardClosed(S)}
    IN {y \in MatrixRoles : \A S \in closed : y \in S}

Ancestors(x) == IF above[x] = NoRole THEN {} ELSE Chain(above[x])

(* Those of them a resolution reads: the lowest MaxRoleDepth rows.         *)
Walked(x) ==
    LET all == Chain(x)
    IN {y \in all : Cardinality(all \ Chain(y)) < MaxRoleDepth}

(* No row of the chain is left out.                                        *)
WithinDepth(x) == Cardinality(Chain(x)) <= MaxRoleDepth

(* The lowest of the roles read that has an opinion on k, if any.          *)
Nearest(x, k) ==
    LET holders == {y \in Walked(x) : stored[y][k] # ""}
    IN {y \in holders : holders \subseteq Chain(y)}

(* ResolveRoleMatrix over the rows of one moment.                          *)
Resolved(x) ==
    [k \in Keys |-> LET nearest == Nearest(x, k)
                    IN IF nearest = {} THEN ""
                       ELSE stored[CHOOSE y \in nearest : TRUE][k]]

(* completeWithDefaults.                                                   *)
Completed(m) ==
    [k \in Keys |-> IF m[k] # "" THEN m[k]
                    ELSE IF k \in ScopedKeys THEN "none" ELSE "no"]

(* EffectiveGrants of the acting identity.                                 *)
ActorGrants == UnionOf({Resolved(x) : x \in HeldRoles})

(* requirePermission and resolveTenantRole; parseGrantsForm gives every    *)
(* registered key a value.                                                 *)
SaveStart(r, x, full) ==
    /\ SaveAt(r, "idle")
    /\ x \in SavedRoles[r]
    /\ r \in ActingRequests => Can(ActorGrants, ManageKey)
    /\ SaveMove(r, [SaveIdle EXCEPT !.role = x, !.full = full,
                      !.pc = IF r \in ActingRequests THEN "guard" ELSE "role"])
    /\ UNCHANGED <<stored, above>>

(* Mutant: the role saved counts with the matrix it has.                   *)
LocksOutStale(x, full) ==
    /\ x \in HeldRoles
    /\ ~Can(ActorGrants, ManageKey)

(* wouldLockOutActor.                                                      *)
LocksOut(x, full) ==
    /\ x \in HeldRoles
    /\ ~Can(UnionOf({full} \cup {Resolved(y) : y \in HeldRoles \ {x}}),
            ManageKey)

(* Its reads are one step: they matter to no property when another write   *)
(* falls between them.  A super admin is let through before them.          *)
SaveGuard(r) ==
    LET q == sreq[r] IN
    /\ SaveAt(r, "guard")
    /\ SaveMove(r, IF LocksOut(q.role, q.full) THEN SaveIdle
                   ELSE [q EXCEPT !.pc = "role"])
    /\ UNCHANGED <<stored, above>>

(* SaveRoleOverrides: the role row.  Without a parent all is stored.       *)
SaveReadRole(r) ==
    LET q == sreq[r] IN
    /\ SaveAt(r, "role")
    /\ SaveMove(r, IF above[q.role] = NoRole
                   THEN [q EXCEPT !.pc = "write", !.merged = q.full]
                   ELSE [q EXCEPT !.pc = "parent", !.up = above[q.role]])
    /\ UNCHANGED <<stored, above>>

(* Mutant: a key the parents have no opinion on counts as inherited.       *)
DifferenceLoose(full, base) ==
    [k \in Keys |-> IF base[k] = "" \/ full[k] = Completed(base)[k] THEN ""
                    ELSE full[k]]

Difference(full, base) ==
    [k \in Keys |-> IF full[k] = Completed(base)[k] THEN "" ELSE full[k]]

(* Having merged n rows into base, with row up above them.                 *)
SaveMerged(q, base, n, up) ==
    IF up = NoRole \/ n = MaxRoleDepth
    THEN [q EXCEPT !.pc = "write", !.up = NoRole, !.depth = 0,
                   !.merged = Difference(q.full, base)]
    ELSE [q EXCEPT !.pc = "walk", !.up = up, !.depth = n, !.merged = base]

(* The parent row, and ResolveRoleMatrix of it: one row after another, the *)
(* lower one winning.                                                      *)
SaveReadParent(r) ==
    LET q == sreq[r] IN
    /\ SaveAt(r, "parent")
    /\ SaveMove(r, SaveMerged(q, stored[q.up], 1, above[q.up]))
    /\ UNCHANGED <<stored, above>>

SaveWalk(r) ==
    LET q == sreq[r] IN
    /\ SaveAt(r, "walk")
    /\ SaveMove(r, SaveMerged(q, Over(q.merged, stored[q.up]), q.depth + 1, above[q.up]))
    /\ UNCHANGED <<stored, above>>

(* The requests after a write to the row of role y that concerns its       *)
(* matrix, or its place in the tree when moved.                            *)
Overtaken(y, moved) ==
    [s \in SaveRequests |->
       IF SaveAt(s, "idle") THEN sreq[s]
       ELSE [sreq[s] EXCEPT
               !.alone = FALSE,
               !.fresh = /\ @
                         /\ y \notin Ancestors(sreq[s].role)
                         /\ moved => y # sreq[s].role]]

(* UpdateRolePermissions.                                                  *)
SaveWrite(r) ==
    LET q == sreq[r] IN
    /\ SaveAt(r, "write")
    /\ stored' = [stored EXCEPT ![q.role] = q.merged]
    /\ sreq' = [Overtaken(q.role, FALSE) EXCEPT ![r] = SaveIdle]
    /\ UNCHANGED above

(* SetRoleParent, the checks included: no role becomes its own ancestor,   *)
(* and its own chain is not too deep; those of its descendants may get so. *)
Reparent(x, p) ==
    /\ p # above[x]
    /\ p # NoRole => /\ p # x /\ x \notin Ancestors(p)
                     /\ Cardinality(Chain(p)) < MaxRoleDepth
    /\ above' = [above EXCEPT ![x] = p]
    /\ sreq' = Overtaken(x, TRUE)
    /\ UNCHANGED stored

(* A statement fails or the process dies.                                  *)
SaveFail(r) ==
    /\ ~SaveAt(r, "idle")
    /\ SaveMove(r, SaveIdle)
    /\ UNCHANGED <<stored, above>>

SaveStep(r) ==
    \/ \E x \in MatrixRoles, full \in FullMatrices : SaveStart(r, x, full)
    \/ SaveGuard(r) \/ SaveReadRole(r) \/ SaveReadParent(r) \/ SaveWalk(r)
    \/ SaveWrite(r) \/ SaveFail(r)

RoleMatrixNext ==
    \/ \E r \in SaveRequests : SaveStep(r)
    \/ \E x \in MatrixRoles : \E p \in ParentsFor[x] \cup {NoRole} : Reparent(x, p)

RoleMatrixSpec == RoleMatrixInit /\ [][RoleMatrixNext]_matrixVars

-----------------------------------------------------------------------------
(* "Roles with a parent store ONLY the keys that differ from the parent's  *)
(* effective matrix": what is stored nevertheless resolves to the matrix   *)
(* that was submitted, unless an ancestor has changed since the save began *)
(* or the role has moved; other saves may overlap it.  Below a chain that  *)
(* is longer than MaxRoleDepth it need not: the parent's resolution reads  *)
(* a row higher than the role's own.                                       *)
SavedAsSubmitted ==
    [][\A r \in SaveRequests, x \in MatrixRoles :
         SaveWrite(r) /\ sreq[r].fresh /\ sreq[r].role = x /\ WithinDepth(x) =>
           Completed(Resolved(x))' = sreq[r].full]_matrixVars

(* "The self-lockout guard refuses a save that would leave the ACTING      *)
(* identity without console_access.manage_permissions": when nothing has   *)
(* been written meanwhile, it keeps the permission, unless another role it *)
(* holds inherits from the role saved, which the guard does not look at,   *)
(* or the saved role lies too deep to resolve to what is submitted.        *)
NoSelfLockout ==
    [][\A r \in SaveRequests :
         /\ r \in ActingRequests /\ SaveWrite(r) /\ sreq[r].alone
         /\ WithinDepth(sreq[r].role)
         /\ \A y \in HeldRoles : sreq[r].role \notin Ancestors(y)
         => Can(ActorGrants, ManageKey)']_matrixVars

=============================================================================
