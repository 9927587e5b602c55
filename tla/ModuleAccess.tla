----------------------------- MODULE ModuleAccess -----------------------------
(***************************************************************************)
(* Who may view, edit and administer a policy module:                      *)
(* src/pkg/authz/modules.go, a decision over what its callers have loaded. *)
(* Ask puts any question.                                                  *)
(***************************************************************************)
EXTENDS Naturals, FiniteSets

CONSTANTS
    Self,           \* the session's identity, groups and roles
    Others,         \* identities, groups and roles that are not its own
    MaxGrantRows    \* bound on a module's module_grants rows

ASSUME SelfAssumption == Self \cap Others = {}
ASSUME MaxGrantRowsAssumption == MaxGrantRows \in Nat

VARIABLE question   \* the ModuleAccessInput

Levels == {"view", "edit", "admin"}

GrantRows == [subject : Self \cup Others, level : Levels]

(* OwnerID is nil for bundled modules (migration 007).                     *)
Questions ==
    {q \in [bypass  : BOOLEAN,      \* super admin
            manage  : BOOLEAN,      \* endpoint_policy.manage_modules
            view    : BOOLEAN,      \* endpoint_policy.view
            bundled : BOOLEAN,
            owner   : {"nil", "self", "other"},
            rows    : {S \in SUBSET GrantRows : Cardinality(S) <= MaxGrantRows}] :
       q.bundled => q.owner = "nil"}

NoQuestion == [bypass |-> FALSE, manage |-> FALSE, view |-> FALSE,
               bundled |-> FALSE, owner |-> "nil", rows |-> {}]

Ask(q) ==
    /\ question = NoQuestion
    /\ question' = q

AccessInit == question = NoQuestion

AccessNext == \E q \in Questions : Ask(q)

AccessSpec == AccessInit /\ [][AccessNext]_question

AccessTypeOK == question \in Questions

ModuleLevelRank == [view |-> 1, edit |-> 2, admin |-> 3]

(* Mutant: only a row of exactly the level required counts.                *)
HasLevelExactly(q, required) ==
    \E g \in q.rows : g.level = required /\ g.subject \in Self

HasExplicitLevel(q, required) ==
    \E g \in q.rows :
        /\ ModuleLevelRank[g.level] >= ModuleLevelRank[required]
        /\ g.subject \in Self

Owns(q) == q.owner = "self"

ModuleCanView(q) ==
    \/ q.bypass \/ q.manage \/ Owns(q) \/ HasExplicitLevel(q, "view")
    \/ q.bundled /\ q.view

ModuleCanEdit(q) ==
    \/ q.bypass
    \/ ~q.bundled /\ (q.manage \/ Owns(q) \/ HasExplicitLevel(q, "edit"))

ModuleCanAdmin(q) ==
    \/ q.bypass
    \/ ~q.bundled /\ (q.manage \/ Owns(q) \/ HasExplicitLevel(q, "admin"))

-----------------------------------------------------------------------------
(* "a higher level implies every lower one (admin, edit, view)", whatever  *)
(* the level comes from: who may administer a module may edit it, and who  *)
(* may edit it may view it; and a module grant of Self that is added never *)
(* takes a level away.                                                     *)
AccessLevelsNest ==
    /\ ModuleCanAdmin(question) => ModuleCanEdit(question)
    /\ ModuleCanEdit(question) => ModuleCanView(question)
    /\ \A g \in question.rows :
         LET fewer == [question EXCEPT !.rows = @ \ {g}] IN
         /\ ModuleCanView(fewer) => ModuleCanView(question)
         /\ ModuleCanEdit(fewer) => ModuleCanEdit(question)
         /\ ModuleCanAdmin(fewer) => ModuleCanAdmin(question)

=============================================================================
