-------------------------------- MODULE Accounts --------------------------------
(***************************************************************************)
(* Who can sign in at all.  The first-run wizard creates an organization   *)
(* and its super admin in several statements, the password last; signed-in *)
(* users create users, change addresses and flags, delete, restore and     *)
(* purge; a login names an address and no tenant, and is refused to an     *)
(* account that is locked or disabled.  (console/handlers/auth.go,         *)
(* handlers.go, field_api.go and identity_bulk.go, pkg/auth/middleware.go  *)
(* and session.go under src/.)  How failures are counted is module Logins. *)
(***************************************************************************)
EXTENDS Naturals, FiniteSets

CONSTANTS
    LastPerson,     \* identity row ids go from 1, in turn, to this bound
    Orgs,           \* organizations, by slug
    Emails,
    Forms,          \* what is filled into the wizard: [org, email]
    Wizards,        \* wizard requests in flight
    Visits,         \* browsers
    Absent

People == 1 .. LastPerson

ASSUME AbsentIsNobody == LastPerson \in Nat /\ Absent \notin People \cup Orgs

ASSUME FormsAssumption == Forms \subseteq [org : Orgs, email : Emails]

(* A form belongs to one person: it may be sent twice.                     *)
ASSUME FormsDiffer ==
    \A f, g \in Forms : f = g \/ (f.org # g.org /\ f.email # g.email)

VARIABLES
    orgs,           \* the tenants' slugs
    person,         \* person[p]: the identity row
    wizard,         \* wizard[w]: the wizard's next statement, form and identity
    visit,          \* visit[v]: the session's identity and active_tenant_id,
                    \* and the change that has passed its checks
    mishaps         \* history: "cut", a wizard stopped between its identity
                    \* and its password; "shared", an address given to a
                    \* second identity; "crossed", a change by an identity
                    \* deleted since it was checked

accountVars == <<orgs, person, wizard, visit, mishaps>>

Unborn == [state |-> "none", org |-> Absent, email |-> Absent, password |-> FALSE,
           super |-> FALSE, assigned |-> FALSE, barred |-> FALSE]

WizardIdle == [next |-> "none", form |-> Absent, who |-> Absent]

SignedOut == [of |-> Absent, org |-> Absent, change |-> "none", whom |-> Absent]

AccountsInit ==
    /\ orgs = {}
    /\ person = [p \in People |-> Unborn]
    /\ wizard = [w \in Wizards |-> WizardIdle]
    /\ visit = [v \in Visits |-> SignedOut]
    /\ mishaps = {}

Active(p) == person[p].state = "active"

(* CountIdentitiesGlobal: with none, SetupGate sends everybody to /setup.  *)
GateClosed == \E p \in People : Active(p)

(* Another identity has the address already.                               *)
Shares(p, email) == \E q \in People \ {p} : Active(q) /\ person[q].email = email

Recorded(shared) == mishaps' = IF shared THEN mishaps \cup {"shared"} ELSE mishaps

(* UNIQUE(tenant_id, email): rows in the bin included.                     *)
EmailFree(p, org, email) ==
    \A q \in People \ {p} :
      person[q].state \in {"active", "binned"} => ~(person[q].org = org /\ person[q].email = email)

CreateIdentity(p, row) ==
    /\ {q \in People : person[q] = Unborn} = p .. LastPerson
    /\ EmailFree(p, row.org, row.email)
    /\ person' = [person EXCEPT ![p] = row]
    /\ Recorded(Shares(p, row.email))

-----------------------------------------------------------------------------
(* The wizard.                                                             *)

WizardAt(w, next) == wizard[w].next = next

(* tenants.slug is UNIQUE: a form sent twice is refused the second time.   *)
SlugFree(org) == org \notin orgs

SetupSubmit(w, f) ==
    /\ WizardAt(w, "none")
    /\ SlugFree(f.org)
    /\ orgs' = orgs \cup {f.org}
    /\ wizard' = [wizard EXCEPT ![w] = [next |-> "identity", form |-> f, who |-> Absent]]
    /\ UNCHANGED <<person, visit, mishaps>>

SetupIdentity(w, p) ==
    /\ WizardAt(w, "identity")
    /\ CreateIdentity(p, [Unborn EXCEPT !.state = "active", !.org = wizard[w].form.org,
                            !.email = wizard[w].form.email, !.super = TRUE])
    /\ wizard' = [wizard EXCEPT ![w].next = "builtins", ![w].who = p]
    /\ UNCHANGED <<orgs, visit>>

(* Roles, the admin's assignment, grants and dependency groups: whatever   *)
(* of it fails, the wizard goes on.                                        *)
SetupBuiltins(w) ==
    /\ WizardAt(w, "builtins")
    /\ \E done \in BOOLEAN : person' = [person EXCEPT ![wizard[w].who].assigned =
                                          done /\ person[wizard[w].who].state # "gone"]
    /\ wizard' = [wizard EXCEPT ![w].next = "password"]
    /\ UNCHANGED <<orgs, visit, mishaps>>

SetIdentityPasswordHash(w) ==
    LET p == wizard[w].who IN
    /\ WizardAt(w, "password")
    /\ person' = [person EXCEPT ![p].password = person[p].state # "gone"]
    /\ wizard' = [wizard EXCEPT ![w] = WizardIdle]
    /\ UNCHANGED <<orgs, visit, mishaps>>

(* An error page, or the death of the process.                             *)
SetupCutShort(w) ==
    /\ ~WizardAt(w, "none")
    /\ wizard' = [wizard EXCEPT ![w] = WizardIdle]
    /\ mishaps' = IF wizard[w].who = Absent THEN mishaps ELSE mishaps \cup {"cut"}
    /\ UNCHANGED <<orgs, person, visit>>

-----------------------------------------------------------------------------
(* Sessions.                                                               *)

SignedIn(v) == visit[v].of # Absent /\ Active(visit[v].of)

(* GetByEmailGlobal fails unless exactly one identity has the address.     *)
GetByEmailGlobal(email) ==
    LET found == {p \in People : Active(p) /\ person[p].email = email} IN
    IF Cardinality(found) = 1 THEN found ELSE {}

(* barred: the account is locked or not enabled.                           *)
Admits(p) == ~person[p].barred

(* Whom the address and a right password sign in.                          *)
AcceptedAs(email) ==
    {p \in GetByEmailGlobal(email) : Admits(p) /\ person[p].password}

LoginSubmit(v, email) ==
    /\ \E p \in AcceptedAs(email) :
         visit' = [visit EXCEPT ![v] = [SignedOut EXCEPT !.of = p]]
    /\ UNCHANGED <<orgs, person, wizard, mishaps>>

(* The wrong password that reaches the threshold; while it was compared    *)
(* the row may have been changed or deleted.                               *)
LockIdentityIfThresholdExceeded(p) ==
    /\ person[p].password
    /\ person' = [person EXCEPT ![p].barred = TRUE]
    /\ UNCHANGED <<orgs, wizard, visit, mishaps>>

LogoutSubmit(v) ==
    /\ visit' = [visit EXCEPT ![v] = SignedOut]
    /\ UNCHANGED <<orgs, person, wizard, mishaps>>

TenantSwitchSubmit(v, org) ==
    /\ SignedIn(v) /\ person[visit[v].of].super /\ org \in orgs
    /\ visit' = [visit EXCEPT ![v].org = org]
    /\ UNCHANGED <<orgs, person, wizard, mishaps>>

(* RequireAuth: the tenant a request of the session acts in.               *)
EffectiveTenant(v) ==
    LET p == person[visit[v].of] IN
    IF p.super /\ visit[v].org # Absent THEN visit[v].org ELSE p.org

(* Any recomputation of the cached role: see module RoleCache.             *)
RoleRecomputed(p) ==
    /\ Active(p)
    /\ person' = [person EXCEPT ![p].super = person[p].assigned]
    /\ UNCHANGED <<orgs, wizard, visit, mishaps>>

-----------------------------------------------------------------------------
(* What signed-in users do.  Deletions are checked, then carried out.      *)

UserCreateSubmit(v, p, email) ==
    /\ SignedIn(v)
    /\ CreateIdentity(p, [Unborn EXCEPT !.state = "active", !.email = email,
                            !.org = EffectiveTenant(v)])
    /\ UNCHANGED <<orgs, wizard, visit>>

(* By id, whatever the tenant.                                             *)
UserUpdateSubmit(v, p, email) ==
    /\ SignedIn(v) /\ Active(p)
    /\ EmailFree(p, person[p].org, email)
    /\ person' = [person EXCEPT ![p].email = email]
    /\ Recorded(Shares(p, email))
    /\ UNCHANGED <<orgs, wizard, visit>>

(* Every edit writes both flags: what was typed, or what was read before.  *)
UserFieldUpdate(v, p, barred) ==
    /\ SignedIn(v) /\ Active(p) /\ person[p].org = EffectiveTenant(v)
    /\ person' = [person EXCEPT ![p].barred = barred]
    /\ UNCHANGED <<orgs, wizard, visit, mishaps>>

(* Mutant: users may delete themselves.                                    *)
Anybody(v, p) == TRUE

NotOneself(v, p) == visit[v].of # p

Changes == {"delete", "purge", "restore"}

IdentityBulk(v, p, change) ==
    /\ SignedIn(v) /\ visit[v].change = "none"
    /\ change # "restore" => NotOneself(v, p)
    /\ person[p].state # "none" /\ person[p].org = EffectiveTenant(v)
    /\ visit' = [visit EXCEPT ![v].change = change, ![v].whom = p]
    /\ UNCHANGED <<orgs, person, wizard, mishaps>>

(* Soft delete, restore, and delete for good; sessions go with the row.    *)
ChangedTo(p, change) ==
    CASE change = "delete" /\ Active(p) -> "binned"
      [] change = "restore" /\ person[p].state = "binned" -> "active"
      [] change = "purge" -> "gone"
      [] OTHER -> person[p].state

CarryOut(v) ==
    LET p == visit[v].whom
        state == ChangedTo(p, visit[v].change)
        gone == state = "gone"
    IN
    /\ visit[v].change # "none"
    /\ person' = [person EXCEPT ![p].state = state,
                                ![p].password = person[p].password /\ ~gone]
    /\ visit' = [u \in Visits |->
         IF gone /\ visit[u].of = p /\ u # v THEN [visit[u] EXCEPT !.of = Absent]
         ELSE IF u = v THEN [visit[u] EXCEPT !.change = "none", !.whom = Absent]
         ELSE visit[u]]
    /\ mishaps' = mishaps
         \cup (IF SignedIn(v) THEN {} ELSE {"crossed"})
         \cup (IF state = "active" /\ Shares(p, person[p].email) THEN {"shared"} ELSE {})
    /\ UNCHANGED <<orgs, wizard>>

AccountsNext ==
    \/ \E w \in Wizards :
         \/ \E f \in Forms : SetupSubmit(w, f)
         \/ \E p \in People : SetupIdentity(w, p)
         \/ SetupBuiltins(w) \/ SetIdentityPasswordHash(w) \/ SetupCutShort(w)
    \/ \E v \in Visits :
         \/ \E e \in Emails : LoginSubmit(v, e)
         \/ LogoutSubmit(v) \/ CarryOut(v)
         \/ \E org \in Orgs : TenantSwitchSubmit(v, org)
         \/ \E p \in People, e \in Emails : UserCreateSubmit(v, p, e) \/ UserUpdateSubmit(v, p, e)
         \/ \E p \in People, barred \in BOOLEAN : UserFieldUpdate(v, p, barred)
         \/ \E p \in People, change \in Changes : IdentityBulk(v, p, change)
    \/ \E p \in People : RoleRecomputed(p) \/ LockIdentityIfThresholdExceeded(p)

AccountsSpec == AccountsInit /\ [][AccountsNext]_accountVars

-----------------------------------------------------------------------------

AccountsTypeOK ==
    /\ orgs \subseteq Orgs
    /\ \A p \in People :
         /\ person[p].state \in {"none", "active", "binned", "gone"}
         /\ person[p].org \in orgs \cup {Absent}
         /\ {person[p].password, person[p].super, person[p].assigned, person[p].barred}
              \subseteq BOOLEAN
    /\ \A w \in Wizards : wizard[w].next \in {"none", "identity", "builtins", "password"}
    /\ \A v \in Visits : visit[v].of \in People \cup {Absent}
    /\ mishaps \subseteq {"cut", "shared", "crossed"}

(* Once the wizard is closed, somebody can sign in and open what it closed *)
(* behind: unless a wizard was cut short, an address is shared, a deletion *)
(* was carried out for somebody deleted meanwhile, or an account with a    *)
(* password is locked or disabled now, there is one that a login accepts.  *)
SomebodyCanSignIn ==
    /\ GateClosed /\ mishaps = {}
    /\ \A w \in Wizards : wizard[w].who = Absent
    /\ \A p \in People : Active(p) /\ person[p].password => Admits(p)
    => \E e \in Emails : AcceptedAs(e) # {}

=============================================================================
