---------------------------- MODULE ModuleResolver ----------------------------
(***************************************************************************)
(* Resolve of src/catalog/policymodules/resolver.go: the modules a         *)
(* selection needs, in the order they are applied, or why there is no such *)
(* plan.  One call, a visit at a time: its stack is the chain of modules   *)
(* whose dependencies are being visited (the grey ones), and a module that *)
(* is in the order is black.  Selected modules and dependencies are lists  *)
(* in any order, so any of them may come next; a visit to a black one does *)
(* nothing and is left out.                                                *)
(***************************************************************************)
EXTENDS Naturals, Sequences, Functions

CONSTANTS
    CatalogModules,
    FoesChoices,        \* what the catalogue can say of conflicts
    VersionedChoices,   \* and of modules with a published version
    Selections          \* what the user may have picked

ASSUME CatalogAssumption ==
    /\ FoesChoices \subseteq [CatalogModules -> SUBSET CatalogModules]
    /\ VersionedChoices \subseteq SUBSET CatalogModules
    /\ Selections \subseteq SUBSET CatalogModules

VARIABLES
    needs,      \* needs[m]: dependencies of the latest version of m
    foes,       \* foes[m]: its conflicts
    versioned,  \* modules of the catalogue with a published version
    selected,   \* the user's picks
    stack,      \* the modules being visited, each needed by the one before
    planOrder,  \* the plan's Order
    planAdded,  \* its AddedTransitively
    outcome     \* "none": not called yet; "visiting"; "plan"; or the error

resolverVars == <<needs, foes, versioned, selected, stack, planOrder, planAdded, outcome>>

Unreturned == {"none", "visiting"}

ResolverTypeOK ==
    /\ needs \in [CatalogModules -> SUBSET CatalogModules]
    /\ foes \in [CatalogModules -> SUBSET CatalogModules]
    /\ versioned \subseteq CatalogModules
    /\ selected \subseteq CatalogModules
    /\ {stack, planOrder, planAdded} \subseteq Seq(CatalogModules)
    /\ outcome \in Unreturned \cup {"plan", "cycle", "missing-dep", "conflict"}

ResolverInit ==
    /\ needs = [m \in CatalogModules |-> {}]
    /\ foes = [m \in CatalogModules |-> {}]
    /\ versioned = CatalogModules
    /\ selected = {}
    /\ stack = <<>> /\ planOrder = <<>> /\ planAdded = <<>>
    /\ outcome = "none"

(* The call, with any catalogue and selection.                             *)
Resolve ==
    /\ outcome = "none"
    /\ needs' \in [CatalogModules -> SUBSET CatalogModules]
    /\ foes' \in FoesChoices /\ versioned' \in VersionedChoices /\ selected' \in Selections
    /\ outcome' = "visiting"
    /\ UNCHANGED <<stack, planOrder, planAdded>>

-----------------------------------------------------------------------------
(* visit.                                                                  *)

Grey == Range(stack)

Black == Range(planOrder)

Visiting == stack[Len(stack)]

(* Whom the loop that is running goes through.                             *)
Wanted == IF stack = <<>> THEN selected ELSE needs[Visiting]

VisitGrey(m) ==
    /\ outcome = "visiting"
    /\ m \in Wanted \cap Grey
    /\ outcome' = "cycle"
    /\ UNCHANGED <<needs, foes, versioned, selected, stack, planOrder, planAdded>>

VisitUnversioned(m) ==
    /\ outcome = "visiting"
    /\ m \in Wanted \ (Grey \cup Black \cup versioned)
    /\ outcome' = "missing-dep"
    /\ UNCHANGED <<needs, foes, versioned, selected, stack, planOrder, planAdded>>

VisitWhite(m) ==
    /\ outcome = "visiting"
    /\ m \in (Wanted \cap versioned) \ (Grey \cup Black)
    /\ stack' = Append(stack, m)
    /\ UNCHANGED <<needs, foes, versioned, selected, planOrder, planAdded, outcome>>

(* Mutant: each module is put before those it needs.                       *)
EmitEarly(m) == <<m>> \o planOrder

Emit(m) == Append(planOrder, m)

(* The visit's loop is over: post-order.                                   *)
VisitDone ==
    /\ outcome = "visiting"
    /\ stack # <<>> /\ Wanted \subseteq Black
    /\ planOrder' = Emit(Visiting)
    /\ planAdded' = IF Visiting \in selected THEN planAdded ELSE Append(planAdded, Visiting)
    /\ stack' = SubSeq(stack, 1, Len(stack) - 1)
    /\ UNCHANGED <<needs, foes, versioned, selected, outcome>>

-----------------------------------------------------------------------------

(* Mutant: the conflicts of what came in transitively are not looked at.   *)
ConflictAmongSelected == \E m \in Black \cap selected : foes[m] \cap Black # {}

Conflict == \E m \in Black : foes[m] \cap Black # {}

(* The conflict pass, once every selected module has been visited.         *)
ResolveReturns ==
    /\ outcome = "visiting"
    /\ stack = <<>> /\ selected \subseteq Black
    /\ outcome' = IF Conflict THEN "conflict" ELSE "plan"
    /\ UNCHANGED <<needs, foes, versioned, selected, stack, planOrder, planAdded>>

ResolverNext ==
    \/ Resolve
    \/ \E m \in CatalogModules : VisitGrey(m) \/ VisitUnversioned(m) \/ VisitWhite(m)
    \/ VisitDone \/ ResolveReturns

ResolverSpec == ResolverInit /\ [][ResolverNext]_resolverVars

-----------------------------------------------------------------------------
(* Reference: the modules reachable from S over dependencies of catalogued *)
(* modules with a version, as the least set that is closed under them.     *)
ClosedUnderNeeds(T) == \A m \in T \cap versioned : needs[m] \subseteq T

Closure(S) ==
    {m \in CatalogModules :
       \A T \in SUBSET CatalogModules : S \subseteq T /\ ClosedUnderNeeds(T) => m \in T}

Below(m) == IF m \in versioned THEN Closure(needs[m]) ELSE {}

(* "topological order (deps first)": a plan holds the closure of the       *)
(* selection, each module once and after all it needs, and names as added  *)
(* those the user did not pick.                                            *)
PlanIsOrderedClosure ==
    outcome = "plan" =>
        /\ Black = Closure(selected) /\ IsInjective(planOrder)
        /\ \A i \in DOMAIN planOrder :
             needs[planOrder[i]] \subseteq {planOrder[j] : j \in 1 .. (i - 1)}
        /\ Range(planAdded) = Closure(selected) \ selected /\ IsInjective(planAdded)

(* "Fails closed on cycles, missing deps, or active conflicts in the       *)
(* catalog": there is a plan exactly when the closure has none of them,    *)
(* and an error names one it has.                                          *)
FailsClosed ==
    LET C == Closure(selected)
        missing == C \ versioned # {}
        cyclic == \E m \in C : m \in Below(m)
        conflicting == \E m \in C \cap versioned : foes[m] \cap C # {} IN
    outcome \notin Unreturned =>
        /\ outcome = "plan" <=> ~missing /\ ~cyclic /\ ~conflicting
        /\ outcome = "missing-dep" => missing
        /\ outcome = "cycle" => cyclic
        /\ outcome = "conflict" => conflicting /\ ~missing /\ ~cyclic

(* Resolve returns the right plan, and returns one exactly when it should. *)
PlanIsSound == PlanIsOrderedClosure /\ FailsClosed

=============================================================================
