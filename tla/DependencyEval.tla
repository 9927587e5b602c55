---------------------------- MODULE DependencyEval ----------------------------
(***************************************************************************)
(* The three-valued evaluation of a module's dependency groups against     *)
(* what a device has reported: src/catalog/dependencygroups/eval.go.       *)
(* Configure gives the module its links; Report adds facts one by one, as  *)
(* inventory arrives and scripts are run.                                  *)
(*                                                                         *)
(* A condition is the key of its fact and, as constants, the values its    *)
(* operator and operands accept and those they can be compared with.  A    *)
(* group is the set of its conditions: their order only decides which of   *)
(* them are looked at.  Links whose group is gone are skipped in the code  *)
(* and left out here.                                                      *)
(***************************************************************************)
EXTENDS Naturals, FiniteSets

CONSTANTS
    Conditions,     \* conditions groups are made of
    FactKey,        \* FactKey[c]: the fact c is about
    Scripts,        \* conditions on the output of a script or a command
    Holds,          \* Holds[c]: values its operator and operands accept
    Comparable,     \* Comparable[c]: values they can be compared with at all
    FactValues,
    MaxConditions   \* bound on the conditions of a group

FactKeys == {FactKey[c] : c \in Conditions}

ASSUME HoldsAssumption ==
    \A c \in Conditions : Holds[c] \subseteq Comparable[c]
ASSUME ComparableAssumption ==
    \A c \in Conditions : Comparable[c] \subseteq FactValues
ASSUME ScriptsAssumption == Scripts \subseteq Conditions
ASSUME MaxConditionsAssumption == MaxConditions \in Nat

VARIABLES
    links,      \* groups linked to the module, per role
    facts       \* facts[k]: the value reported, or "absent"

evalVars == <<links, facts>>

DepGroups == [match : {"all", "any"},
              conditions : {S \in SUBSET Conditions :
                              Cardinality(S) <= MaxConditions}]

NoLinks == [platform |-> {}, requirement |-> {}]

EvalTypeOK ==
    /\ links \in [platform : SUBSET DepGroups, requirement : SUBSET DepGroups]
    /\ facts \in [FactKeys -> FactValues \cup {"absent"}]

EvalInit ==
    /\ links = NoLinks
    /\ facts = [k \in FactKeys |-> "absent"]

(* Links are set once, of at most two platforms and one requirement (a     *)
(* bound on the model).                                                    *)
Configure(platforms, requirements) ==
    /\ links = NoLinks
    /\ links' = [platform |-> platforms, requirement |-> requirements]
    /\ UNCHANGED facts

Report(k, v) ==
    /\ facts[k] = "absent"
    /\ facts' = [facts EXCEPT ![k] = v]
    /\ UNCHANGED links

EvalNext ==
    \/ \E P \in {{}} \cup {{g, h} : g, h \in DepGroups},
          R \in {{}} \cup {{g} : g \in DepGroups} : Configure(P, R)
    \/ \E k \in FactKeys, v \in FactValues : Report(k, v)

EvalSpec == EvalInit /\ [][EvalNext]_evalVars

-----------------------------------------------------------------------------
Verdict(b) == IF b THEN "pass" ELSE "fail"

(* evalOperator.  A value that does not parse as a number, an operand that *)
(* is missing and a pattern that does not compile are not comparable.      *)
EvalOperator(c, v) ==
    IF v \notin Comparable[c] THEN "unknown" ELSE Verdict(v \in Holds[c])

(* evalCondition and evalScriptCondition: a script that exited with an     *)
(* error fails without a look at its operator.                             *)
EvalCondition(c) ==
    LET v == facts[FactKey[c]] IN
    IF v = "absent" THEN "unknown"
    ELSE IF c \in Scripts /\ v = "exit-fail" THEN "fail"
    ELSE EvalOperator(c, v)

Verdicts(g) == {EvalCondition(c) : c \in g.conditions}

(* evalGroupAll: a definitive fail dominates an unknown.                   *)
EvalGroupAll(g) ==
    IF "fail" \in Verdicts(g) THEN "fail"
    ELSE IF "unknown" \in Verdicts(g) THEN "unknown" ELSE "pass"

(* Mutant: what has not been reported does not count.                      *)
EvalGroupAnyReported(g) == IF "pass" \in Verdicts(g) THEN "pass" ELSE "fail"

(* evalGroupAny: a definitive pass dominates an unknown.                   *)
EvalGroupAny(g) ==
    IF "pass" \in Verdicts(g) THEN "pass"
    ELSE IF "unknown" \in Verdicts(g) THEN "unknown" ELSE "fail"

EvalDepGroup(g) == IF g.match = "any" THEN EvalGroupAny(g) ELSE EvalGroupAll(g)

(* Mutant: a module without platforms runs on none.                        *)
PlatformStrict ==
    LET vs == {EvalDepGroup(g) : g \in links.platform}
    IN IF "pass" \in vs THEN "pass"
       ELSE IF "unknown" \in vs THEN "unknown" ELSE "fail"

(* Any platform; without one the module is agnostic.                       *)
PlatformOK ==
    LET vs == {EvalDepGroup(g) : g \in links.platform}
    IN IF vs = {} \/ "pass" \in vs THEN "pass"
       ELSE IF "unknown" \in vs THEN "unknown" ELSE "fail"

(* All requirements.                                                       *)
RequirementOK ==
    LET vs == {EvalDepGroup(g) : g \in links.requirement}
    IN IF "fail" \in vs THEN "fail"
       ELSE IF "unknown" \in vs THEN "unknown" ELSE "pass"

(* Eligible.                                                               *)
Eligible ==
    IF "fail" \in {PlatformOK, RequirementOK} THEN "ineligible"
    ELSE IF {PlatformOK, RequirementOK} = {"pass"} THEN "eligible"
    ELSE "unknown"

-----------------------------------------------------------------------------
(* "A fact absent from facts is always unknown, never a false pass or      *)
(* fail": what a device reports later never overturns a module found       *)
(* eligible or ineligible without it.                                      *)
DecidedStaysDecided ==
    [][links' = links /\ Eligible # "unknown" => Eligible' = Eligible]_evalVars

(* When every condition can be told, the verdict is that of the two-valued *)
(* formula: one platform, if there are any, and every requirement.         *)
ClassicalWhenReported ==
    LET Cs == UNION {g.conditions : g \in links.platform \cup links.requirement}
        true(c) == EvalCondition(c) = "pass"
        holds(g) == IF g.match = "any" THEN \E c \in g.conditions : true(c)
                    ELSE \A c \in g.conditions : true(c) IN
    (\A c \in Cs : EvalCondition(c) # "unknown") =>
        Eligible = IF /\ \/ links.platform = {}
                         \/ \E g \in links.platform : holds(g)
                      /\ \A g \in links.requirement : holds(g)
                   THEN "eligible" ELSE "ineligible"

(* The three-valued evaluation is sound: it agrees with the two-valued one *)
(* where every condition can be told, and decides nothing too early.       *)
EvaluationIsSound == []ClassicalWhenReported /\ DecidedStaysDecided

=============================================================================
