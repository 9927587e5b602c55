------------------------------ MODULE VersionTests ------------------------------
(***************************************************************************)
(* The tests and the dependency list of one draft version as the editor's  *)
(* Dependencies tab changes them (policymodules_conditions.go and          *)
(* policy_module_deps.go under src/), and the list as the form of the      *)
(* other fields replaces it (policy_module_editor.go).  A new test takes   *)
(* the highest position and adds one; a dependency is added to the list    *)
(* the request read with the row, and the whole list is written back; the  *)
(* form writes whatever list was typed.                                    *)
(***************************************************************************)
EXTENDS Integers, Sequences, FiniteSets, FiniteSetsExt, Functions, Selections

CONSTANTS
    MaxTests,       \* how many tests are ever added
    Itself,         \* the module's own URN
    OtherModules,   \* URNs it can depend on
    MaxTyped,       \* how many URNs are typed into the form at once
    Editors         \* requests in flight

ASSUME TestConstants ==
    MaxTests \in Nat /\ MaxTyped \in Nat /\ Itself \notin OtherModules

VARIABLES
    open,           \* the version is a draft
    tests,          \* [id, seq, after]: the rows, and which rows there had
                    \* been before the adding request began (history)
    lastTest,       \* ids are never used twice
    mode,           \* conditions_match_mode
    deps,           \* depends_on: the URNs in list order
    mistyped,       \* the doubles of the lists that came with the draft or
                    \* were typed into the form (history)
    editor          \* editor[r]: the request's next statement and locals

testVars == <<open, tests, lastTest, mode, deps, mistyped, editor>>

TestRows == [id : 1 .. MaxTests, seq : 0 .. MaxTests, after : SUBSET (1 .. MaxTests)]

URNs == {Itself} \cup OtherModules

Urns(list) == {list[n] : n \in DOMAIN list}

(* The URNs that a list names twice, and the module's own.                 *)
Doubled(list) ==
    {list[n] : n \in {m \in DOMAIN list :
        list[m] = Itself \/ \E k \in DOMAIN list : k # m /\ list[k] = list[m]}}

(* Nothing but the commas of the field shapes a typed list.                *)
TypedLists == UNION {[1 .. n -> URNs] : n \in 0 .. MaxTyped}

EditorIdle == [next |-> "none", seq |-> 0, seen |-> {}, list |-> << >>]

EditorType == [next : {"none", "insert", "write"}, seq : 0 .. MaxTests,
               seen : SUBSET (1 .. MaxTests), list : Seq(URNs)]

(* A draft begins with the list of the version or the archive it is made   *)
(* from, a module's first one with none.                                   *)
TestsInit ==
    /\ open = TRUE
    /\ tests = {}
    /\ lastTest = 0
    /\ mode = "all"
    /\ deps \in TypedLists
    /\ mistyped = Doubled(deps)
    /\ editor = [r \in Editors |-> EditorIdle]

EditorAt(r, next) == editor[r].next = next

EditorDone(r) == editor' = [editor EXCEPT ![r] = EditorIdle]

-----------------------------------------------------------------------------
(* Tests.                                                                  *)

(* Mutant: the position is the number of tests.                            *)
TestCount == Cardinality(tests)

(* Mutant: the position of the last test, -1 if there is none.             *)
LastTestSeq == IF tests = {} THEN -1 ELSE Max({t.seq : t \in tests})

(* COALESCE(MAX(seq), -1) + 1                                              *)
NextTestSeq == IF tests = {} THEN 0 ELSE Max({t.seq : t \in tests}) + 1

AddVersionCondition(r) ==
    /\ EditorAt(r, "none")
    /\ editor' = [editor EXCEPT ![r] = [EditorIdle EXCEPT
         !.next = "insert", !.seq = NextTestSeq, !.seen = {t.id : t \in tests}]]
    /\ UNCHANGED <<open, tests, lastTest, mode, deps, mistyped>>

(* UNIQUE(version_id, seq) refuses the second of two overlapping requests.  *)
CreateVersionCondition(r) ==
    /\ EditorAt(r, "insert")
    /\ open
    /\ \A t \in tests : t.seq # editor[r].seq
    /\ lastTest < MaxTests
    /\ lastTest' = lastTest + 1
    /\ tests' = tests \cup {[id |-> lastTest', seq |-> editor[r].seq,
                             after |-> editor[r].seen]}
    /\ EditorDone(r)
    /\ UNCHANGED <<open, mode, deps, mistyped>>

RemoveVersionCondition(t) ==
    /\ open
    /\ tests' = tests \ {t}
    /\ UNCHANGED <<open, lastTest, mode, deps, mistyped, editor>>

SetConditionsMatchMode(m) ==
    /\ open
    /\ mode' = m
    /\ UNCHANGED <<open, tests, lastTest, deps, mistyped, editor>>

(* ListVersionConditions: ORDER BY seq.                                    *)
ListedBefore(t, u) == t.seq < u.seq

-----------------------------------------------------------------------------
(* Dependencies.  The row is read when the request is checked.             *)

(* Mutant: the refusal of a URN that is listed is lost.                    *)
DependableUnchecked(urn) == urn # Itself

Dependable(urn) == urn # Itself /\ urn \notin Urns(deps)

ListRead(r, list) ==
    /\ EditorAt(r, "none")
    /\ editor' = [editor EXCEPT ![r] = [EditorIdle EXCEPT !.next = "write", !.list = list]]
    /\ UNCHANGED <<open, tests, lastTest, mode, deps>>

ListWrite(r, list) == ListRead(r, list) /\ UNCHANGED mistyped

PolicyModuleDependencyAddURN(r, urn) ==
    Dependable(urn) /\ ListWrite(r, Append(deps, urn))

PolicyModuleDependencyRemoveURN(r, urn) ==
    ListWrite(r, KeepAt(deps, {n \in DOMAIN deps : deps[n] # urn}))

UpdateDraftDependsOn(r) ==
    /\ EditorAt(r, "write")
    /\ open
    /\ deps' = editor[r].list
    /\ EditorDone(r)
    /\ UNCHANGED <<open, tests, lastTest, mode, mistyped>>

(* An editor of other fields only writes the list it has read back.        *)
OtherFieldEdit(r) == ListWrite(r, deps)

(* The form's depends_on: split at the commas and stored as it is.         *)
TypeDependsOn(r, list) ==
    ListRead(r, list) /\ mistyped' = mistyped \cup Doubled(list)

(* A statement that fails, that finds the version frozen, or that never    *)
(* runs because the process has died.                                      *)
EditorFails(r) ==
    /\ ~EditorAt(r, "none")
    /\ EditorDone(r)
    /\ UNCHANGED <<open, tests, lastTest, mode, deps, mistyped>>

PublishVersion ==
    /\ open
    /\ open' = FALSE
    /\ UNCHANGED <<tests, lastTest, mode, deps, mistyped, editor>>

TestsNext ==
    \/ \E r \in Editors :
         \/ AddVersionCondition(r) \/ CreateVersionCondition(r)
         \/ \E urn \in URNs :
              PolicyModuleDependencyAddURN(r, urn) \/ PolicyModuleDependencyRemoveURN(r, urn)
         \/ OtherFieldEdit(r) \/ (\E list \in TypedLists : TypeDependsOn(r, list))
         \/ UpdateDraftDependsOn(r) \/ EditorFails(r)
    \/ \E t \in tests : RemoveVersionCondition(t)
    \/ \E m \in {"all", "any"} : SetConditionsMatchMode(m)
    \/ PublishVersion

TestsSpec == TestsInit /\ [][TestsNext]_testVars

-----------------------------------------------------------------------------

TestsTypeOK ==
    /\ open \in BOOLEAN
    /\ tests \subseteq TestRows
    /\ lastTest \in 0 .. MaxTests
    /\ mode \in {"all", "any"}
    /\ deps \in Seq(URNs)
    /\ mistyped \subseteq URNs
    /\ editor \in [Editors -> EditorType]

(* However adding requests overlap, and whatever is removed in between, a  *)
(* test that was there before a request began to add another is listed     *)
(* before that other one.                                                  *)
TestsListedAsAdded ==
    \A t, u \in tests : t.id \in u.after => ListedBefore(t, u)

(* However requests overlap, a module listed twice, or the module itself,  *)
(* is one that came with the draft or was typed into the form so: the tab  *)
(* adds none, and no stale list it writes back makes one.                  *)
DoublesWereTyped == Doubled(deps) \subseteq mistyped

(* Tests keep their order, and the list no doubles but those typed.        *)
EditorListsHold == TestsListedAsAdded /\ DoublesWereTyped

=============================================================================
