----------------------- MODULE VersionLifecycle_proofs -----------------------
(***************************************************************************)
(* Proofs about the promised lifecycle, for any sets of modules and        *)
(* versions.  Whatever implements VersionLifecycle inherits them.          *)
(***************************************************************************)
EXTENDS VersionLifecycle, TLAPS

LEMMA LifecycleStepTyped == ASSUME TypeOK, [Next]_vars PROVE TypeOK'
<1>1. /\ vstate' \in [Versions -> VersionStates]
      /\ vmodule' \in [Versions -> Modules \cup {None}]
  BY DEF TypeOK, VersionStates, vars, Next, Create, Publish, AfterPublish,
         Deployable, Revoke, Discard, Remove
<1>2. live' \subseteq live
  BY DEF vars, Next, Create, Publish, Revoke, Discard, Remove
<1> QED BY <1>1, <1>2 DEF TypeOK

(* The lifecycle's variables keep their types.                             *)
THEOREM LifecycleTypeCorrect == Spec => []TypeOK
<1>1. ASSUME Init PROVE TypeOK
  BY <1>1 DEF Init, VersionStates, TypeOK
<1> QED BY LifecycleStepTyped, <1>1, PTL DEF Spec

-----------------------------------------------------------------------------
(* Both promises, inductive together given the types.                      *)
Promises == AtMostOnePublished /\ SupersededHasSuccessor

(* What can stand as the successor of a superseded version.                *)
Successors == {"published", "revoked"}

(* A publication puts v in the place of what its module had published.     *)
LEMMA PublishingRetires ==
    ASSUME TypeOK, NEW v \in Versions, Publish(v)
    PROVE  /\ vstate'[v] = "published" /\ vmodule' = vmodule
           /\ \A x \in Versions \ {v} :
                vstate'[x] = IF vstate[x] = "published" /\ vmodule[x] = vmodule[v]
                             THEN "superseded" ELSE vstate[x]
BY DEF TypeOK, Publish, AfterPublish

(* Any other step makes no version published or superseded, moves none to  *)
(* another module, and takes a successor away only with the whole module.  *)
LEMMA OnlyPublishingPromotes ==
    ASSUME TypeOK, [Next]_vars, \A v \in Versions : ~Publish(v), NEW x \in Versions
    PROVE  /\ vstate'[x] \in {"published", "superseded"} => vstate'[x] = vstate[x]
           /\ vstate[x] # "unused" => vmodule'[x] = vmodule[x]
           /\ vstate[x] \in Successors /\ vstate'[x] \notin Successors =>
                \A y \in Versions : vmodule'[y] = vmodule[x] => vstate'[y] = "deleted"
<1> USE DEF TypeOK, Successors
<1>1. CASE \E v \in Versions, m \in Modules : Create(v, m)
  BY <1>1 DEF Create
<1>2. CASE \E v \in Versions : Revoke(v) \/ Discard(v)
  BY <1>2 DEF Revoke, Discard
<1>3. CASE \E m \in Modules : Remove(m)
  BY <1>3 DEF Remove
<1> QED BY <1>3, <1>2, <1>1 DEF Next, vars

(* After a publication of v, v is what its module has published, and the   *)
(* successor of whatever it retired.                                       *)
LEMMA PublishingKeepsPromises ==
    ASSUME TypeOK, Promises, NEW v \in Versions, Publish(v)
    PROVE  Promises'
<1>1. ASSUME NEW x \in Versions, vstate'[x] = "published", vmodule[x] = vmodule[v]
      PROVE  x = v
  BY <1>1, PublishingRetires
<1>2. ASSUME NEW x \in Versions, vmodule[x] # vmodule[v]
      PROVE  vstate'[x] = vstate[x]
  BY <1>2, PublishingRetires
<1>3. AtMostOnePublished'
  BY <1>1, <1>2, PublishingRetires DEF Promises, AtMostOnePublished
<1>4. ASSUME NEW x \in Versions, vstate'[x] = "superseded"
      PROVE  \E w \in Versions : vmodule[w] = vmodule[x] /\ vstate'[w] \in Successors
  <2>1. CASE vmodule[x] = vmodule[v]
    BY <2>1, PublishingRetires DEF Successors
  <2>2. CASE vmodule[x] # vmodule[v]
    <3>1. PICK w \in Versions : vmodule[w] = vmodule[x] /\ vstate[w] \in Successors
      BY <1>2, <1>4, <2>2 DEF Promises, SupersededHasSuccessor, Successors
    <3> QED BY <1>2, <2>2, <3>1
  <2> QED BY <2>1, <2>2
<1>5. SupersededHasSuccessor'
  BY <1>4, PublishingRetires DEF SupersededHasSuccessor, Successors
<1> QED BY <1>3, <1>5 DEF Promises

LEMMA OtherStepsKeepPromises ==
    ASSUME TypeOK, Promises, [Next]_vars, \A v \in Versions : ~Publish(v)
    PROVE  Promises'
<1>1. AtMostOnePublished'
  <2> SUFFICES ASSUME NEW v \in Versions, NEW w \in Versions,
                      {vstate'[v], vstate'[w]} = {"published"}, vmodule'[v] = vmodule'[w]
               PROVE  v = w
    BY DEF AtMostOnePublished
  <2>1. vstate[v] = "published" /\ vstate[w] = "published" /\ vmodule[v] = vmodule[w]
    BY OnlyPublishingPromotes
  <2> QED BY <2>1 DEF Promises, AtMostOnePublished
<1>2. SupersededHasSuccessor'
  <2> SUFFICES ASSUME NEW x \in Versions, vstate'[x] = "superseded"
               PROVE  \E w \in Versions : vmodule'[w] = vmodule'[x] /\ vstate'[w] \in Successors
    BY DEF SupersededHasSuccessor, Successors
  <2>1. vstate[x] = "superseded" /\ vmodule'[x] = vmodule[x]
    BY OnlyPublishingPromotes
  <2>2. PICK w \in Versions : vmodule[w] = vmodule[x] /\ vstate[w] \in Successors
    BY <2>1 DEF Promises, SupersededHasSuccessor, Successors
  <2>3. vmodule'[w] = vmodule[w]
    BY <2>2, OnlyPublishingPromotes DEF Successors
  <2>4. vstate'[w] \in Successors
    BY <2>1, <2>2, OnlyPublishingPromotes
  <2> QED BY <2>1, <2>2, <2>3, <2>4
<1> QED BY <1>1, <1>2 DEF Promises

(* A module never has two published versions, and a superseded version     *)
(* never stands without a successor: for any modules and versions.         *)
THEOREM LifecyclePromises == Spec => []Promises
<1>1. Init => Promises
  BY DEF Promises, AtMostOnePublished, SupersededHasSuccessor, Init
<1>2. ASSUME TypeOK, Promises, [Next]_vars PROVE Promises'
  BY <1>2, PublishingKeepsPromises, OtherStepsKeepPromises
<1> QED BY LifecycleTypeCorrect, <1>1, <1>2, PTL DEF Spec

=============================================================================
