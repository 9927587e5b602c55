--------------------------- MODULE Groups_proofs ----------------------------
(***************************************************************************)
(* Theorems about groups: who may take a membership row away and what an   *)
(* evaluation of the rules leaves (GroupMembership), what a direct         *)
(* assignment leaves and a resolution sees (ConfigAssignments), and the plan*)
(* for a group of selected modules (ModuleResolver); for any groups,       *)
(* identities, rules, policies, modules and requests.                      *)
(***************************************************************************)
EXTENDS GroupMembership, ConfigAssignments, ModuleResolver, FiniteSetTheorems, TLAPS

-----------------------------------------------------------------------------
(* GroupMembership.                                                        *)

(* What the requests read of the database.                                 *)
Db == [source |-> source, kind |-> memberKind, match |-> matchMode,
       rules |-> rules, hidden |-> hidden]

Reconciling == {"list", "direct", "current", "write"}

(* The members the rules ask for.                                          *)
Asked(db) == Passing(db.rules, db.match) \ db.hidden

(* The population of one side is what the rules ask for.                   *)
Settled(side, db) ==
    \A m \in Population(side) :
        db.source[m] = "rule" <=> m \in Asked(db) /\ db.source[m] # "direct"

(* The columns of the group row that q has read are still the row's.       *)
ColumnsKnown(q, db) ==
    /\ q.pc = "rules" => q.match = db.match
    /\ q.pc \in {"rules"} \cup Reconciling => q.kind = db.kind
    /\ q.pc = "clear" => db.rules = {}

(* What q has worked out from the rules, and the side it has left behind.  *)
SidesInOrder(q, db) ==
    q.pc \in Reconciling =>
        /\ db.rules # {}
        /\ q.pass = Passing(db.rules, db.match)
        /\ q.side \in SidesOf(q.kind)
        /\ q.side = "identity" /\ "asset" \in SidesOf(q.kind) => Settled("asset", db)

(* A member of the side being written: still to be added, still to be      *)
(* deleted, or as the rules ask.                                           *)
SideWritten(q, m, db) ==
    /\ m \in q.add => db.source[m] = "none" /\ m \in Asked(db)
    /\ m \in q.del => db.source[m] = "rule" /\ m \notin Asked(db)
    /\ m \notin q.add \cup q.del =>
         (db.source[m] = "rule" <=> m \in Asked(db) /\ db.source[m] # "direct")

(* The lists q has read are still those of the database.                   *)
ListsKnown(q, db) ==
    /\ q.pc \in {"direct", "current"} =>
         \A m \in Members : m \in q.found <=> m \in Asked(db) \cap Population(q.side)
    /\ q.pc = "current" =>
         \A m \in Population(q.side) : m \in q.direct <=> db.source[m] = "direct"
    /\ q.pc = "write" =>
         /\ q.add \cup q.del \subseteq Population(q.side)
         /\ \A m \in Population(q.side) : SideWritten(q, m, db)

(* What the checks made before a delete or an update of the row have seen. *)
ChecksStand(q, db) ==
    /\ q.pc = "remove" => q.member \in Members /\ db.source[q.member] = "direct"
    /\ q.pc = "meta" /\ q.kind # "mixed" =>
         \A m \in Excluded(q.kind) \ db.hidden : db.source[m] = "none"

AllSettled(db) ==
    IF db.rules = {} THEN \A m \in Members : db.source[m] # "rule"
    ELSE \A side \in SidesOf(db.kind) : Settled(side, db)

(* When nobody has written beside q, what it knows is true.                *)
Knows(q, db) ==
    q.clean => /\ ColumnsKnown(q, db) /\ SidesInOrder(q, db)
               /\ ListsKnown(q, db) /\ ChecksStand(q, db)
               /\ q.pc = "total" => AllSettled(db)

MembershipInv == MembershipTypeOK /\ \A r \in GroupRequests : Knows(greq[r], Db)

-----------------------------------------------------------------------------
(* A step of one request.  The others keep what they know: either nothing  *)
(* they have read changes, or they are no longer alone.                    *)

Reads == <<source, memberKind, membership, matchMode, rules, hidden>>

LEMMA IdleKnows == ASSUME NEW q, NEW db, q.pc \in {"idle", "rule", "group", "count"} PROVE Knows(q, db)
BY DEF Knows, ColumnsKnown, SidesInOrder, ListsKnown, ChecksStand, Reconciling

LEMMA UncleanKnows == ASSUME NEW q, NEW db, ~q.clean PROVE Knows(q, db)
BY DEF Knows

LEMMA MoveKeepsInv ==
    ASSUME MembershipInv, NEW r \in GroupRequests, NEW q \in GroupRequestType,
           GroupMove(r, q), UNCHANGED Reads,
           Knows(q, Db)
    PROVE  MembershipInv'
<1>1. Db' = Db
  BY DEF Db, Reads
<1>2. greq' = [greq EXCEPT ![r] = q] /\ greq \in [GroupRequests -> GroupRequestType]
  BY DEF GroupMove, MembershipInv, MembershipTypeOK
<1>3. MembershipTypeOK'
  BY <1>2 DEF MembershipInv, MembershipTypeOK, Reads
<1>4. ASSUME NEW s \in GroupRequests PROVE Knows(greq'[s], Db')
  <2>1. CASE s = r
    BY <1>1, <1>2, <2>1
  <2>2. CASE s # r
    BY <1>1, <1>2, <2>2 DEF MembershipInv
  <2> QED BY <2>1, <2>2
<1> QED BY <1>3, <1>4 DEF MembershipInv

LEMMA WriteKeepsInv ==
    ASSUME MembershipInv, NEW r \in GroupRequests, NEW q \in GroupRequestType,
           GroupWrite(r, q),
           source' \in [Members -> {"none", "direct", "rule"}], memberKind' \in Kinds,
           membership' \in {"static", "dynamic"}, matchMode' \in {"all", "any"},
           rules' \subseteq Rules, UNCHANGED hidden,
           Knows(q, Db')
    PROVE  MembershipInv'
<1>1. greq \in [GroupRequests -> GroupRequestType]
  BY DEF MembershipInv, MembershipTypeOK
<1>2. ASSUME NEW s \in GroupRequests
      PROVE  greq'[s] \in GroupRequestType /\ Knows(greq'[s], Db')
  <2>1. CASE s = r
    BY <2>1 DEF GroupWrite
  <2>2. CASE s # r /\ greq[s].pc = "idle"
    BY <1>1, <2>2, IdleKnows DEF GroupWrite, GroupAt
  <2>3. CASE s # r /\ greq[s].pc # "idle"
    <3>1. greq'[s] = [greq[s] EXCEPT !.clean = FALSE]
      BY <2>3 DEF GroupWrite, GroupAt
    <3>2. greq[s] \in GroupRequestType
      BY <1>1
    <3>3. greq'[s] \in GroupRequestType /\ ~greq'[s].clean
      BY <3>1, <3>2 DEF GroupRequestType
    <3> QED BY <3>3, UncleanKnows
  <2> QED BY <2>1, <2>2, <2>3
<1>3. greq' \in [GroupRequests -> GroupRequestType]
  BY <1>2 DEF GroupWrite
<1> QED BY <1>2, <1>3 DEF MembershipInv, MembershipTypeOK

LEMMA WriteAloneKeepsInv ==
    ASSUME MembershipInv, WriteAlone,
           source' \in [Members -> {"none", "direct", "rule"}],
           hidden' \subseteq Hideable, UNCHANGED <<memberKind, membership, matchMode, rules>>
    PROVE  MembershipInv'
<1>1. greq \in [GroupRequests -> GroupRequestType]
  BY DEF MembershipInv, MembershipTypeOK
<1>2. ASSUME NEW s \in GroupRequests
      PROVE  greq'[s] \in GroupRequestType /\ Knows(greq'[s], Db')
  <2>2. CASE greq[s].pc = "idle"
    BY <1>1, <2>2, IdleKnows DEF WriteAlone, GroupAt
  <2>3. CASE greq[s].pc # "idle"
    <3>1. greq'[s] = [greq[s] EXCEPT !.clean = FALSE]
      BY <2>3 DEF WriteAlone, GroupAt
    <3>2. greq[s] \in GroupRequestType
      BY <1>1
    <3>3. greq'[s] \in GroupRequestType /\ ~greq'[s].clean
      BY <3>1, <3>2 DEF GroupRequestType
    <3> QED BY <3>3, UncleanKnows
  <2> QED BY <2>2, <2>3
<1>3. greq' \in [GroupRequests -> GroupRequestType]
  BY <1>2 DEF WriteAlone
<1> QED BY <1>2, <1>3 DEF MembershipInv, MembershipTypeOK

LEMMA GroupIdleTyped == GroupIdle \in GroupRequestType /\ GroupIdle.pc = "idle" /\ GroupIdle.clean
BY DEF GroupIdle, GroupRequestType, GroupLabels, Kinds, Sides

-----------------------------------------------------------------------------
(* Each statement of a request.                                            *)

(* Moving a request on leaves its other fields typed.                      *)
LEMMA RequestTyped ==
    ASSUME MembershipInv, NEW r \in GroupRequests
    PROVE  /\ greq[r] \in GroupRequestType /\ Knows(greq[r], Db)
           /\ \A label \in GroupLabels : [greq[r] EXCEPT !.pc = label] \in GroupRequestType
BY DEF MembershipInv, MembershipTypeOK, GroupRequestType

LEMMA AddDirectKeepsInv ==
    ASSUME MembershipInv, NEW m \in Members, AddDirect(m)
    PROVE  MembershipInv'
<1>1. source' \in [Members -> {"none", "direct", "rule"}]
  BY DEF AddDirect, MembershipInv, MembershipTypeOK
<1> QED BY <1>1, WriteAloneKeepsInv DEF AddDirect, MembershipInv, MembershipTypeOK

LEMMA HideKeepsInv ==
    ASSUME MembershipInv, NEW m \in Hideable, Hide(m)
    PROVE  MembershipInv'
<1>1. hidden' \subseteq Hideable
  BY DEF Hide, MembershipInv, MembershipTypeOK
<1> QED BY <1>1, WriteAloneKeepsInv DEF Hide, MembershipInv, MembershipTypeOK

LEMMA RemoveReadKeepsInv ==
    ASSUME MembershipInv, NEW r \in GroupRequests, NEW m \in Members, RemoveRead(r, m)
    PROVE  MembershipInv'
<1> DEFINE q == [GroupIdle EXCEPT !.pc = "remove", !.member = m]
<1>1. q \in GroupRequestType /\ q.pc = "remove" /\ q.member = m
  BY DEF GroupIdle, GroupRequestType, GroupLabels, Kinds, Sides
<1>2. Db.source[m] = "direct"
  BY DEF RemoveRead, Db
<1>3. Knows(q, Db)
  <2> HIDE DEF q
  <2> QED BY <1>1, <1>2
          DEF Knows, ColumnsKnown, SidesInOrder, ListsKnown, ChecksStand, Reconciling
<1>4. GroupMove(r, q) /\ UNCHANGED Reads
  BY DEF RemoveRead, Reads
<1> HIDE DEF q
<1> QED BY <1>1, <1>3, <1>4, MoveKeepsInv

LEMMA RemoveDeleteKeepsInv ==
    ASSUME MembershipInv, NEW r \in GroupRequests, RemoveDelete(r)
    PROVE  MembershipInv'
<1>1. source' \in [Members -> {"none", "direct", "rule"}]
  BY DEF RemoveDelete, MembershipInv, MembershipTypeOK
<1>2. Knows(GroupIdle, Db')
  BY GroupIdleTyped, IdleKnows
<1> QED BY <1>1, <1>2, GroupIdleTyped, WriteKeepsInv
        DEF RemoveDelete, MembershipInv, MembershipTypeOK

LEMMA MetaStartKeepsInv ==
    ASSUME MembershipInv, NEW r \in GroupRequests, NEW q \in GroupRequestType, MetaStart(r, q)
    PROVE  MembershipInv'
<1> DEFINE p == [q EXCEPT !.pc = IF q.kind = "mixed" THEN "meta" ELSE "count"]
<1>1. /\ p \in GroupRequestType /\ p.kind = q.kind
      /\ p.pc = IF q.kind = "mixed" THEN "meta" ELSE "count"
  BY DEF GroupRequestType, GroupLabels
<1>2. Knows(p, Db)
  <2> HIDE DEF p
  <2> QED BY <1>1 DEF Knows, ColumnsKnown, SidesInOrder, ListsKnown, ChecksStand, Reconciling
<1>3. GroupMove(r, p) /\ UNCHANGED Reads
  BY DEF MetaStart, Reads
<1> HIDE DEF p
<1> QED BY <1>1, <1>2, <1>3, MoveKeepsInv

LEMMA FieldUpdateKeepsInv ==
    ASSUME MembershipInv, NEW r \in GroupRequests,
           NEW k \in Kinds, NEW mode \in {"static", "dynamic"}, FieldUpdate(r, k, mode)
    PROVE  MembershipInv'
<1>1. [GroupIdle EXCEPT !.kind = k, !.membership = mode, !.match = matchMode]
        \in GroupRequestType
  BY DEF GroupIdle, GroupRequestType, GroupLabels, Sides, Kinds, MembershipInv, MembershipTypeOK
<1> QED BY <1>1, MetaStartKeepsInv DEF FieldUpdate

LEMMA MatchModeUpdateKeepsInv ==
    ASSUME MembershipInv, NEW r \in GroupRequests, NEW match \in {"all", "any"},
           MatchModeUpdate(r, match)
    PROVE  MembershipInv'
<1>1. [GroupIdle EXCEPT !.kind = memberKind, !.membership = membership, !.match = match,
                        !.evaluate = membership = "dynamic"] \in GroupRequestType
  BY DEF GroupIdle, GroupRequestType, GroupLabels, Sides, Kinds, MembershipInv, MembershipTypeOK
<1> QED BY <1>1, MetaStartKeepsInv DEF MatchModeUpdate

LEMMA CountExcludedKeepsInv ==
    ASSUME MembershipInv, NEW r \in GroupRequests, CountExcluded(r)
    PROVE  MembershipInv'
<1>1. UNCHANGED Reads
  BY DEF CountExcluded, Reads
<1>2. CASE \E m \in Excluded(greq[r].kind) \ hidden : source[m] # "none"
  BY <1>1, <1>2, GroupIdleTyped, IdleKnows, MoveKeepsInv DEF CountExcluded
<1>3. CASE \A m \in Excluded(greq[r].kind) \ hidden : source[m] = "none"
  <2> DEFINE q == [greq[r] EXCEPT !.pc = "meta"]
  <2>1. q \in GroupRequestType
    BY RequestTyped DEF GroupLabels
  <2>2. q.pc = "meta" /\ q.kind = greq[r].kind
    BY RequestTyped DEF GroupRequestType
  <2>3. GroupMove(r, q)
    BY <1>3 DEF CountExcluded
  <2> HIDE DEF q
  <2>4. Knows(q, Db)
    BY <1>3, <2>2
       DEF Knows, ColumnsKnown, SidesInOrder, ListsKnown, ChecksStand, Reconciling, Db
  <2> QED BY <1>1, <2>1, <2>3, <2>4, MoveKeepsInv
<1> QED BY <1>2, <1>3

LEMMA MetaWriteKeepsInv ==
    ASSUME MembershipInv, NEW r \in GroupRequests, MetaWrite(r)
    PROVE  MembershipInv'
<1> DEFINE q == IF greq[r].evaluate THEN [GroupIdle EXCEPT !.pc = "group"] ELSE GroupIdle
<1>1. q \in GroupRequestType /\ q.pc \in {"idle", "group"}
  BY DEF GroupIdle, GroupRequestType, GroupLabels, Kinds, Sides
<1>2. /\ memberKind' \in Kinds /\ membership' \in {"static", "dynamic"}
      /\ matchMode' \in {"all", "any"}
  BY RequestTyped DEF MetaWrite, GroupRequestType
<1>3. GroupWrite(r, q) /\ UNCHANGED <<source, rules, hidden>>
  BY DEF MetaWrite
<1> HIDE DEF q
<1>4. Knows(q, Db')
  BY <1>1, IdleKnows
<1> QED BY <1>1, <1>2, <1>3, <1>4, WriteKeepsInv DEF MembershipInv, MembershipTypeOK

LEMMA GroupLabelTyped ==
    ASSUME NEW label \in GroupLabels
    PROVE  /\ [GroupIdle EXCEPT !.pc = label] \in GroupRequestType
           /\ [GroupIdle EXCEPT !.pc = label].pc = label
BY DEF GroupIdle, GroupRequestType, GroupLabels, Kinds, Sides

LEMMA RuleChangesKeepInv ==
    ASSUME MembershipInv, NEW r \in GroupRequests,
           \/ AddRuleRead(r) \/ Recalculate(r)
           \/ \E x \in Rules : AddRuleInsert(r, x) \/ RemoveRule(r, x)
    PROVE  MembershipInv'
<1> DEFINE rule == [GroupIdle EXCEPT !.pc = "rule"]
           group == [GroupIdle EXCEPT !.pc = "group"]
<1>1. rule \in GroupRequestType /\ group \in GroupRequestType
  BY GroupLabelTyped DEF GroupLabels
<1>2. rule.pc = "rule" /\ group.pc = "group"
  BY GroupLabelTyped DEF GroupLabels
<1>3. \/ (GroupMove(r, rule) \/ GroupMove(r, group)) /\ UNCHANGED Reads
      \/ /\ GroupWrite(r, group) /\ rules' \subseteq Rules
         /\ UNCHANGED <<source, memberKind, membership, matchMode, hidden>>
  BY DEF AddRuleRead, Recalculate, AddRuleInsert, RemoveRule, Reads, MembershipInv,
         MembershipTypeOK
<1> HIDE DEF rule, group
<1>4. /\ Knows(rule, Db) /\ Knows(group, Db)
      /\ Knows(group, Db')
  BY <1>2, IdleKnows
<1>5. CASE (GroupMove(r, rule) \/ GroupMove(r, group)) /\ UNCHANGED Reads
  BY <1>1, <1>4, <1>5, MoveKeepsInv
<1>6. CASE /\ GroupWrite(r, group) /\ rules' \subseteq Rules
           /\ UNCHANGED <<source, memberKind, membership, matchMode, hidden>>
  BY <1>1, <1>4, <1>6, WriteKeepsInv DEF MembershipInv, MembershipTypeOK
<1> QED BY <1>3, <1>5, <1>6

LEMMA EvalGroupKeepsInv ==
    ASSUME MembershipInv, NEW r \in GroupRequests, EvalGroup(r)
    PROVE  MembershipInv'
<1>1. UNCHANGED Reads
  BY DEF EvalGroup, Reads
<1>2. CASE membership # "dynamic"
  BY <1>1, <1>2, GroupIdleTyped, IdleKnows, MoveKeepsInv DEF EvalGroup
<1>3. CASE membership = "dynamic"
  <2> DEFINE q == [GroupIdle EXCEPT !.pc = "rules", !.kind = memberKind,
                                    !.match = matchMode, !.clean = greq[r].clean]
  <2>0. memberKind \in Kinds /\ matchMode \in {"all", "any"} /\ greq[r].clean \in BOOLEAN
    BY RequestTyped DEF GroupRequestType, MembershipInv, MembershipTypeOK
  <2>1. q \in GroupRequestType /\ q.pc = "rules" /\ q.kind = memberKind /\ q.match = matchMode
    BY <2>0 DEF GroupIdle, GroupRequestType, GroupLabels, Sides
  <2>2. GroupMove(r, q)
    BY <1>3 DEF EvalGroup
  <2> HIDE DEF q
  <2>3. Knows(q, Db)
    BY <2>1 DEF Knows, ColumnsKnown, SidesInOrder, ListsKnown, ChecksStand, Reconciling, Db
  <2> QED BY <1>1, <2>1, <2>2, <2>3, MoveKeepsInv
<1> QED BY <1>2, <1>3

(* What a request knows when it starts on the sides that are left, or has  *)
(* none left and goes on to the totals.                                    *)
LEMMA ReconcileKnows ==
    ASSUME NEW q \in GroupRequestType, NEW db, NEW left \in SUBSET Sides,
           q.clean =>
             IF left = {} THEN AllSettled(db)
             ELSE /\ q.kind = db.kind /\ left \subseteq SidesOf(q.kind)
                  /\ db.rules # {} /\ q.pass = Passing(db.rules, db.match)
                  /\ "asset" \in SidesOf(q.kind) \ left => Settled("asset", db)
    PROVE  Reconcile(q, left) \in GroupRequestType /\ Knows(Reconcile(q, left), db)
<1>1. CASE left = {}
  <2> DEFINE p == [GroupIdle EXCEPT !.pc = "total", !.clean = q.clean]
  <2>1. Reconcile(q, left) = p
    BY <1>1 DEF Reconcile
  <2>2. q.clean \in BOOLEAN
    BY DEF GroupRequestType
  <2>3. p \in GroupRequestType /\ p.pc = "total" /\ p.clean = q.clean
    <3>1. GroupIdle \in GroupRequestType
      BY GroupIdleTyped
    <3>2. "total" \in GroupLabels
      BY DEF GroupLabels
    <3> QED BY <2>2, <3>1, <3>2 DEF GroupRequestType
  <2> HIDE DEF p
  <2>4. Knows(p, db)
    BY <1>1, <2>3 DEF Knows, ColumnsKnown, SidesInOrder, ListsKnown, ChecksStand, Reconciling
  <2> QED BY <2>1, <2>3, <2>4
<1>2. CASE left # {}
  <2> DEFINE side == IF "asset" \in left THEN "asset" ELSE "identity"
             p == [q EXCEPT !.pc = "list", !.side = side]
  <2>1. Reconcile(q, left) = p
    BY <1>2 DEF Reconcile
  <2>2. side \in left /\ side \in Sides /\ (side = "identity" => "asset" \notin left)
    BY <1>2 DEF Sides
  <2> HIDE DEF side
  <2>3. /\ p \in GroupRequestType /\ p.pc = "list" /\ p.clean = q.clean
        /\ p.side = side /\ p.kind = q.kind /\ p.pass = q.pass
    BY <2>2 DEF GroupRequestType, GroupLabels
  <2> HIDE DEF p
  <2>4. Knows(p, db)
    BY <1>2, <2>2, <2>3
       DEF Knows, ColumnsKnown, SidesInOrder, ListsKnown, ChecksStand, Reconciling
  <2> QED BY <2>1, <2>3, <2>4
<1> QED BY <1>1, <1>2

LEMMA EvalRulesKeepsInv ==
    ASSUME MembershipInv, NEW r \in GroupRequests, EvalRules(r)
    PROVE  MembershipInv'
<1> DEFINE q == greq[r]
<1>1. UNCHANGED Reads /\ GroupMove(r, RulesRead(q)) /\ q.pc = "rules"
  BY DEF EvalRules, Reads, GroupAt
<1>2. q \in GroupRequestType /\ Knows(q, Db)
  BY RequestTyped
<1>3. q.clean => q.kind = memberKind /\ q.match = matchMode
  BY <1>1, <1>2 DEF Knows, ColumnsKnown, Db
<1>4. CASE rules = {}
  <2> DEFINE p == [q EXCEPT !.pc = "clear"]
  <2>1. p \in GroupRequestType /\ p.pc = "clear"
    BY <1>2 DEF GroupRequestType, GroupLabels
  <2>2. RulesRead(q) = p
    BY <1>4 DEF RulesRead
  <2> HIDE DEF p, q
  <2>3. Knows(p, Db)
    BY <1>4, <2>1
       DEF Knows, ColumnsKnown, SidesInOrder, ListsKnown, ChecksStand, Reconciling, Db
  <2> QED BY <1>1, <2>1, <2>2, <2>3, MoveKeepsInv
<1>5. CASE rules # {}
  <2> DEFINE pass == Passing(rules, q.match)
             p == [q EXCEPT !.pass = pass, !.match = "all"]
             left == SidesOf(q.kind)
  <2>1. RulesRead(q) = Reconcile(p, left)
    BY <1>5 DEF RulesRead
  <2>2. pass \in SUBSET Members /\ left \in SUBSET Sides
    BY DEF Passing, SidesOf
  <2>3. q.kind \in Kinds
    BY <1>2 DEF GroupRequestType
  <2>4. left # {}
    BY <2>3 DEF SidesOf, Kinds, Sides
  <2>5. q.clean => pass = Passing(rules, matchMode)
    BY <1>3
  <2> HIDE DEF pass, q
  <2>6. p \in GroupRequestType /\ p.kind = q.kind /\ p.pass = pass /\ p.clean = q.clean
    BY <1>2, <2>2 DEF GroupRequestType
  <2> HIDE DEF p
  <2>7. p.clean => /\ p.kind = Db.kind /\ left \subseteq SidesOf(p.kind)
                   /\ Db.rules # {} /\ p.pass = Passing(Db.rules, Db.match)
                   /\ "asset" \notin SidesOf(p.kind) \ left
    BY <1>3, <1>5, <2>5, <2>6 DEF Db
  <2> HIDE DEF left
  <2>8. Reconcile(p, left) \in GroupRequestType /\ Knows(Reconcile(p, left), Db)
    BY <2>2, <2>4, <2>6, <2>7, ReconcileKnows
  <2> QED BY <1>1, <2>1, <2>8, MoveKeepsInv
<1> QED BY <1>4, <1>5

LEMMA EvalClearKeepsInv ==
    ASSUME MembershipInv, NEW r \in GroupRequests, EvalClear(r)
    PROVE  MembershipInv'
<1> DEFINE q == greq[r]
           p == Reconcile(q, {})
<1>1. /\ q \in GroupRequestType /\ Knows(q, Db) /\ q.pc = "clear"
      /\ source \in [Members -> {"none", "direct", "rule"}]
  BY RequestTyped DEF EvalClear, GroupAt, MembershipInv, MembershipTypeOK
<1>2. /\ source' = [m \in Members |-> IF m \in RuleRows THEN "none" ELSE source[m]]
      /\ IF RuleRows = {} THEN GroupMove(r, p) ELSE GroupWrite(r, p)
      /\ UNCHANGED <<memberKind, membership, matchMode, rules, hidden>>
  BY DEF EvalClear
<1>3. /\ source' \in [Members -> {"none", "direct", "rule"}]
      /\ \A m \in Members : source'[m] # "rule"
  BY <1>1, <1>2 DEF RuleRows
<1>4. q.clean => rules = {}
  BY <1>1 DEF Knows, ColumnsKnown, Db
<1>5. q.clean => AllSettled(Db')
  BY <1>2, <1>3, <1>4 DEF AllSettled, Db
<1> HIDE DEF q
<1>6. p \in GroupRequestType /\ Knows(p, Db')
  BY <1>1, <1>5, ReconcileKnows
<1> HIDE DEF p
<1>7. CASE RuleRows = {}
  <2>1. source' = source
    BY <1>1, <1>2, <1>7
  <2>2. UNCHANGED Reads
    BY <1>2, <2>1 DEF Reads
  <2>3. Db' = Db
    BY <2>2 DEF Db, Reads
  <2> QED BY <1>2, <1>6, <1>7, <2>2, <2>3, MoveKeepsInv
<1>8. CASE RuleRows # {}
  BY <1>2, <1>3, <1>6, <1>8, WriteKeepsInv DEF MembershipInv, MembershipTypeOK
<1> QED BY <1>7, <1>8

LEMMA EvalListKeepsInv ==
    ASSUME MembershipInv, NEW r \in GroupRequests, EvalList(r)
    PROVE  MembershipInv'
<1> DEFINE q == greq[r]
           found == (q.pass \ hidden) \cap Population(q.side)
           p == [q EXCEPT !.pc = "direct", !.found = found]
<1>1. UNCHANGED Reads /\ GroupMove(r, p) /\ q.pc = "list"
  BY DEF EvalList, Reads, GroupAt
<1>2. q \in GroupRequestType /\ Knows(q, Db)
  BY RequestTyped
<1>3. found \in SUBSET Members
  BY DEF Population, Members
<1>4. Db.hidden = hidden
  BY DEF Db
<1>5. \A m \in Members : m \in found <=> m \in (q.pass \ Db.hidden) \cap Population(q.side)
  BY <1>4
<1> HIDE DEF q, found
<1>6. /\ p \in GroupRequestType /\ p.pc = "direct" /\ p.clean = q.clean /\ p.found = found
      /\ p.side = q.side /\ p.kind = q.kind /\ p.pass = q.pass
  BY <1>2, <1>3 DEF GroupRequestType, GroupLabels
<1> HIDE DEF p
<1>7. Knows(p, Db)
  <2> SUFFICES ASSUME p.clean PROVE Knows(p, Db)
    BY DEF Knows
  <2>1. ColumnsKnown(p, Db) /\ SidesInOrder(p, Db) /\ ChecksStand(p, Db)
    BY <1>1, <1>2, <1>6 DEF Knows, ColumnsKnown, SidesInOrder, ChecksStand, Reconciling
  <2>2. q.pass = Passing(Db.rules, Db.match)
    BY <1>1, <1>2, <1>6 DEF Knows, SidesInOrder, Reconciling
  <2>3. ListsKnown(p, Db)
    BY <1>5, <1>6, <2>2 DEF ListsKnown, Asked
  <2> QED BY <1>6, <2>1, <2>3 DEF Knows
<1> QED BY <1>1, <1>6, <1>7, MoveKeepsInv

LEMMA EvalDirectKeepsInv ==
    ASSUME MembershipInv, NEW r \in GroupRequests, EvalDirect(r)
    PROVE  MembershipInv'
<1> DEFINE q == greq[r]
           direct == {m \in Population(q.side) : source[m] = "direct"}
           p == [q EXCEPT !.pc = "current", !.direct = direct]
<1>1. UNCHANGED Reads /\ GroupMove(r, p) /\ q.pc = "direct"
  BY DEF EvalDirect, Reads, GroupAt
<1>2. q \in GroupRequestType /\ Knows(q, Db)
  BY RequestTyped
<1>3. direct \in SUBSET Members
  BY DEF Population, Members
<1>4. \A m \in Population(q.side) : m \in direct <=> Db.source[m] = "direct"
  BY DEF Db
<1> HIDE DEF q, direct
<1>5. /\ p \in GroupRequestType /\ p.pc = "current" /\ p.clean = q.clean
      /\ p.found = q.found /\ p.direct = direct
      /\ p.side = q.side /\ p.kind = q.kind /\ p.pass = q.pass
  BY <1>2, <1>3 DEF GroupRequestType, GroupLabels
<1> HIDE DEF p
<1>6. Knows(p, Db)
  BY <1>1, <1>2, <1>4, <1>5
     DEF Knows, ColumnsKnown, SidesInOrder, ListsKnown, ChecksStand, Reconciling
<1> QED BY <1>1, <1>5, <1>6, MoveKeepsInv

(* The three lists give what is to be added and deleted.                   *)
LEMMA EvalCurrentKeepsInv ==
    ASSUME MembershipInv, NEW r \in GroupRequests, EvalCurrent(r)
    PROVE  MembershipInv'
<1> DEFINE q == greq[r]
           current == RuleRows \cap Population(q.side)
           add == q.found \ (q.direct \cup current)
           del == current \ q.found
           p == [q EXCEPT !.pc = "write", !.found = {}, !.direct = {},
                          !.add = add, !.del = del]
<1>1. UNCHANGED Reads /\ GroupMove(r, p) /\ q.pc = "current"
  BY DEF EvalCurrent, Reads, GroupAt
<1>2. /\ q \in GroupRequestType /\ Knows(q, Db)
      /\ source \in [Members -> {"none", "direct", "rule"}]
  BY RequestTyped DEF MembershipInv, MembershipTypeOK
<1>3. /\ \A m \in Members : m \in current <=> source[m] = "rule" /\ m \in Population(q.side)
      /\ current \in SUBSET Members
  BY DEF RuleRows
<1>4. q.found \in SUBSET Members /\ Population(q.side) \in SUBSET Members
  BY <1>2 DEF GroupRequestType, Population, Members
<1> HIDE DEF current
<1>5. /\ add \in SUBSET Members /\ del \in SUBSET Members
      /\ \A m \in Members : /\ m \in add <=> m \in q.found /\ m \notin q.direct /\ m \notin current
                            /\ m \in del <=> m \in current /\ m \notin q.found
  BY <1>3, <1>4
<1> HIDE DEF q, add, del
<1>6. /\ p \in GroupRequestType /\ p.pc = "write" /\ p.clean = q.clean
      /\ p.add = add /\ p.del = del
      /\ p.side = q.side /\ p.kind = q.kind /\ p.pass = q.pass
  BY <1>2, <1>5 DEF GroupRequestType, GroupLabels
<1> HIDE DEF p
<1>7. Knows(p, Db)
  <2> SUFFICES ASSUME p.clean PROVE Knows(p, Db)
    BY DEF Knows
  <2>1. ColumnsKnown(p, Db) /\ SidesInOrder(p, Db) /\ ChecksStand(p, Db)
    BY <1>1, <1>2, <1>6 DEF Knows, ColumnsKnown, SidesInOrder, ChecksStand, Reconciling
  <2>2. /\ \A m \in Members : m \in q.found <=> m \in Asked(Db) /\ m \in Population(q.side)
        /\ \A m \in Population(q.side) : m \in q.direct <=> source[m] = "direct"
    BY <1>1, <1>2, <1>6 DEF Knows, ListsKnown, Db
  <2>3. \A m \in Members : m \in add \/ m \in del => m \in Population(q.side)
    BY <1>3, <1>5, <2>2
  <2>4. ASSUME NEW m \in Population(q.side) PROVE SideWritten(p, m, Db)
    <3>1. m \in Members /\ source[m] \in {"none", "direct", "rule"} /\ Db.source[m] = source[m]
      BY <1>2, <1>4 DEF Db
    <3>2. /\ m \in add <=> m \in Asked(Db) /\ source[m] = "none"
          /\ m \in del <=> source[m] = "rule" /\ m \notin Asked(Db)
      BY <1>3, <1>5, <2>2, <3>1
    <3> QED BY <1>6, <3>1, <3>2 DEF SideWritten
  <2>5. ListsKnown(p, Db)
    BY <1>5, <1>6, <2>3, <2>4 DEF ListsKnown
  <2> QED BY <1>6, <2>1, <2>5 DEF Knows
<1> QED BY <1>1, <1>6, <1>7, MoveKeepsInv

(* One member of the side under way is written, or turns out to need no    *)
(* write; the other side stays settled.                                    *)
LEMMA WriteOneKnows ==
    ASSUME NEW q \in GroupRequestType, NEW p \in GroupRequestType, NEW db, NEW db2, NEW m \in Members,
           q.pc = "write", Knows(q, db),
           p.pc = "write", p.clean = q.clean, p.side = q.side, p.kind = q.kind,
           p.pass = q.pass, p.add \subseteq q.add, p.del \subseteq q.del,
           q.add \cup q.del \subseteq p.add \cup p.del \cup {m},
           db2.rules = db.rules, db2.match = db.match, db2.hidden = db.hidden,
           db2.kind = db.kind,
           \A n \in Members \ {m} : db2.source[n] = db.source[n],
           q.clean => m \in q.add \cup q.del /\ SideWritten(p, m, db2)
    PROVE  Knows(p, db2)
<1> SUFFICES ASSUME q.clean PROVE Knows(p, db2)
  BY DEF Knows
<1>1. ColumnsKnown(p, db2) /\ ChecksStand(p, db2)
  BY DEF Knows, ColumnsKnown, ChecksStand, Reconciling
<1>2. Asked(db2) = Asked(db)
  BY DEF Asked
<1>3. q.add \cup q.del \subseteq Population(q.side)
  BY DEF Knows, ListsKnown
<1>4. \A s \in Sides : Population(s) \subseteq Members
  BY DEF Population, Members
<1>5. q.side \in Sides
  BY DEF GroupRequestType
<1>6. ListsKnown(p, db2)
  <2>1. ASSUME NEW n \in Population(q.side) \ {m} PROVE SideWritten(p, n, db2)
    <3>1. SideWritten(q, n, db) /\ n \in Members
      BY <1>4, <1>5 DEF Knows, ListsKnown
    <3> QED BY <1>2, <3>1 DEF SideWritten
  <2>2. SideWritten(p, m, db2)
    OBVIOUS
  <2>3. \A n \in Population(p.side) : SideWritten(p, n, db2)
    BY <2>1, <2>2
  <2> QED BY <1>3, <2>3 DEF ListsKnown
<1>7. SidesInOrder(p, db2)
  <2>1. ASSUME q.side = "identity", Settled("asset", db) PROVE Settled("asset", db2)
    <3>1. m \in Identities
      BY <1>3, <2>1 DEF Population
    <3>2. \A n \in Assets : n \in Members \ {m}
      BY <3>1, MembersAssumption DEF Members
    <3> QED BY <1>2, <2>1, <3>2 DEF Settled, Population
  <2> QED BY <2>1 DEF Knows, SidesInOrder, Reconciling
<1> QED BY <1>1, <1>6, <1>7 DEF Knows

LEMMA EvalInsertKeepsInv ==
    ASSUME MembershipInv, NEW r \in GroupRequests, NEW m \in Members, EvalInsert(r, m)
    PROVE  MembershipInv'
<1> DEFINE q == greq[r]
           p == [q EXCEPT !.add = @ \ {m}]
<1>1. /\ q \in GroupRequestType /\ Knows(q, Db) /\ q.pc = "write" /\ m \in q.add
      /\ source \in [Members -> {"none", "direct", "rule"}]
  BY RequestTyped DEF EvalInsert, GroupAt, MembershipInv, MembershipTypeOK
<1>2. /\ UNCHANGED <<memberKind, membership, matchMode, rules, hidden>>
      /\ \/ /\ source[m] = "none" /\ source' = [source EXCEPT ![m] = "rule"]
            /\ GroupWrite(r, p)
         \/ source[m] # "none" /\ GroupMove(r, p) /\ UNCHANGED source
  BY DEF EvalInsert
<1> HIDE DEF q
<1>3. /\ p \in GroupRequestType /\ p.pc = "write" /\ p.clean = q.clean
      /\ p.add = q.add \ {m} /\ p.del = q.del
      /\ p.side = q.side /\ p.kind = q.kind /\ p.pass = q.pass
  BY <1>1 DEF GroupRequestType, GroupLabels
<1> HIDE DEF p
<1>4. q.clean => source[m] = "none" /\ m \in Asked(Db) /\ m \notin q.del
  BY <1>1 DEF Knows, ListsKnown, SideWritten, Db
<1>5. CASE source[m] = "none"
  <2>1. /\ source' \in [Members -> {"none", "direct", "rule"}] /\ source'[m] = "rule"
        /\ \A n \in Members \ {m} : source'[n] = source[n]
    BY <1>1, <1>2, <1>5
  <2>2. /\ Db'.source = source' /\ Db.source = source /\ Db'.rules = Db.rules
        /\ Db'.match = Db.match /\ Db'.hidden = Db.hidden /\ Db'.kind = Db.kind
    BY <1>2 DEF Db
  <2>3. Asked(Db') = Asked(Db)
    BY <2>2 DEF Asked
  <2>4. q.clean => m \in q.add \cup q.del /\ SideWritten(p, m, Db')
    BY <1>1, <1>3, <1>4, <2>1, <2>2, <2>3 DEF SideWritten
  <2>5. Knows(p, Db')
    BY <1>1, <1>3, <2>1, <2>2, <2>4, WriteOneKnows
  <2> QED BY <1>2, <1>3, <1>5, <2>1, <2>5, WriteKeepsInv DEF MembershipInv, MembershipTypeOK
<1>6. CASE source[m] # "none"
  <2>1. Knows(p, Db)
    BY <1>3, <1>4, <1>6, UncleanKnows
  <2> QED BY <1>2, <1>3, <1>6, <2>1, MoveKeepsInv DEF Reads
<1> QED BY <1>5, <1>6

LEMMA EvalDeleteKeepsInv ==
    ASSUME MembershipInv, NEW r \in GroupRequests, NEW m \in Members, EvalDelete(r, m)
    PROVE  MembershipInv'
<1> DEFINE q == greq[r]
           p == [q EXCEPT !.del = @ \ {m}]
<1>1. /\ q \in GroupRequestType /\ Knows(q, Db) /\ q.pc = "write" /\ m \in q.del /\ q.add = {}
      /\ source \in [Members -> {"none", "direct", "rule"}]
  BY RequestTyped DEF EvalDelete, GroupAt, MembershipInv, MembershipTypeOK
<1>2. /\ UNCHANGED <<memberKind, membership, matchMode, rules, hidden>>
      /\ \/ /\ source[m] = "rule" /\ source' = [source EXCEPT ![m] = "none"]
            /\ GroupWrite(r, p)
         \/ source[m] # "rule" /\ GroupMove(r, p) /\ UNCHANGED source
  BY DEF EvalDelete, Deletable
<1> HIDE DEF q
<1>3. /\ p \in GroupRequestType /\ p.pc = "write" /\ p.clean = q.clean
      /\ p.add = {} /\ p.del = q.del \ {m}
      /\ p.side = q.side /\ p.kind = q.kind /\ p.pass = q.pass
  BY <1>1 DEF GroupRequestType, GroupLabels
<1> HIDE DEF p
<1>4. q.clean => source[m] = "rule" /\ m \notin Asked(Db)
  BY <1>1 DEF Knows, ListsKnown, SideWritten, Db
<1>5. CASE source[m] = "rule"
  <2>1. /\ source' \in [Members -> {"none", "direct", "rule"}] /\ source'[m] = "none"
        /\ \A n \in Members \ {m} : source'[n] = source[n]
    BY <1>1, <1>2, <1>5
  <2>2. /\ Db'.source = source' /\ Db.source = source /\ Db'.rules = Db.rules
        /\ Db'.match = Db.match /\ Db'.hidden = Db.hidden /\ Db'.kind = Db.kind
    BY <1>2 DEF Db
  <2>3. Asked(Db') = Asked(Db)
    BY <2>2 DEF Asked
  <2>4. q.clean => m \in q.add \cup q.del /\ SideWritten(p, m, Db')
    BY <1>1, <1>3, <1>4, <2>1, <2>2, <2>3 DEF SideWritten
  <2>5. Knows(p, Db')
    BY <1>1, <1>3, <2>1, <2>2, <2>4, WriteOneKnows
  <2> QED BY <1>2, <1>3, <1>5, <2>1, <2>5, WriteKeepsInv DEF MembershipInv, MembershipTypeOK
<1>6. CASE source[m] # "rule"
  <2>1. Knows(p, Db)
    BY <1>3, <1>4, <1>6, UncleanKnows
  <2> QED BY <1>2, <1>3, <1>6, <2>1, MoveKeepsInv DEF Reads
<1> QED BY <1>5, <1>6

(* With nothing left to write the side is settled.                         *)
LEMMA EvalNextSideKeepsInv ==
    ASSUME MembershipInv, NEW r \in GroupRequests, EvalNextSide(r)
    PROVE  MembershipInv'
<1> DEFINE q == greq[r]
           left == IF q.side = "asset" THEN SidesOf(q.kind) \ {"asset"} ELSE {}
           p == Reconcile(q, left)
<1>1. /\ q \in GroupRequestType /\ Knows(q, Db) /\ q.pc = "write" /\ q.add = {} /\ q.del = {}
      /\ GroupMove(r, p) /\ UNCHANGED Reads
  BY RequestTyped DEF EvalNextSide, GroupAt, Reads
<1> HIDE DEF q
<1>2. left \in SUBSET Sides
  BY DEF SidesOf
<1>3. ASSUME q.clean
      PROVE  IF left = {} THEN AllSettled(Db)
             ELSE /\ q.kind = Db.kind /\ left \subseteq SidesOf(q.kind)
                  /\ Db.rules # {} /\ q.pass = Passing(Db.rules, Db.match)
                  /\ "asset" \in SidesOf(q.kind) \ left => Settled("asset", Db)
  <2>1. /\ Settled(q.side, Db)
        /\ q.kind = Db.kind /\ q.side \in SidesOf(q.kind) /\ Db.rules # {}
        /\ q.pass = Passing(Db.rules, Db.match)
        /\ q.side = "identity" /\ "asset" \in SidesOf(q.kind) => Settled("asset", Db)
    BY <1>1, <1>3 DEF Knows, ListsKnown, SideWritten, Settled, ColumnsKnown, SidesInOrder, Reconciling
  <2>2. SidesOf(q.kind) \subseteq {"asset", "identity"} /\ q.side \in {"asset", "identity"}
    BY <2>1 DEF SidesOf, Sides
  <2>3. CASE q.side = "asset"
    BY <2>1, <2>2, <2>3 DEF AllSettled
  <2>4. CASE q.side = "identity"
    <3>1. \A side \in SidesOf(Db.kind) : Settled(side, Db)
      BY <2>1, <2>2, <2>4
    <3> QED BY <2>1, <2>4, <3>1 DEF AllSettled
  <2> QED BY <2>2, <2>3, <2>4
<1> HIDE DEF left
<1>4. p \in GroupRequestType /\ Knows(p, Db)
  BY <1>1, <1>2, <1>3, ReconcileKnows
<1> HIDE DEF p
<1> QED BY <1>1, <1>4, MoveKeepsInv

LEMMA RequestEndsKeepsInv ==
    ASSUME MembershipInv, NEW r \in GroupRequests, EvalTotal(r) \/ GroupFail(r)
    PROVE  MembershipInv'
<1>1. GroupMove(r, GroupIdle) /\ UNCHANGED Reads
  BY DEF EvalTotal, GroupFail, Reads
<1> QED BY <1>1, GroupIdleTyped, IdleKnows, MoveKeepsInv

LEMMA MembershipInitInv == MembershipInit => MembershipInv
BY GroupIdleTyped, IdleKnows DEF MembershipInit, MembershipInv, MembershipTypeOK, Kinds

LEMMA MembershipNextKeepsInv == MembershipInv /\ [MembershipNext]_groupVars => MembershipInv'
<1> SUFFICES ASSUME MembershipInv, [MembershipNext]_groupVars PROVE MembershipInv'
  OBVIOUS
<1>1. ASSUME NEW r \in GroupRequests, GroupStart(r) PROVE MembershipInv'
  BY <1>1, RemoveReadKeepsInv, FieldUpdateKeepsInv, MatchModeUpdateKeepsInv,
     RuleChangesKeepInv DEF GroupStart
<1>2. ASSUME NEW r \in GroupRequests, GroupContinue(r) PROVE MembershipInv'
  BY <1>2, RemoveDeleteKeepsInv, CountExcludedKeepsInv, MetaWriteKeepsInv,
     RuleChangesKeepInv, EvalGroupKeepsInv, EvalRulesKeepsInv, EvalClearKeepsInv,
     EvalListKeepsInv, EvalDirectKeepsInv, EvalCurrentKeepsInv, EvalInsertKeepsInv,
     EvalDeleteKeepsInv, EvalNextSideKeepsInv, RequestEndsKeepsInv DEF GroupContinue
<1>3. CASE UNCHANGED groupVars
  <2>1. Db' = Db
    BY <1>3 DEF Db, groupVars
  <2> QED BY <1>3, <2>1 DEF groupVars, MembershipInv, MembershipTypeOK
<1> QED BY <1>1, <1>2, <1>3, AddDirectKeepsInv, HideKeepsInv DEF MembershipNext

LEMMA MembershipInvHolds == MembershipSpec => []MembershipInv
BY MembershipInitInv, MembershipNextKeepsInv, PTL DEF MembershipSpec

LEMMA MembershipTypeCorrect == MembershipSpec => []MembershipTypeOK
BY MembershipInvHolds, PTL DEF MembershipInv

-----------------------------------------------------------------------------
(* EvaluateDynamicMembership: an evaluation that nobody has written beside *)
(* ends with exactly the rule rows the rules ask for.                      *)
THEOREM EvaluationsReconcile == MembershipSpec => []ReconciledAtTheEnd
<1>1. MembershipInv => ReconciledAtTheEnd
  <2> SUFFICES ASSUME MembershipInv, NEW r \in GroupRequests, GroupAt(r, "total"), greq[r].clean
               PROVE  LET reach == UNION {Population(s) : s \in SidesOf(memberKind)} IN
                      IF rules = {} THEN RuleRows = {}
                      ELSE \A m \in reach :
                             source[m] = "rule" <=> /\ m \in Passing(rules, matchMode)
                                                    /\ m \notin hidden
                                                    /\ source[m] # "direct"
    BY DEF ReconciledAtTheEnd
  <2>1. AllSettled(Db)
    BY DEF MembershipInv, Knows, GroupAt
  <2>2. CASE rules = {}
    BY <2>1, <2>2 DEF AllSettled, Db, RuleRows
  <2>3. CASE rules # {}
    <3>1. ASSUME NEW m \in UNION {Population(s) : s \in SidesOf(memberKind)}
          PROVE  source[m] = "rule" <=> /\ m \in Passing(rules, matchMode)
                                        /\ m \notin hidden
                                        /\ source[m] # "direct"
      <4>1. PICK s \in SidesOf(memberKind) : m \in Population(s)
        OBVIOUS
      <4>2. Settled(s, Db)
        BY <2>1, <2>3 DEF AllSettled, Db
      <4> QED BY <4>1, <4>2 DEF Settled, Asked, Db
    <3> QED BY <2>3, <3>1
  <2> QED BY <2>2, <2>3
<1> QED BY <1>1, MembershipInvHolds, PTL

LEMMA RowsChangeInOneStep ==
    ASSUME MembershipTypeOK, MembershipNext, NEW m \in Members, source'[m] # source[m]
    PROVE  /\ "none" \in {source[m], source'[m]}
           /\ source[m] = "direct" =>
                \E r \in GroupRequests : GroupAt(r, "remove") /\ greq[r].member = m
<1> USE DEF MembershipTypeOK
<1>1. CASE \E n \in Members : AddDirect(n)
  BY <1>1 DEF AddDirect
<1>2. ASSUME NEW r \in GroupRequests, RemoveDelete(r)
      PROVE  source'[m] = "none" /\ GroupAt(r, "remove") /\ greq[r].member = m
  BY <1>2 DEF RemoveDelete
<1>3. ASSUME NEW r \in GroupRequests, EvalClear(r)
      PROVE  source'[m] = "none" /\ source[m] = "rule"
  BY <1>3 DEF EvalClear, RuleRows
<1>4. ASSUME NEW r \in GroupRequests, NEW n \in Members, EvalInsert(r, n)
      PROVE  source[m] = "none"
  BY <1>4 DEF EvalInsert
<1>5. ASSUME NEW r \in GroupRequests, NEW n \in Members, EvalDelete(r, n)
      PROVE  source'[m] = "none" /\ source[m] = "rule"
  BY <1>5 DEF EvalDelete, Deletable
<1>6. \/ \E n \in Members : AddDirect(n)
      \/ \E r \in GroupRequests :
           \/ RemoveDelete(r) \/ EvalClear(r)
           \/ \E n \in Members : EvalInsert(r, n) \/ EvalDelete(r, n)
  BY DEF MembershipNext, Hide, GroupStart, GroupContinue, RemoveRead, FieldUpdate,
         MatchModeUpdate, MetaStart, AddRuleRead, Recalculate, RemoveRule, CountExcluded,
         MetaWrite, AddRuleInsert, EvalGroup, EvalRules, EvalList, EvalDirect, EvalCurrent,
         EvalNextSide, EvalTotal, GroupFail
<1> QED BY <1>1, <1>2, <1>3, <1>4, <1>5, <1>6

(* "an admin's explicit add/remove always wins": a direct row goes only by *)
(* the removal of that member, and a removal by hand takes a rule row only *)
(* when somebody has written between its check and its delete.             *)
THEOREM RowsGoBySource == MembershipSpec => RowsGoByTheirSource
<1>1. MembershipInv /\ [MembershipNext]_groupVars =>
        [\A m \in Members : source'[m] # source[m] =>
           /\ "none" \in {source[m], source'[m]}
           /\ source[m] = "direct" =>
                \E r \in GroupRequests : /\ GroupAt(r, "remove")
                                         /\ greq[r].member = m]_groupVars
  BY RowsChangeInOneStep DEF MembershipInv
<1>2. MembershipInv =>
        \A r \in GroupRequests :
          GroupAt(r, "remove") /\ ~GroupAt(r, "remove")' /\ greq[r].clean
          => source[greq[r].member] # "rule"
  BY DEF MembershipInv, Knows, ChecksStand, GroupAt, Db
<1> QED BY <1>1, <1>2, MembershipInvHolds, PTL
        DEF MembershipSpec, RowsGoByTheirSource, DirectRowsStick, RuleRowsGoByRules

(* GroupFieldUpdate: a change of member_kind that nobody has written       *)
(* beside leaves no visible member of the kind it excludes.                *)
THEOREM KindChangesStrandNobody == MembershipSpec => KindChangeStrandsNobody
<1>1. ASSUME MembershipInv, MembershipNext, NEW r \in GroupRequests,
             GroupAt(r, "meta"), ~GroupAt(r, "meta")', greq[r].clean,
             memberKind' # memberKind, memberKind' # "mixed",
             NEW m \in Members \ (Population(memberKind') \cup hidden)
      PROVE  source[m] = "none"
  <2>1. PICK s \in GroupRequests : MetaWrite(s)
    <3>1. PICK s \in GroupRequests : GroupStart(s) \/ GroupContinue(s)
      BY <1>1 DEF MembershipNext, AddDirect, Hide
    <3>2. ~GroupStart(s)
      BY <1>1 DEF GroupStart, RemoveRead, FieldUpdate, MatchModeUpdate, MetaStart,
           AddRuleRead, Recalculate, RemoveRule
    <3>3. GroupContinue(s) => MetaWrite(s)
      BY <1>1 DEF GroupContinue, RemoveDelete, CountExcluded, AddRuleInsert, EvalGroup,
           EvalRules, EvalClear, EvalList, EvalDirect, EvalCurrent, EvalInsert, EvalDelete,
           EvalNextSide, EvalTotal, GroupFail
    <3> QED BY <3>1, <3>2, <3>3
  <2>2. s = r
    <3> SUFFICES ASSUME s # r PROVE FALSE
      OBVIOUS
    <3>1. greq'[r] = [greq[r] EXCEPT !.clean = FALSE]
      BY <1>1, <2>1 DEF MetaWrite, GroupWrite, GroupAt
    <3>2. greq'[r].pc = greq[r].pc
      BY <3>1, RequestTyped, <1>1 DEF GroupRequestType
    <3> QED BY <1>1, <3>2 DEF GroupAt
  <2>3. memberKind' = greq[r].kind /\ greq[r].kind \in Kinds
    BY <1>1, <2>1, <2>2, RequestTyped DEF MetaWrite, GroupRequestType
  <2>4. m \in Excluded(memberKind')
    BY <1>1, <2>3 DEF Excluded, Population, Members, Kinds
  <2>5. \A n \in Excluded(greq[r].kind) \ hidden : source[n] = "none"
    BY <1>1, <2>3 DEF MembershipInv, Knows, ChecksStand, GroupAt, Db
  <2> QED BY <1>1, <2>3, <2>4, <2>5
<1>2. MembershipInv /\ [MembershipNext]_groupVars =>
        [\A r \in GroupRequests :
           GroupAt(r, "meta") /\ ~GroupAt(r, "meta")' /\ greq[r].clean
           /\ memberKind' # memberKind /\ memberKind' # "mixed"
           => \A m \in Members \ (Population(memberKind') \cup hidden) :
                source[m] = "none"]_groupVars
  BY <1>1
<1> QED BY <1>2, MembershipInvHolds, PTL DEF MembershipSpec, KindChangeStrandsNobody

-----------------------------------------------------------------------------
(* ConfigAssignments.                                                      *)

(* A direct assignment knows, until something it relies on is taken away,  *)
(* that its group is there and, when it has bound the policy, the binding. *)
DirectKnows(q, cg, bo) ==
    /\ q.pc \in {"create", "bind", "assign"} => q.host \in Hosts /\ q.policy \in Policies
    /\ q.pc \in {"bind", "assign"} => q.group \in CGroups /\ (q.steady => cg[q.group] = "live")
    /\ q.pc = "assign" /\ q.steady => <<q.group, q.policy>> \in bo

(* What applies by the scopes in D.                                        *)
AppliesBy(D, cg, bo, as) == {b \in bo : cg[b[1]] = "live" /\ \E t \in D : <<b[1], t>> \in as}

(* Groups listed and not yet shown.                                        *)
StillToShow(q) ==
    CASE q.pc = "group" -> q.groups
      [] q.pc = "bindings" -> q.groups \cup {q.group}
      [] OTHER -> {}

(* A resolution beside which nothing is written has seen what applies by   *)
(* the scopes it is through with, but for the groups it still has to show. *)
ResolveKnows(q, cg, bo, as) ==
    q.pc \in {"scopes", "group", "bindings"} =>
      LET D == ScopesOf[q.host] \ q.scopes IN
      /\ q.host \in Hosts /\ q.scopes \subseteq ScopesOf[q.host]
      /\ q.pc = "bindings" => q.group \in CGroups
      /\ q.steady =>
           /\ q.seen \subseteq AppliesBy(D, cg, bo, as)
           /\ \A b \in AppliesBy(D, cg, bo, as) : b[1] \in StillToShow(q) \/ b \in q.seen
           /\ \A g \in StillToShow(q) : cg[g] = "live" /\ \E t \in D : <<g, t>> \in as

LiveAs(g, n, cg, ca) == cg[g] = "live" /\ ca[g] = n

CreatesAs(q, n) == q.pc = "create" /\ HostName[q.host] = n

(* Of a name that has not been doubled there is one live group at most,    *)
(* and none, and no second request to make one, while a request is to.     *)
NamesKnow(cg, ca, ar, db) ==
    \A n \in HostNames \ db :
      /\ \A g, h \in CGroups : LiveAs(g, n, cg, ca) /\ LiveAs(h, n, cg, ca) => g = h
      /\ \A s \in ConfigRequests : CreatesAs(ar[s], n) =>
           /\ \A g \in CGroups : ~LiveAs(g, n, cg, ca)
           /\ \A u \in ConfigRequests : CreatesAs(ar[u], n) => u = s

ConfigInv ==
    /\ ConfigTypeOK
    /\ \A g \in CGroups : Exists(g) => called[g] \in GroupNames
    /\ \A r \in ConfigRequests :
         DirectKnows(areq[r], cgroup, bound) /\ ResolveKnows(areq[r], cgroup, bound, assigned)
    /\ NamesKnow(cgroup, called, areq, doubled)

-----------------------------------------------------------------------------

LEMMA ConfigIdleKnows ==
    /\ ConfigIdle \in ConfigRequestType /\ ConfigIdle.pc = "idle"
    /\ \A q, cg, bo, as : q.pc = "idle" => DirectKnows(q, cg, bo) /\ ResolveKnows(q, cg, bo, as)
BY DEF ConfigIdle, ConfigRequestType, DirectKnows, ResolveKnows

(* A step of one request that writes nothing and creates nothing.          *)
LEMMA ConfigMoveKeepsInv ==
    ASSUME ConfigInv, NEW r \in ConfigRequests, NEW q \in ConfigRequestType, q.pc # "create",
           DirectKnows(q, cgroup, bound), ResolveKnows(q, cgroup, bound, assigned),
           ConfigMove(r, q), UNCHANGED <<ConfigTables, doubled>>
    PROVE  ConfigInv'
<1>1. /\ areq \in [ConfigRequests -> ConfigRequestType] /\ areq' = [areq EXCEPT ![r] = q]
      /\ UNCHANGED <<cgroup, called, bound, assigned, doubled>>
  BY DEF ConfigInv, ConfigTypeOK, ConfigMove, ConfigTables
<1>2. \A s \in ConfigRequests :
        DirectKnows(areq'[s], cgroup, bound) /\ ResolveKnows(areq'[s], cgroup, bound, assigned)
  BY <1>1 DEF ConfigInv
<1>3. \A s \in ConfigRequests, n \in HostNames : CreatesAs(areq'[s], n) => CreatesAs(areq[s], n)
  BY <1>1 DEF CreatesAs
<1>4. NamesKnow(cgroup, called, areq', doubled)
  BY <1>3 DEF ConfigInv, NamesKnow
<1>5. areq' \in [ConfigRequests -> ConfigRequestType]
  BY <1>1
<1> QED BY <1>1, <1>2, <1>4, <1>5 DEF ConfigInv, ConfigTypeOK, Exists

(* What the other requests know after a write to group g.                  *)
LEMMA UnsettledKnows ==
    ASSUME ConfigInv, NEW g \in CGroups, NEW taken \in BOOLEAN,
           \A h \in CGroups : cgroup[h] = "live" /\ ~(taken /\ h = g) => cgroup'[h] = "live",
           \A b \in bound : ~(taken /\ b[1] = g) => b \in bound'
    PROVE  /\ Unsettled(g, taken) \in [ConfigRequests -> ConfigRequestType]
           /\ \A s \in ConfigRequests :
                /\ DirectKnows(Unsettled(g, taken)[s], cgroup', bound')
                /\ ResolveKnows(Unsettled(g, taken)[s], cgroup', bound', assigned')
                /\ Unsettled(g, taken)[s].pc = areq[s].pc
                /\ Unsettled(g, taken)[s].host = areq[s].host
<1>1. ASSUME NEW s \in ConfigRequests
      PROVE  /\ Unsettled(g, taken)[s] \in ConfigRequestType
             /\ DirectKnows(Unsettled(g, taken)[s], cgroup', bound')
             /\ ResolveKnows(Unsettled(g, taken)[s], cgroup', bound', assigned')
             /\ Unsettled(g, taken)[s].pc = areq[s].pc
             /\ Unsettled(g, taken)[s].host = areq[s].host
  <2>1. /\ areq[s] \in ConfigRequestType /\ DirectKnows(areq[s], cgroup, bound)
        /\ ResolveKnows(areq[s], cgroup, bound, assigned)
    BY DEF ConfigInv, ConfigTypeOK
  <2>2. CASE Resolving(s) \/ (taken /\ areq[s].group = g)
    <3> DEFINE q == [areq[s] EXCEPT !.steady = FALSE]
    <3>1. Unsettled(g, taken)[s] = q
      BY <2>2 DEF Unsettled
    <3>2. /\ q \in ConfigRequestType /\ q.pc = areq[s].pc /\ q.host = areq[s].host
          /\ q.group = areq[s].group /\ q.policy = areq[s].policy /\ ~q.steady
          /\ q.scopes = areq[s].scopes
      BY <2>1 DEF ConfigRequestType
    <3> HIDE DEF q
    <3>3. DirectKnows(q, cgroup', bound')
      BY <2>1, <3>2 DEF DirectKnows
    <3>4. ResolveKnows(q, cgroup', bound', assigned')
      BY <2>1, <3>2 DEF ResolveKnows
    <3> QED BY <3>1, <3>2, <3>3, <3>4
  <2>3. CASE ~(Resolving(s) \/ (taken /\ areq[s].group = g))
    <3>1. Unsettled(g, taken)[s] = areq[s]
      BY <2>3 DEF Unsettled
    <3>2. ResolveKnows(areq[s], cgroup', bound', assigned')
      BY <2>3 DEF ResolveKnows, Resolving
    <3>3. DirectKnows(areq[s], cgroup', bound')
      <4>1. areq[s].pc = "assign" /\ areq[s].steady =>
              LET b == <<areq[s].group, areq[s].policy>> IN b \in bound /\ b[1] = areq[s].group
        BY <2>1 DEF DirectKnows
      <4> QED BY <2>1, <2>3, <4>1 DEF DirectKnows
    <3> QED BY <2>1, <3>1, <3>2, <3>3
  <2> QED BY <2>2, <2>3
<1>2. Unsettled(g, taken) = [s \in ConfigRequests |-> Unsettled(g, taken)[s]]
  BY DEF Unsettled
<1> QED BY <1>1, <1>2

(* A write by hand to group g.                                             *)
LEMMA EditKeepsInv ==
    ASSUME ConfigInv, NEW g \in CGroups, NEW taken \in BOOLEAN,
           \A h \in CGroups : cgroup[h] = "live" /\ ~(taken /\ h = g) => cgroup'[h] = "live",
           \A b \in bound : ~(taken /\ b[1] = g) => b \in bound',
           areq' = Unsettled(g, taken),
           cgroup' \in [CGroups -> {"unused", "live", "deleted", "gone"}],
           called' \in [CGroups -> GroupNames \cup {NoGroup}],
           bound' \subseteq CGroups \X Policies, assigned' \subseteq CGroups \X Targets,
           doubled' \subseteq GroupNames, doubled \subseteq doubled',
           \A h \in CGroups : cgroup'[h] \in {"live", "deleted"} => called'[h] \in GroupNames,
           \A h \in CGroups, n \in HostNames \ doubled' :
             LiveAs(h, n, cgroup', called') => LiveAs(h, n, cgroup, called)
    PROVE  ConfigInv'
<1>1. /\ areq' \in [ConfigRequests -> ConfigRequestType]
      /\ \A s \in ConfigRequests :
                /\ DirectKnows(areq'[s], cgroup', bound')
                /\ ResolveKnows(areq'[s], cgroup', bound', assigned')
                /\ areq'[s].pc = areq[s].pc /\ areq'[s].host = areq[s].host
  BY UnsettledKnows
<1>2. \A s \in ConfigRequests, n \in HostNames : CreatesAs(areq'[s], n) = CreatesAs(areq[s], n)
  BY <1>1 DEF CreatesAs
<1>3. NamesKnow(cgroup', called', areq', doubled')
  BY <1>2 DEF ConfigInv, NamesKnow
<1> QED BY <1>1, <1>3 DEF ConfigInv, ConfigTypeOK, Exists

LEMMA ConfigEditKeepsInv ==
    ASSUME ConfigInv, NEW g \in CGroups, ConfigEdit(g)
    PROVE  ConfigInv'
<1>1. /\ cgroup \in [CGroups -> {"unused", "live", "deleted", "gone"}]
      /\ called \in [CGroups -> GroupNames \cup {NoGroup}]
      /\ bound \subseteq CGroups \X Policies /\ assigned \subseteq CGroups \X Targets
      /\ doubled \subseteq GroupNames
      /\ \A h \in CGroups : cgroup[h] \in {"live", "deleted"} => called[h] \in GroupNames
  BY DEF ConfigInv, ConfigTypeOK, Exists
<1>2. ASSUME NEW n \in GroupNames, CreateGroup(g, n) PROVE ConfigInv'
  <2>1. /\ cgroup[g] = "unused" /\ cgroup' = [cgroup EXCEPT ![g] = "live"]
        /\ called' = [called EXCEPT ![g] = n] /\ areq' = Unsettled(g, FALSE)
        /\ doubled' = doubled \cup {n} /\ UNCHANGED <<bound, assigned>>
    BY <1>2 DEF CreateGroup
  <2>2. \A h \in CGroups, m \in HostNames \ doubled' :
          LiveAs(h, m, cgroup', called') => LiveAs(h, m, cgroup, called)
    BY <1>1, <2>1 DEF LiveAs
  <2>3. /\ cgroup' \in [CGroups -> {"unused", "live", "deleted", "gone"}]
        /\ called' \in [CGroups -> GroupNames \cup {NoGroup}]
        /\ \A h \in CGroups : cgroup'[h] \in {"live", "deleted"} => called'[h] \in GroupNames
        /\ \A h \in CGroups : cgroup[h] = "live" => cgroup'[h] = "live"
    BY <1>1, <2>1
  <2> QED BY <1>1, <2>1, <2>2, <2>3, EditKeepsInv
<1>a. ASSUME NEW n \in GroupNames, RenameGroup(g, n) PROVE ConfigInv'
  <2>1. /\ called' = [called EXCEPT ![g] = n] /\ areq' = Unsettled(g, FALSE)
        /\ doubled' = doubled \cup {n} /\ UNCHANGED <<cgroup, bound, assigned>>
    BY <1>a DEF RenameGroup
  <2>2. \A h \in CGroups, m \in HostNames \ doubled' :
          LiveAs(h, m, cgroup', called') => LiveAs(h, m, cgroup, called)
    BY <1>1, <2>1 DEF LiveAs
  <2>3. /\ called' \in [CGroups -> GroupNames \cup {NoGroup}]
        /\ \A h \in CGroups : cgroup'[h] \in {"live", "deleted"} => called'[h] \in GroupNames
        /\ doubled' \subseteq GroupNames
    BY <1>1, <2>1
  <2> QED BY <1>1, <2>1, <2>2, <2>3, EditKeepsInv
<1>3. CASE SoftDeleteGroup(g)
  <2>1. /\ cgroup[g] = "live" /\ cgroup' = [cgroup EXCEPT ![g] = "deleted"] /\ areq' = Unsettled(g, TRUE)
        /\ UNCHANGED <<called, bound, assigned, doubled>>
    BY <1>3 DEF SoftDeleteGroup, Live
  <2>2. \A h \in CGroups, m \in HostNames \ doubled' :
          LiveAs(h, m, cgroup', called') => LiveAs(h, m, cgroup, called)
    BY <1>1, <2>1 DEF LiveAs
  <2>3. /\ cgroup' \in [CGroups -> {"unused", "live", "deleted", "gone"}]
        /\ \A h \in CGroups : cgroup'[h] \in {"live", "deleted"} => called'[h] \in GroupNames
        /\ \A h \in CGroups : cgroup[h] = "live" /\ h # g => cgroup'[h] = "live"
    BY <1>1, <2>1
  <2> QED BY <1>1, <2>1, <2>2, <2>3, EditKeepsInv
<1>4. CASE RestoreGroup(g)
  <2>1. /\ cgroup[g] = "deleted" /\ cgroup' = [cgroup EXCEPT ![g] = "live"] /\ areq' = Unsettled(g, FALSE)
        /\ doubled' = doubled \cup {called[g]} /\ UNCHANGED <<called, bound, assigned>>
    BY <1>4 DEF RestoreGroup
  <2>2. \A h \in CGroups, m \in HostNames \ doubled' :
          LiveAs(h, m, cgroup', called') => LiveAs(h, m, cgroup, called)
    BY <1>1, <2>1 DEF LiveAs
  <2>3. /\ cgroup' \in [CGroups -> {"unused", "live", "deleted", "gone"}]
        /\ \A h \in CGroups : cgroup'[h] \in {"live", "deleted"} => called'[h] \in GroupNames
        /\ \A h \in CGroups : cgroup[h] = "live" => cgroup'[h] = "live"
        /\ doubled' \subseteq GroupNames
    BY <1>1, <2>1
  <2> QED BY <1>1, <2>1, <2>2, <2>3, EditKeepsInv
<1>5. CASE EraseConfigGroup(g)
  <2>1. /\ cgroup' = [cgroup EXCEPT ![g] = "gone"] /\ areq' = Unsettled(g, TRUE)
        /\ called' = [called EXCEPT ![g] = NoGroup] /\ UNCHANGED doubled
        /\ bound' = {b \in bound : b[1] # g} /\ assigned' = {a \in assigned : a[1] # g}
    BY <1>5 DEF EraseConfigGroup
  <2>2. \A h \in CGroups, m \in HostNames \ doubled' :
          LiveAs(h, m, cgroup', called') => LiveAs(h, m, cgroup, called)
    BY <1>1, <2>1 DEF LiveAs
  <2>3. /\ cgroup' \in [CGroups -> {"unused", "live", "deleted", "gone"}]
        /\ called' \in [CGroups -> GroupNames \cup {NoGroup}]
        /\ \A h \in CGroups : cgroup'[h] \in {"live", "deleted"} => called'[h] \in GroupNames
        /\ \A h \in CGroups : cgroup[h] = "live" /\ h # g => cgroup'[h] = "live"
    BY <1>1, <2>1
  <2>4. /\ bound' \subseteq CGroups \X Policies /\ assigned' \subseteq CGroups \X Targets
        /\ \A b \in bound : b[1] # g => b \in bound'
    BY <1>1, <2>1
  <2> QED BY <1>1, <2>1, <2>2, <2>3, <2>4, EditKeepsInv
<1>6. ASSUME NEW taken \in BOOLEAN, areq' = Unsettled(g, taken), UNCHANGED <<cgroup, called, doubled>>,
             bound' \subseteq CGroups \X Policies, assigned' \subseteq CGroups \X Targets,
             \A b \in bound : ~(taken /\ b[1] = g) => b \in bound'
      PROVE  ConfigInv'
  BY <1>1, <1>6, EditKeepsInv
<1>7. ASSUME NEW p \in Policies, AddBinding(g, p) PROVE ConfigInv'
  <2>1. areq' = Unsettled(g, FALSE) /\ bound' = bound \cup {<<g, p>>} /\ UNCHANGED <<cgroup, called, assigned, doubled>>
    BY <1>7 DEF AddBinding
  <2>2. bound' \subseteq CGroups \X Policies /\ \A b \in bound : b \in bound'
    BY <1>1, <2>1
  <2> QED BY <1>1, <1>6, <2>1, <2>2
<1>8. ASSUME NEW p \in Policies, RemoveBinding(g, p) PROVE ConfigInv'
  <2>1. areq' = Unsettled(g, TRUE) /\ bound' = bound \ {<<g, p>>} /\ UNCHANGED <<cgroup, called, assigned, doubled>>
    BY <1>8 DEF RemoveBinding
  <2>2. \A b \in bound : b[1] # g => b \in bound'
    BY <2>1
  <2> QED BY <1>1, <1>6, <2>1, <2>2
<1>9. ASSUME NEW t \in Targets, AddAssignment(g, t) PROVE ConfigInv'
  <2>1. areq' = Unsettled(g, FALSE) /\ assigned' = assigned \cup {<<g, t>>} /\ UNCHANGED <<cgroup, called, bound, doubled>>
    BY <1>9 DEF AddAssignment
  <2>2. assigned' \subseteq CGroups \X Targets
    BY <1>1, <2>1
  <2> QED BY <1>1, <1>6, <2>1, <2>2
<1>10. ASSUME NEW t \in Targets, RemoveAssignment(g, t) PROVE ConfigInv'
  <2>1. areq' = Unsettled(g, TRUE) /\ assigned' = assigned \ {<<g, t>>} /\ UNCHANGED <<cgroup, called, bound, doubled>>
    BY <1>10 DEF RemoveAssignment
  <2> QED BY <1>1, <1>6, <2>1
<1> QED BY <1>2, <1>a, <1>3, <1>4, <1>5, <1>7, <1>8, <1>9, <1>10 DEF ConfigEdit

LEMMA DirectFindKeepsInv ==
    ASSUME ConfigInv, NEW r \in ConfigRequests, NEW h \in Hosts, NEW p \in Policies, DirectFind(r, h, p)
    PROVE  ConfigInv'
<1> DEFINE q == [ConfigIdle EXCEPT !.host = h, !.policy = p]
           n == HostName[h]
           others == {s \in ConfigRequests : ConfigAt(s, "create") /\ HostName[areq[s].host] = n}
<1>1. /\ areq \in [ConfigRequests -> ConfigRequestType] /\ n \in HostNames
      /\ UNCHANGED ConfigTables /\ doubled \subseteq GroupNames /\ areq[r].pc = "idle"
  BY DEF ConfigInv, ConfigTypeOK, DirectFind, HostNames, ConfigAt
<1>2. CASE /\ Found(n) = {}
           /\ ConfigMove(r, [q EXCEPT !.pc = "create"])
           /\ doubled' = IF others = {} THEN doubled ELSE doubled \cup {n}
  <2> DEFINE w == [q EXCEPT !.pc = "create"]
  <2>1. areq' = [areq EXCEPT ![r] = w] /\ UNCHANGED <<cgroup, called, bound, assigned>>
    BY <1>1, <1>2 DEF ConfigMove, ConfigTables
  <2>2. w \in ConfigRequestType /\ w.pc = "create" /\ w.host = h /\ w.policy = p
    BY ConfigIdleKnows DEF ConfigRequestType
  <2> HIDE DEF w
  <2>3. DirectKnows(w, cgroup, bound) /\ ResolveKnows(w, cgroup, bound, assigned)
    BY <2>2 DEF DirectKnows, ResolveKnows
  <2>4. \A g \in CGroups : ~LiveAs(g, n, cgroup, called)
    BY <1>2 DEF Found, LiveNamed, Live, LiveAs
  <2>5. \A s \in ConfigRequests, m \in HostNames :
          CreatesAs(areq'[s], m) <=> (s # r /\ CreatesAs(areq[s], m)) \/ (s = r /\ m = n)
    BY <1>1, <2>1, <2>2 DEF CreatesAs
  <2>6. n \notin doubled' => \A s \in ConfigRequests : ~CreatesAs(areq[s], n)
    BY <1>2 DEF CreatesAs, ConfigAt
  <2>7. doubled' \subseteq GroupNames /\ doubled \subseteq doubled'
    BY <1>1, <1>2 DEF GroupNames
  <2> HIDE DEF n
  <2>8. NamesKnow(cgroup', called', areq', doubled')
    BY <1>1, <2>1, <2>4, <2>5, <2>6, <2>7 DEF ConfigInv, NamesKnow
  <2>9. /\ areq' \in [ConfigRequests -> ConfigRequestType]
        /\ \A s \in ConfigRequests : DirectKnows(areq'[s], cgroup, bound)
                                     /\ ResolveKnows(areq'[s], cgroup, bound, assigned)
    BY <1>1, <2>1, <2>2, <2>3 DEF ConfigInv
  <2> QED BY <2>1, <2>7, <2>8, <2>9 DEF ConfigInv, ConfigTypeOK, Exists
<1>3. ASSUME NEW g \in Found(n), ConfigMove(r, [q EXCEPT !.pc = "bind", !.group = g]), UNCHANGED doubled
      PROVE  ConfigInv'
  <2> DEFINE w == [q EXCEPT !.pc = "bind", !.group = g]
  <2>1. g \in CGroups /\ cgroup[g] = "live"
    BY DEF Found, LiveNamed, Live
  <2>2. w \in ConfigRequestType /\ w.pc = "bind" /\ w.host = h /\ w.policy = p /\ w.group = g
    BY <2>1, ConfigIdleKnows DEF ConfigRequestType
  <2>3. ConfigMove(r, w)
    BY <1>3
  <2> HIDE DEF w
  <2>4. DirectKnows(w, cgroup, bound) /\ ResolveKnows(w, cgroup, bound, assigned)
    BY <2>1, <2>2 DEF DirectKnows, ResolveKnows
  <2> QED BY <1>1, <1>3, <2>2, <2>3, <2>4, ConfigMoveKeepsInv
<1> QED BY <1>2, <1>3 DEF DirectFind

LEMMA DirectCreateKeepsInv ==
    ASSUME ConfigInv, NEW r \in ConfigRequests, NEW g \in CGroups, DirectCreate(r, g)
    PROVE  ConfigInv'
<1> DEFINE n == HostName[areq[r].host]
           w == [areq[r] EXCEPT !.pc = "bind", !.group = g]
           U == Unsettled(g, FALSE)
<1>1. /\ areq[r].pc = "create" /\ cgroup[g] = "unused" /\ cgroup' = [cgroup EXCEPT ![g] = "live"]
      /\ called' = [called EXCEPT ![g] = n] /\ areq' = [U EXCEPT ![r] = w]
      /\ UNCHANGED <<bound, assigned, doubled>>
  BY DEF DirectCreate, ConfigAt
<1>2. /\ areq[r] \in ConfigRequestType /\ DirectKnows(areq[r], cgroup, bound)
      /\ cgroup \in [CGroups -> {"unused", "live", "deleted", "gone"}]
      /\ called \in [CGroups -> GroupNames \cup {NoGroup}]
      /\ \A h \in CGroups : cgroup[h] \in {"live", "deleted"} => called[h] \in GroupNames
  BY DEF ConfigInv, ConfigTypeOK, Exists
<1>3. n \in HostNames /\ areq[r].host \in Hosts
  BY <1>1, <1>2 DEF DirectKnows, HostNames
<1>4. /\ w \in ConfigRequestType /\ w.pc = "bind" /\ w.host = areq[r].host
      /\ w.policy = areq[r].policy /\ w.group = g
  BY <1>2 DEF ConfigRequestType
<1> HIDE DEF w
<1>5. /\ cgroup' \in [CGroups -> {"unused", "live", "deleted", "gone"}] /\ cgroup'[g] = "live"
      /\ called' \in [CGroups -> GroupNames \cup {NoGroup}]
      /\ \A h \in CGroups : cgroup'[h] \in {"live", "deleted"} => called'[h] \in GroupNames
      /\ \A h \in CGroups : cgroup[h] = "live" => cgroup'[h] = "live"
  BY <1>1, <1>2, <1>3 DEF GroupNames
<1>6. DirectKnows(w, cgroup', bound') /\ ResolveKnows(w, cgroup', bound', assigned')
  BY <1>1, <1>2, <1>4, <1>5 DEF DirectKnows, ResolveKnows
<1>7. /\ U \in [ConfigRequests -> ConfigRequestType]
      /\ \A s \in ConfigRequests :
                /\ DirectKnows(U[s], cgroup', bound')
                /\ ResolveKnows(U[s], cgroup', bound', assigned')
                /\ U[s].pc = areq[s].pc /\ U[s].host = areq[s].host
  BY <1>1, <1>5, UnsettledKnows
<1> HIDE DEF U
<1>8. /\ areq' \in [ConfigRequests -> ConfigRequestType]
      /\ \A s \in ConfigRequests :
           DirectKnows(areq'[s], cgroup', bound') /\ ResolveKnows(areq'[s], cgroup', bound', assigned')
  BY <1>1, <1>4, <1>6, <1>7
<1>9. \A s \in ConfigRequests, m \in HostNames : CreatesAs(areq'[s], m) <=> s # r /\ CreatesAs(areq[s], m)
  BY <1>1, <1>4, <1>7 DEF CreatesAs
<1>10. CreatesAs(areq[r], n)
  BY <1>1 DEF CreatesAs
<1>11. \A h \in CGroups, m \in HostNames :
         LiveAs(h, m, cgroup', called') => LiveAs(h, m, cgroup, called) \/ (h = g /\ m = n)
  BY <1>1, <1>2 DEF LiveAs
<1> HIDE DEF n
<1>12. NamesKnow(cgroup', called', areq', doubled')
  <2> SUFFICES ASSUME NEW m \in HostNames \ doubled
               PROVE  /\ \A h, k \in CGroups : LiveAs(h, m, cgroup', called') /\ LiveAs(k, m, cgroup', called') => h = k
                      /\ \A s \in ConfigRequests : CreatesAs(areq'[s], m) =>
                           /\ \A h \in CGroups : ~LiveAs(h, m, cgroup', called')
                           /\ \A u \in ConfigRequests : CreatesAs(areq'[u], m) => u = s
    BY <1>1 DEF NamesKnow
  <2>1. /\ \A h, k \in CGroups : LiveAs(h, m, cgroup, called) /\ LiveAs(k, m, cgroup, called) => h = k
        /\ \A s \in ConfigRequests : CreatesAs(areq[s], m) =>
             /\ \A h \in CGroups : ~LiveAs(h, m, cgroup, called)
             /\ \A u \in ConfigRequests : CreatesAs(areq[u], m) => u = s
    BY DEF ConfigInv, NamesKnow
  <2>2. CASE m = n
    BY <1>9, <1>10, <1>11, <2>1, <2>2
  <2>3. CASE m # n
    <3>1. \A h \in CGroups : LiveAs(h, m, cgroup', called') => LiveAs(h, m, cgroup, called)
      BY <1>11, <2>3
    <3> QED BY <1>9, <2>1, <3>1
  <2> QED BY <2>2, <2>3
<1> QED BY <1>1, <1>5, <1>8, <1>12 DEF ConfigInv, ConfigTypeOK, Exists

(* A write of a request's own, of rows in its group.                       *)
LEMMA DirectWriteKeepsInv ==
    ASSUME ConfigInv, NEW r \in ConfigRequests, NEW g \in CGroups, NEW w \in ConfigRequestType,
           areq' = [Unsettled(g, FALSE) EXCEPT ![r] = w], w.pc # "create",
           UNCHANGED <<cgroup, called, doubled>>, bound \subseteq bound',
           bound' \subseteq CGroups \X Policies, assigned' \subseteq CGroups \X Targets,
           DirectKnows(w, cgroup', bound'), ResolveKnows(w, cgroup', bound', assigned')
    PROVE  ConfigInv'
<1> DEFINE U == Unsettled(g, FALSE)
<1>1. /\ U \in [ConfigRequests -> ConfigRequestType]
      /\ \A s \in ConfigRequests :
                /\ DirectKnows(U[s], cgroup', bound')
                /\ ResolveKnows(U[s], cgroup', bound', assigned')
                /\ U[s].pc = areq[s].pc /\ U[s].host = areq[s].host
  BY UnsettledKnows
<1>2. areq' = [U EXCEPT ![r] = w]
  OBVIOUS
<1> HIDE DEF U
<1>3. /\ areq' \in [ConfigRequests -> ConfigRequestType]
      /\ \A s \in ConfigRequests :
           DirectKnows(areq'[s], cgroup', bound') /\ ResolveKnows(areq'[s], cgroup', bound', assigned')
  BY <1>1, <1>2
<1>4. \A s \in ConfigRequests, m \in HostNames : CreatesAs(areq'[s], m) => CreatesAs(areq[s], m)
  BY <1>1, <1>2 DEF CreatesAs
<1>5. NamesKnow(cgroup', called', areq', doubled')
  BY <1>4 DEF ConfigInv, NamesKnow
<1> QED BY <1>3, <1>5 DEF ConfigInv, ConfigTypeOK, Exists

LEMMA DirectBindKeepsInv ==
    ASSUME ConfigInv, NEW r \in ConfigRequests, DirectBind(r) \/ DirectAssign(r)
    PROVE  ConfigInv'
<1> DEFINE q == areq[r]
<1>1. /\ q \in ConfigRequestType /\ DirectKnows(q, cgroup, bound) /\ q.pc \in {"bind", "assign"}
      /\ bound \subseteq CGroups \X Policies /\ assigned \subseteq CGroups \X Targets
      /\ UNCHANGED <<cgroup, called, doubled>>
  BY DEF ConfigInv, ConfigTypeOK, DirectBind, DirectAssign, ConfigAt
<1>2. q.group \in CGroups /\ q.host \in Hosts /\ q.policy \in Policies
  BY <1>1 DEF DirectKnows
<1>3. q.host \in Targets
  BY <1>2, ScopesAssumption DEF Targets
<1>4. CASE ~Exists(q.group)
  <2>1. ConfigMove(r, ConfigIdle) /\ UNCHANGED <<ConfigTables, doubled>>
    BY <1>4 DEF DirectBind, DirectAssign, ConfigTables
  <2> QED BY <2>1, ConfigIdleKnows, ConfigMoveKeepsInv
<1>5. CASE DirectBind(r) /\ Exists(q.group)
  <2> DEFINE w == [q EXCEPT !.pc = "assign"]
  <2>1. bound' = bound \cup {<<q.group, q.policy>>} /\ areq' = [Unsettled(q.group, FALSE) EXCEPT ![r] = w]
        /\ UNCHANGED assigned /\ q.pc = "bind"
    BY <1>5 DEF DirectBind, Bind, ConfigAt
  <2>2. /\ w \in ConfigRequestType /\ w.pc = "assign" /\ w.group = q.group /\ w.policy = q.policy
        /\ w.host = q.host /\ w.steady = q.steady
    BY <1>1 DEF ConfigRequestType
  <2> HIDE DEF w
  <2>3. DirectKnows(w, cgroup', bound') /\ ResolveKnows(w, cgroup', bound', assigned')
    BY <1>1, <2>1, <2>2 DEF DirectKnows, ResolveKnows
  <2>4. bound' \subseteq CGroups \X Policies /\ bound \subseteq bound' /\ assigned' \subseteq CGroups \X Targets
    BY <1>1, <1>2, <2>1
  <2> QED BY <1>1, <1>2, <2>1, <2>2, <2>3, <2>4, DirectWriteKeepsInv
<1>6. CASE DirectAssign(r) /\ Exists(q.group)
  <2>1. assigned' = assigned \cup {<<q.group, q.host>>} /\ UNCHANGED bound
        /\ areq' = [Unsettled(q.group, FALSE) EXCEPT ![r] = ConfigIdle]
    BY <1>6 DEF DirectAssign
  <2>2. assigned' \subseteq CGroups \X Targets
    BY <1>1, <1>2, <1>3, <2>1
  <2> QED BY <1>1, <1>2, <2>1, <2>2, ConfigIdleKnows, DirectWriteKeepsInv
<1> QED BY <1>4, <1>5, <1>6

LEMMA ResolveKeepsInv ==
    ASSUME ConfigInv, NEW r \in ConfigRequests,
           \/ \E h \in Hosts : ResolveStart(r, h)
           \/ \E t \in Targets : ResolveScope(r, t)
           \/ ResolveGroup(r) \/ ResolveBindings(r) \/ ResolveDone(r) \/ ConfigFail(r)
    PROVE  ConfigInv'
<1> DEFINE q == areq[r]
           D == ScopesOf[q.host] \ q.scopes
<1>1. /\ q \in ConfigRequestType /\ ResolveKnows(q, cgroup, bound, assigned)
      /\ bound \subseteq CGroups \X Policies /\ ConfigIdle \in ConfigRequestType
  BY ConfigIdleKnows DEF ConfigInv, ConfigTypeOK
<1>2. ASSUME NEW w \in ConfigRequestType, w.pc \in {"scopes", "group", "bindings"}, ConfigMove(r, w),
             ResolveKnows(w, cgroup, bound, assigned), UNCHANGED <<ConfigTables, doubled>>
      PROVE  ConfigInv'
  <2>1. DirectKnows(w, cgroup, bound)
    BY <1>2 DEF DirectKnows
  <2> QED BY <1>2, <2>1, ConfigMoveKeepsInv
<1>3. ASSUME NEW h \in Hosts, ResolveStart(r, h) PROVE ConfigInv'
  <2> DEFINE w == [ConfigIdle EXCEPT !.pc = "scopes", !.host = h, !.scopes = ScopesOf[h]]
  <2>1. ConfigMove(r, w) /\ UNCHANGED <<ConfigTables, doubled>>
    BY <1>3 DEF ResolveStart
  <2>2. ScopesOf[h] \in SUBSET Targets
    BY DEF Targets
  <2>3. w \in ConfigRequestType /\ w.pc = "scopes" /\ w.host = h /\ w.scopes = ScopesOf[h] /\ w.seen = {}
    BY <1>1, <2>2 DEF ConfigRequestType, ConfigIdle
  <2> HIDE DEF w
  <2>4. ResolveKnows(w, cgroup, bound, assigned)
    BY <2>3 DEF ResolveKnows, AppliesBy, StillToShow
  <2> QED BY <1>2, <2>1, <2>3, <2>4
<1>4. ASSUME NEW t \in Targets, ResolveScope(r, t) PROVE ConfigInv'
  <2> DEFINE gs == {g \in CGroups : Live(g) /\ <<g, t>> \in assigned}
             w == [q EXCEPT !.pc = "group", !.scopes = @ \ {t}, !.groups = gs]
  <2>1. ConfigMove(r, w) /\ UNCHANGED <<ConfigTables, doubled>> /\ q.pc = "scopes" /\ t \in q.scopes
    BY <1>4 DEF ResolveScope, ConfigAt
  <2>2. /\ w \in ConfigRequestType /\ w.pc = "group" /\ w.scopes = q.scopes \ {t}
        /\ w.groups = gs /\ w.host = q.host /\ w.seen = q.seen /\ w.steady = q.steady
    BY <1>1 DEF ConfigRequestType
  <2> HIDE DEF w
  <2>3. ResolveKnows(w, cgroup, bound, assigned)
    <3>0. StillToShow(w) = gs /\ StillToShow(q) = {}
      BY <2>1, <2>2 DEF StillToShow
    <3>1. CASE ~q.steady
      BY <1>1, <2>1, <2>2, <3>1 DEF ResolveKnows
    <3>2. CASE q.steady
      <4> DEFINE E == ScopesOf[w.host] \ w.scopes
      <4>1. q.host \in Hosts /\ D \subseteq E /\ E \subseteq D \cup {t}
            /\ (t \in ScopesOf[q.host] => t \in E)
        BY <1>1, <2>1, <2>2 DEF ResolveKnows
      <4>2. \A b \in AppliesBy(D, cgroup, bound, assigned) : b \in q.seen
        BY <1>1, <2>1, <3>0, <3>2 DEF ResolveKnows
      <4>3. q.seen \subseteq AppliesBy(D, cgroup, bound, assigned)
        BY <1>1, <2>1, <3>2 DEF ResolveKnows
      <4>4. t \in E
        BY <1>1, <2>1, <2>2, <4>1 DEF ResolveKnows
      <4>5. w.seen \subseteq AppliesBy(E, cgroup, bound, assigned)
        BY <2>2, <4>1, <4>3 DEF AppliesBy
      <4>6. \A b \in AppliesBy(E, cgroup, bound, assigned) : b[1] \in gs \/ b \in w.seen
        BY <1>1, <2>2, <4>1, <4>2 DEF AppliesBy, Live
      <4>7. \A g \in gs : cgroup[g] = "live" /\ \E u \in E : <<g, u>> \in assigned
        BY <4>4 DEF Live
      <4>8. w.scopes \subseteq ScopesOf[w.host]
        BY <1>1, <2>1, <2>2 DEF ResolveKnows
      <4> QED BY <2>2, <3>0, <4>1, <4>5, <4>6, <4>7, <4>8 DEF ResolveKnows
    <3> QED BY <3>1, <3>2
  <2> QED BY <1>2, <2>1, <2>2, <2>3
<1>5. CASE ResolveGroup(r)
  <2>0. q.pc = "group" /\ UNCHANGED <<ConfigTables, doubled>>
    BY <1>5 DEF ResolveGroup, ConfigAt
  <2>1. CASE q.groups = {} /\ ConfigMove(r, [q EXCEPT !.pc = "scopes"])
    <3> DEFINE w == [q EXCEPT !.pc = "scopes"]
    <3>1. /\ w \in ConfigRequestType /\ w.pc = "scopes" /\ w.scopes = q.scopes /\ w.host = q.host
          /\ w.seen = q.seen /\ w.steady = q.steady
      BY <1>1 DEF ConfigRequestType
    <3>2. ConfigMove(r, w)
      BY <2>1
    <3> HIDE DEF w
    <3>3. StillToShow(q) = {} /\ StillToShow(w) = {}
      BY <2>0, <2>1, <3>1 DEF StillToShow
    <3>4. ResolveKnows(w, cgroup, bound, assigned)
      BY <1>1, <2>0, <3>1, <3>3 DEF ResolveKnows
    <3> QED BY <1>2, <2>0, <3>1, <3>2, <3>4
  <2>2. ASSUME NEW g \in q.groups, Live(g),
               ConfigMove(r, [q EXCEPT !.pc = "bindings", !.group = g, !.groups = @ \ {g}])
        PROVE  ConfigInv'
    <3> DEFINE w == [q EXCEPT !.pc = "bindings", !.group = g, !.groups = @ \ {g}]
    <3>0. g \in CGroups
      BY <1>1 DEF ConfigRequestType
    <3>1. /\ w \in ConfigRequestType /\ w.pc = "bindings" /\ w.scopes = q.scopes /\ w.host = q.host
          /\ w.seen = q.seen /\ w.steady = q.steady /\ w.group = g /\ w.groups = q.groups \ {g}
      BY <1>1, <3>0 DEF ConfigRequestType
    <3>2. ConfigMove(r, w)
      BY <2>2
    <3> HIDE DEF w
    <3>3. StillToShow(q) = q.groups /\ StillToShow(w) = q.groups
      BY <2>0, <3>1 DEF StillToShow
    <3>4. ResolveKnows(w, cgroup, bound, assigned)
      BY <1>1, <2>0, <3>0, <3>1, <3>3 DEF ResolveKnows
    <3> QED BY <1>2, <2>0, <3>1, <3>2, <3>4
  <2>3. CASE ConfigMove(r, ConfigIdle)
    BY <2>0, <2>3, ConfigIdleKnows, ConfigMoveKeepsInv
  <2> QED BY <1>5, <2>1, <2>2, <2>3 DEF ResolveGroup
<1>6. CASE ResolveBindings(r)
  <2> DEFINE seen == Shown(q)
             w == [q EXCEPT !.pc = "group", !.group = NoGroup, !.seen = seen]
  <2>1. ConfigMove(r, w) /\ UNCHANGED <<ConfigTables, doubled>> /\ q.pc = "bindings"
    BY <1>6 DEF ResolveBindings, ConfigAt
  <2>2. seen = q.seen \cup {b \in bound : b[1] = q.group} /\ seen \subseteq CGroups \X Policies
    BY <1>1 DEF Shown, BindingsOf, ConfigRequestType
  <2> HIDE DEF seen
  <2>3. /\ w \in ConfigRequestType /\ w.pc = "group" /\ w.scopes = q.scopes /\ w.host = q.host
        /\ w.seen = seen /\ w.steady = q.steady /\ w.groups = q.groups
    BY <1>1, <2>2 DEF ConfigRequestType
  <2> HIDE DEF w
  <2>4. StillToShow(q) = q.groups \cup {q.group} /\ StillToShow(w) = q.groups
    BY <2>1, <2>3 DEF StillToShow
  <2>5. q.steady =>
          /\ seen \subseteq AppliesBy(D, cgroup, bound, assigned)
          /\ \A b \in AppliesBy(D, cgroup, bound, assigned) : b[1] \in q.groups \/ b \in seen
          /\ \A g \in q.groups : cgroup[g] = "live" /\ \E t \in D : <<g, t>> \in assigned
    <3> SUFFICES ASSUME q.steady
                 PROVE  /\ seen \subseteq AppliesBy(D, cgroup, bound, assigned)
                        /\ \A b \in AppliesBy(D, cgroup, bound, assigned) : b[1] \in q.groups \/ b \in seen
                        /\ \A g \in q.groups : cgroup[g] = "live" /\ \E t \in D : <<g, t>> \in assigned
      OBVIOUS
    <3>1. /\ q.seen \subseteq AppliesBy(D, cgroup, bound, assigned)
          /\ \A b \in AppliesBy(D, cgroup, bound, assigned) : b[1] \in q.groups \cup {q.group} \/ b \in q.seen
          /\ \A g \in q.groups \cup {q.group} : cgroup[g] = "live" /\ \E t \in D : <<g, t>> \in assigned
      BY <1>1, <2>1, <2>4 DEF ResolveKnows
    <3> QED BY <2>2, <3>1 DEF AppliesBy
  <2>6. ResolveKnows(w, cgroup, bound, assigned)
    BY <1>1, <2>1, <2>3, <2>4, <2>5 DEF ResolveKnows
  <2> QED BY <1>2, <2>1, <2>3, <2>6
<1>7. CASE ResolveDone(r) \/ ConfigFail(r)
  BY <1>7, ConfigIdleKnows, ConfigMoveKeepsInv DEF ResolveDone, ConfigFail
<1> QED BY <1>3, <1>4, <1>5, <1>6, <1>7

LEMMA ConfigNextKeepsInv == ConfigInv /\ [ConfigNext]_configVars => ConfigInv'
<1> SUFFICES ASSUME ConfigInv, [ConfigNext]_configVars PROVE ConfigInv'
  OBVIOUS
<1>1. CASE UNCHANGED configVars
  BY <1>1 DEF configVars, ConfigInv, ConfigTypeOK, Exists
<1> QED BY <1>1, ConfigEditKeepsInv, DirectFindKeepsInv, DirectCreateKeepsInv, DirectBindKeepsInv, ResolveKeepsInv
        DEF ConfigNext, ConfigStep

LEMMA ConfigInvHolds == ConfigSpec => []ConfigInv
<1>1. ConfigInit => ConfigInv
  <2> SUFFICES ASSUME ConfigInit PROVE ConfigInv
    OBVIOUS
  <2>1. /\ \A g \in CGroups : cgroup[g] = "unused"
        /\ \A r \in ConfigRequests : areq[r] = ConfigIdle
    BY DEF ConfigInit
  <2>2. ConfigTypeOK
    BY ConfigIdleKnows DEF ConfigInit, ConfigTypeOK
  <2>3. NamesKnow(cgroup, called, areq, doubled)
    BY <2>1, ConfigIdleKnows DEF NamesKnow, LiveAs, CreatesAs
  <2> QED BY <2>1, <2>2, <2>3, ConfigIdleKnows DEF ConfigInv, Exists
<1> QED BY <1>1, ConfigNextKeepsInv, PTL DEF ConfigSpec

(* When a direct assignment returns, its policy applies.                   *)
LEMMA AssignedApplies ==
    ASSUME ConfigInv, NEW r \in ConfigRequests, areq[r].pc \in {"bind", "assign"}, areq[r].steady,
           DirectAssign(r) \/ (DirectBind(r) /\ areq'[r].pc = "idle"),
           NEW h \in Hosts, NEW p \in Policies, areq[r].host = h, areq[r].policy = p
    PROVE  (\E b \in Applied(h) : b[2] = p)'
<1> DEFINE q == areq[r]
<1>1. /\ areq \in [ConfigRequests -> ConfigRequestType] /\ DirectKnows(q, cgroup, bound)
      /\ q \in ConfigRequestType
  BY DEF ConfigInv, ConfigTypeOK
<1>2. q.group \in CGroups /\ q.host \in Hosts /\ cgroup[q.group] = "live" /\ Exists(q.group)
  BY <1>1 DEF DirectKnows, Exists
<1>3. DirectAssign(r)
  <2>1. ASSUME DirectBind(r), areq'[r].pc = "idle" PROVE FALSE
    <3> DEFINE w == [q EXCEPT !.pc = "assign"]
               U == Unsettled(q.group, FALSE)
    <3>1. areq' = [U EXCEPT ![r] = w] /\ w.pc = "assign"
      BY <1>1, <1>2, <2>1 DEF DirectBind, Bind, ConfigRequestType
    <3>2. DOMAIN U = ConfigRequests
      BY DEF Unsettled
    <3> QED BY <2>1, <3>1, <3>2
  <2> QED BY <2>1
<1>4. /\ assigned' = assigned \cup {<<q.group, q.host>>} /\ UNCHANGED <<cgroup, bound>> /\ q.pc = "assign"
  BY <1>2, <1>3 DEF DirectAssign, ConfigAt
<1> DEFINE b == <<q.group, q.policy>>
<1>5. b \in bound' /\ b[1] = q.group /\ b[2] = q.policy
  BY <1>1, <1>4 DEF DirectKnows
<1>6. q.host \in ScopesOf[q.host] /\ <<b[1], q.host>> \in assigned'
  BY <1>2, <1>4, ScopesAssumption
<1>7. b \in {c \in bound' : cgroup'[c[1]] = "live" /\ \E t \in ScopesOf[q.host] : <<c[1], t>> \in assigned'}
  BY <1>2, <1>4, <1>5, <1>6
<1> QED BY <1>5, <1>7 DEF Applied, Live

LEMMA ConfigTypeCorrect == ConfigSpec => []ConfigTypeOK
BY ConfigInvHolds, PTL DEF ConfigInv

(* For any hosts, groups, policies and requests: a direct assignment that  *)
(* nothing has been taken from applies when it returns, searches that do   *)
(* not overlap make one group of a name, and a resolution beside which     *)
(* nothing is written shows exactly what applies.                          *)
THEOREM DirectAssignmentsWork == ConfigSpec => DirectAssignmentWorks
<1>1. ConfigInv => OneDirectGroup
  <2> SUFFICES ASSUME ConfigInv, NEW n \in HostNames \ doubled PROVE Cardinality(LiveNamed(n)) <= 1
    BY DEF OneDirectGroup
  <2>1. \A g, h \in LiveNamed(n) : g = h
    BY DEF ConfigInv, NamesKnow, LiveAs, LiveNamed, Live
  <2>2. CASE LiveNamed(n) = {}
    <3>1. Cardinality(LiveNamed(n)) = 0
      BY <2>2, FS_EmptySet
    <3> QED BY <3>1
  <2>3. ASSUME NEW g \in LiveNamed(n) PROVE Cardinality(LiveNamed(n)) <= 1
    <3>1. LiveNamed(n) = {g}
      BY <2>1
    <3>2. Cardinality(LiveNamed(n)) = 1
      BY <3>1, FS_Singleton
    <3> QED BY <3>2
  <2> QED BY <2>2, <2>3
<1>2. ConfigInv => ResolvedAsAssigned
  <2> SUFFICES ASSUME ConfigInv, NEW r \in ConfigRequests, ConfigAt(r, "scopes"), areq[r].scopes = {}, areq[r].steady
               PROVE  areq[r].seen = Applied(areq[r].host)
    BY DEF ResolvedAsAssigned
  <2>1. ResolveKnows(areq[r], cgroup, bound, assigned) /\ areq[r].pc = "scopes"
    BY DEF ConfigInv, ConfigAt
  <2>2. StillToShow(areq[r]) = {}
    BY <2>1 DEF StillToShow
  <2>3. AppliesBy(ScopesOf[areq[r].host] \ areq[r].scopes, cgroup, bound, assigned) = Applied(areq[r].host)
    BY DEF AppliesBy, Applied, Live
  <2> QED BY <2>1, <2>2, <2>3 DEF ResolveKnows
<1>3. ConfigInv => [\A r \in ConfigRequests, h \in Hosts, p \in Policies :
         /\ areq[r].pc \in {"bind", "assign"}
         /\ areq[r].host = h /\ areq[r].policy = p
         /\ DirectAssign(r) \/ (DirectBind(r) /\ areq'[r].pc = "idle")
         /\ areq[r].steady
         => (\E b \in Applied(h) : b[2] = p)']_configVars
  <2> SUFFICES ASSUME ConfigInv, NEW r \in ConfigRequests, areq[r].pc \in {"bind", "assign"},
                      DirectAssign(r) \/ (DirectBind(r) /\ areq'[r].pc = "idle"), areq[r].steady,
                      NEW h \in Hosts, NEW p \in Policies, areq[r].host = h, areq[r].policy = p
               PROVE  (\E b \in Applied(h) : b[2] = p)'
    OBVIOUS
  <2> QED BY AssignedApplies
<1> QED BY <1>1, <1>2, <1>3, ConfigInvHolds, PTL DEF DirectAssignmentWorks, DirectPolicyApplies

-----------------------------------------------------------------------------
(* ModuleResolver.                                                         *)

(* A visited module is in the closure of the selection and has a version;  *)
(* whoever is above another on the stack is reachable from it; and what is *)
(* in the order stands after all it needs.                                 *)
StackKnows ==
    /\ \A i \in DOMAIN stack : stack[i] \in Closure(selected) \cap versioned
    /\ \A i, j \in DOMAIN stack : i < j => stack[j] \in Below(stack[i])
    /\ IsInjective(stack) /\ Grey \cap Black = {}

OrderKnows ==
    /\ Black \subseteq Closure(selected) \cap versioned
    /\ IsInjective(planOrder)
    /\ \A i \in DOMAIN planOrder :
         needs[planOrder[i]] \subseteq {planOrder[j] : j \in 1 .. (i - 1)}
    /\ Range(planAdded) = Black \ selected /\ IsInjective(planAdded)

Uncalled == outcome = "none" => stack = <<>> /\ planOrder = <<>> /\ planAdded = <<>>

ResolverInv == ResolverTypeOK /\ Uncalled /\ StackKnows /\ OrderKnows /\ PlanIsSound

-----------------------------------------------------------------------------
(* The least closed set.                                                   *)

LEMMA ClosureContains ==
    ASSUME NEW S \in SUBSET CatalogModules
    PROVE  S \subseteq Closure(S) /\ Closure(S) \subseteq CatalogModules
BY DEF Closure

LEMMA ClosureIsClosed ==
    ASSUME ResolverTypeOK, NEW S, NEW m \in Closure(S) \cap versioned
    PROVE  needs[m] \subseteq Closure(S)
BY DEF Closure, ClosedUnderNeeds, ResolverTypeOK

LEMMA ClosureIsLeast ==
    ASSUME NEW S, NEW T \in SUBSET CatalogModules, S \subseteq T, ClosedUnderNeeds(T)
    PROVE  Closure(S) \subseteq T
BY DEF Closure

(* Sequences without repetitions, and a list's range with one more.        *)
LEMMA AppendShape ==
    ASSUME NEW S, NEW list \in Seq(S), NEW x \in S
    PROVE  LET longer == Append(list, x) IN
           /\ longer \in Seq(S) /\ Len(longer) = Len(list) + 1
           /\ \A i \in DOMAIN list : i \in DOMAIN longer /\ longer[i] = list[i]
           /\ longer[Len(list) + 1] = x
           /\ DOMAIN longer = DOMAIN list \cup {Len(list) + 1}
           /\ DOMAIN list = 1 .. Len(list) /\ Len(list) \in Nat
           /\ Range(longer) = Range(list) \cup {x}
           /\ IsInjective(list) /\ x \notin Range(list) => IsInjective(longer)
<1> DEFINE longer == Append(list, x)
<1>1. /\ longer \in Seq(S) /\ Len(longer) = Len(list) + 1
      /\ \A i \in 1 .. Len(list) : longer[i] = list[i]
      /\ longer[Len(list) + 1] = x /\ Len(list) \in Nat
      /\ DOMAIN list = 1 .. Len(list) /\ DOMAIN longer = 1 .. Len(list) + 1
  OBVIOUS
<1> HIDE DEF longer
<1>2. DOMAIN longer = DOMAIN list \cup {Len(list) + 1}
  BY <1>1
<1>3. Range(longer) = Range(list) \cup {x}
  BY <1>1, <1>2 DEF Range
<1>4. IsInjective(list) /\ x \notin Range(list) => IsInjective(longer)
  BY <1>1, <1>2 DEF IsInjective, Range
<1> QED BY <1>1, <1>2, <1>3, <1>4 DEF longer

LEMMA ResolverInitInv == ResolverInit => ResolverInv
<1> SUFFICES ASSUME ResolverInit PROVE ResolverInv
  OBVIOUS
<1>1. /\ stack = <<>> /\ planOrder = <<>> /\ planAdded = <<>> /\ outcome = "none"
      /\ DOMAIN <<>> = {}
  BY DEF ResolverInit
<1>2. ResolverTypeOK
  BY DEF ResolverInit, ResolverTypeOK, Unreturned
<1>3. StackKnows /\ OrderKnows
  BY <1>1 DEF StackKnows, OrderKnows, Grey, Black, Range, IsInjective
<1>4. PlanIsSound
  BY <1>1 DEF PlanIsSound, PlanIsOrderedClosure, FailsClosed, Unreturned
<1>5. Uncalled
  BY <1>1 DEF Uncalled
<1> QED BY <1>2, <1>3, <1>4, <1>5 DEF ResolverInv

LEMMA CallKeepsInv ==
    ASSUME ResolverInv, Resolve
    PROVE  ResolverInv'
<1>1. /\ stack' = <<>> /\ planOrder' = <<>> /\ planAdded' = <<>> /\ outcome' = "visiting"
      /\ DOMAIN <<>> = {}
  BY DEF Resolve, ResolverInv, Uncalled
<1>2. ResolverTypeOK'
  BY CatalogAssumption DEF Resolve, ResolverInv, ResolverTypeOK, Unreturned
<1>3. StackKnows' /\ OrderKnows'
  BY <1>1 DEF StackKnows, OrderKnows, Grey, Black, Range, IsInjective
<1>4. PlanIsSound'
  BY <1>1 DEF PlanIsSound, PlanIsOrderedClosure, FailsClosed, Unreturned
<1>5. Uncalled'
  BY <1>1 DEF Uncalled
<1> QED BY <1>2, <1>3, <1>4, <1>5 DEF ResolverInv

(* What a call looks its modules up in stays as it is.                     *)
Catalogued == UNCHANGED <<needs, foes, versioned, selected>>

LEMMA SameClosures ==
    ASSUME Catalogued
    PROVE  /\ Closure(selected)' = Closure(selected)
           /\ \A m \in CatalogModules : Below(m)' = Below(m)
BY DEF Catalogued, Closure, ClosedUnderNeeds, Below

(* Who is wanted next is in the closure, and below all of the stack.       *)
LEMMA WantedIsReachable ==
    ASSUME ResolverInv, NEW m \in Wanted
    PROVE  /\ m \in Closure(selected) /\ m \in CatalogModules
           /\ \A i \in DOMAIN stack : m \in Below(stack[i])
<1>1. CASE stack = <<>>
  <2>1. m \in selected /\ DOMAIN stack = {}
    BY <1>1 DEF Wanted
  <2> QED BY <2>1, ClosureContains DEF ResolverInv, ResolverTypeOK
<1>2. CASE stack # <<>>
  <2>1. /\ stack \in Seq(CatalogModules) /\ Len(stack) \in DOMAIN stack /\ m \in needs[Visiting]
        /\ \A i \in DOMAIN stack : i < Len(stack) \/ i = Len(stack)
    BY <1>2 DEF ResolverInv, ResolverTypeOK, Wanted
  <2>2. Visiting \in Closure(selected) \cap versioned
    BY <2>1 DEF ResolverInv, StackKnows, Visiting
  <2>3. m \in Closure(selected) /\ m \in CatalogModules
    BY <2>1, <2>2, ClosureIsClosed, ClosureContains DEF ResolverInv, ResolverTypeOK
  <2>4. ASSUME NEW i \in DOMAIN stack PROVE m \in Below(stack[i])
    <3>1. stack[i] \in CatalogModules \cap versioned /\ Below(stack[i]) = Closure(needs[stack[i]])
      BY <2>4, <2>1 DEF ResolverInv, StackKnows, Below
    <3>2. needs[stack[i]] \in SUBSET CatalogModules
      BY <3>1 DEF ResolverInv, ResolverTypeOK
    <3>3. CASE i = Len(stack)
      BY <2>1, <3>1, <3>2, <3>3, ClosureContains DEF Visiting
    <3>4. CASE i # Len(stack)
      <4>1. Visiting \in Below(stack[i])
        BY <2>1, <3>4 DEF ResolverInv, StackKnows, Visiting
      <4> QED BY <2>1, <2>2, <3>1, <4>1, ClosureIsClosed DEF ResolverInv
    <3> QED BY <3>3, <3>4
  <2> QED BY <2>3, <2>4
<1> QED BY <1>1, <1>2

LEMMA WhiteKeepsInv ==
    ASSUME ResolverInv, NEW m \in CatalogModules, VisitWhite(m)
    PROVE  ResolverInv'
<1>0. /\ Catalogued /\ UNCHANGED <<planOrder, planAdded, outcome>> /\ outcome = "visiting"
      /\ stack' = Append(stack, m) /\ m \in versioned /\ m \notin Grey /\ m \notin Black
      /\ m \in Wanted /\ stack \in Seq(CatalogModules)
  BY DEF VisitWhite, Catalogued, ResolverInv, ResolverTypeOK
<1>1. /\ stack' \in Seq(CatalogModules) /\ Len(stack) \in Nat
      /\ \A i \in DOMAIN stack : i \in 1 .. Len(stack) /\ stack'[i] = stack[i]
      /\ stack'[Len(stack) + 1] = m /\ DOMAIN stack' = DOMAIN stack \cup {Len(stack) + 1}
      /\ Range(stack') = Grey \cup {m} /\ IsInjective(stack')
  BY <1>0, AppendShape DEF Grey, ResolverInv, StackKnows
<1>2. ResolverTypeOK'
  BY <1>0, <1>1 DEF Catalogued, ResolverInv, ResolverTypeOK
<1>3. /\ m \in Closure(selected)
      /\ \A i \in DOMAIN stack : stack[i] \in CatalogModules /\ m \in Below(stack[i])
  BY <1>0, WantedIsReachable
<1>4. \A i \in DOMAIN stack' : stack'[i] \in Closure(selected) \cap versioned
  BY <1>0, <1>1, <1>3 DEF ResolverInv, StackKnows
<1>5. \A i, j \in DOMAIN stack' : i < j => stack'[j] \in Below(stack'[i])
  <2> TAKE i, j \in DOMAIN stack'
  <2>1. CASE j \in DOMAIN stack
    <3>1. i < j => i \in DOMAIN stack
      BY <1>1, <2>1
    <3> QED BY <1>1, <2>1, <3>1 DEF ResolverInv, StackKnows
  <2>2. CASE j = Len(stack) + 1
    <3>1. i < j => i \in DOMAIN stack
      BY <1>1, <2>2
    <3> QED BY <1>1, <1>3, <2>2, <3>1
  <2> QED BY <1>1, <2>1, <2>2
<1>6. Closure(selected)' = Closure(selected) /\ \A x \in CatalogModules : Below(x)' = Below(x)
  BY <1>0, SameClosures
<1>7. StackKnows'
  <2>1. \A i \in DOMAIN stack' : stack'[i] \in CatalogModules
    BY <1>1
  <2>2. Grey' \cap Black' = {}
    BY <1>0, <1>1 DEF Grey, Black, ResolverInv, StackKnows
  <2> QED BY <1>0, <1>1, <1>4, <1>5, <1>6, <2>1, <2>2 DEF StackKnows, Catalogued
<1>8. OrderKnows'
  BY <1>0, <1>6 DEF ResolverInv, OrderKnows, Black, Catalogued
<1>9. PlanIsSound' /\ Uncalled'
  BY <1>0 DEF PlanIsSound, PlanIsOrderedClosure, FailsClosed, Unreturned, Uncalled
<1> QED BY <1>2, <1>7, <1>8, <1>9 DEF ResolverInv

LEMMA FrontShape ==
    ASSUME NEW S, NEW list \in Seq(S), list # <<>>
    PROVE  LET front == SubSeq(list, 1, Len(list) - 1) IN
           /\ front \in Seq(S) /\ Len(list) \in DOMAIN list
           /\ \A i \in DOMAIN front : i \in DOMAIN list /\ i < Len(list) /\ front[i] = list[i]
<1> DEFINE n == Len(list) - 1
           front == SubSeq(list, 1, n)
<1>1. /\ n \in Nat /\ Len(list) \in Nat /\ n < Len(list) /\ DOMAIN list = 1 .. Len(list)
      /\ Len(list) \in DOMAIN list
  OBVIOUS
<1>2. front \in Seq(S) /\ Len(front) = n /\ \A i \in 1 .. n : front[i] = list[i]
  BY <1>1
<1>3. DOMAIN front = 1 .. n
  BY <1>2
<1>4. \A i \in DOMAIN front : i \in DOMAIN list /\ i < Len(list) /\ front[i] = list[i]
  BY <1>1, <1>2, <1>3
<1> QED BY <1>1, <1>2, <1>4

LEMMA DoneKeepsInv ==
    ASSUME ResolverInv, VisitDone
    PROVE  ResolverInv'
<1> DEFINE m == Visiting
<1>0. /\ Catalogued /\ outcome' = outcome /\ outcome = "visiting" /\ stack # <<>>
      /\ planOrder' = Append(planOrder, m) /\ stack' = SubSeq(stack, 1, Len(stack) - 1)
      /\ planAdded' = IF m \in selected THEN planAdded ELSE Append(planAdded, m)
      /\ needs[m] \subseteq Black
      /\ stack \in Seq(CatalogModules) /\ planOrder \in Seq(CatalogModules)
      /\ planAdded \in Seq(CatalogModules)
  BY DEF VisitDone, Catalogued, Wanted, Emit, ResolverInv, ResolverTypeOK
<1>1. /\ stack' \in Seq(CatalogModules) /\ Len(stack) \in DOMAIN stack
      /\ \A i \in DOMAIN stack' : i \in DOMAIN stack /\ i < Len(stack) /\ stack'[i] = stack[i]
  BY <1>0, FrontShape
<1>2. /\ m \in Closure(selected) \cap versioned /\ m \in CatalogModules /\ m \in Grey
      /\ m \notin Black /\ m = stack[Len(stack)]
  <2>1. m = stack[Len(stack)]
    BY DEF Visiting
  <2>2. m \in Grey
    BY <1>1, <2>1 DEF Grey, Range
  <2> QED BY <1>0, <1>1, <2>1, <2>2 DEF ResolverInv, StackKnows
<1> HIDE DEF m
<1>3. /\ planOrder' \in Seq(CatalogModules) /\ Len(planOrder) \in Nat
      /\ DOMAIN planOrder = 1 .. Len(planOrder)
      /\ \A i \in DOMAIN planOrder : planOrder'[i] = planOrder[i]
      /\ planOrder'[Len(planOrder) + 1] = m
      /\ DOMAIN planOrder' = DOMAIN planOrder \cup {Len(planOrder) + 1}
      /\ Range(planOrder') = Black \cup {m} /\ IsInjective(planOrder')
  BY <1>0, <1>2, AppendShape DEF Black, ResolverInv, OrderKnows
<1>4. /\ planAdded' \in Seq(CatalogModules) /\ IsInjective(planAdded')
      /\ Range(planAdded') = (Black \cup {m}) \ selected
  <2>1. Range(planAdded) = Black \ selected /\ IsInjective(planAdded)
    BY DEF ResolverInv, OrderKnows
  <2>2. CASE m \in selected
    BY <1>0, <2>1, <2>2
  <2>3. CASE m \notin selected
    <3>1. m \notin Range(planAdded)
      BY <1>2, <2>1
    <3>2. /\ planAdded' \in Seq(CatalogModules) /\ IsInjective(planAdded')
          /\ Range(planAdded') = Range(planAdded) \cup {m}
      BY <1>0, <1>2, <2>1, <2>3, <3>1, AppendShape
    <3> QED BY <2>1, <2>3, <3>2
  <2> QED BY <2>2, <2>3
<1>5. ResolverTypeOK'
  BY <1>0, <1>1, <1>3, <1>4 DEF Catalogued, ResolverInv, ResolverTypeOK
<1>6. Closure(selected)' = Closure(selected) /\ \A x \in CatalogModules : Below(x)' = Below(x)
  BY <1>0, SameClosures
<1>7. StackKnows'
  <2>1. \A i \in DOMAIN stack' : stack'[i] \in Closure(selected) \cap versioned
    BY <1>1 DEF ResolverInv, StackKnows
  <2>2. \A i, j \in DOMAIN stack' : i < j => stack'[j] \in Below(stack'[i])
    BY <1>1 DEF ResolverInv, StackKnows
  <2>3. IsInjective(stack')
    BY <1>1 DEF ResolverInv, StackKnows, IsInjective
  <2>4. Range(stack') \subseteq Grey /\ m \notin Range(stack')
    <3>1. \A i \in DOMAIN stack' : stack'[i] \in Grey /\ stack'[i] # m
      BY <1>1, <1>2 DEF ResolverInv, StackKnows, IsInjective, Grey, Range
    <3> QED BY <3>1 DEF Range
  <2>5. Grey' \cap Black' = {}
    BY <1>3, <2>4 DEF Grey, Black, ResolverInv, StackKnows
  <2>6. \A i \in DOMAIN stack' : stack'[i] \in CatalogModules
    BY <1>1
  <2> QED BY <1>0, <1>6, <2>1, <2>2, <2>3, <2>5, <2>6 DEF StackKnows, Catalogued
<1>8. OrderKnows'
  <2>1. Black' = Black \cup {m} /\ Black' \subseteq Closure(selected) \cap versioned
    BY <1>2, <1>3 DEF Black, ResolverInv, OrderKnows
  <2>2. \A i \in DOMAIN planOrder' :
          needs[planOrder'[i]] \subseteq {planOrder'[j] : j \in 1 .. (i - 1)}
    <3> TAKE i \in DOMAIN planOrder'
    <3>1. CASE i \in DOMAIN planOrder
      <4>1. needs[planOrder[i]] \subseteq {planOrder[j] : j \in 1 .. (i - 1)}
        BY <3>1 DEF ResolverInv, OrderKnows
      <4>2. \A j \in 1 .. (i - 1) : planOrder'[j] = planOrder[j]
        BY <1>3, <3>1
      <4> QED BY <1>3, <3>1, <4>1, <4>2
    <3>2. CASE i = Len(planOrder) + 1
      <4>1. 1 .. (i - 1) = DOMAIN planOrder
        BY <1>3, <3>2
      <4>2. Black = {planOrder'[j] : j \in 1 .. (i - 1)}
        BY <1>3, <4>1 DEF Black, Range
      <4> QED BY <1>0, <1>3, <3>2, <4>2
    <3> QED BY <1>3, <3>1, <3>2
  <2> QED BY <1>0, <1>3, <1>4, <1>6, <2>1, <2>2 DEF OrderKnows, Catalogued
<1>9. PlanIsSound' /\ Uncalled'
  BY <1>0 DEF PlanIsSound, PlanIsOrderedClosure, FailsClosed, Unreturned, Uncalled
<1> QED BY <1>5, <1>7, <1>8, <1>9 DEF ResolverInv

(* A return leaves all but the outcome as it is.                           *)
Returned == UNCHANGED <<needs, foes, versioned, selected, stack, planOrder, planAdded>>

LEMMA ReturnKeepsInv ==
    ASSUME ResolverInv, Returned, PlanIsSound', outcome' \in {"plan", "cycle", "missing-dep", "conflict"}
    PROVE  ResolverInv'
<1>1. Closure(selected)' = Closure(selected) /\ \A x \in CatalogModules : Below(x)' = Below(x)
  BY SameClosures DEF Returned, Catalogued
<1>2. ResolverTypeOK' /\ Uncalled'
  BY DEF Returned, ResolverInv, ResolverTypeOK, Uncalled, Unreturned
<1>3. StackKnows'
  <2>1. \A i \in DOMAIN stack : stack[i] \in CatalogModules
    BY DEF ResolverInv, ResolverTypeOK
  <2> QED BY <1>1, <2>1 DEF Returned, ResolverInv, StackKnows, Grey, Black
<1>4. OrderKnows'
  BY <1>1 DEF Returned, ResolverInv, OrderKnows, Black
<1> QED BY <1>2, <1>3, <1>4 DEF ResolverInv

(* What FailsClosed asks of the closure, by name.                          *)
Missing == Closure(selected) \ versioned # {}
Cyclic == \E m \in Closure(selected) : m \in Below(m)
Conflicting == \E m \in Closure(selected) \cap versioned : foes[m] \cap Closure(selected) # {}

LEMMA SameVerdicts ==
    ASSUME Returned
    PROVE  (Missing' <=> Missing) /\ (Conflicting' <=> Conflicting) /\ (Cyclic' <=> Cyclic)
<1>1. Closure(selected)' = Closure(selected) /\ \A x \in CatalogModules : Below(x)' = Below(x)
  BY SameClosures DEF Returned, Catalogued
<1>2. Closure(selected) \subseteq CatalogModules
  BY DEF Closure
<1> QED BY <1>1, <1>2 DEF Returned, Missing, Conflicting, Cyclic

LEMMA GreyKeepsInv ==
    ASSUME ResolverInv, NEW m \in CatalogModules, VisitGrey(m)
    PROVE  ResolverInv'
<1>1. Returned /\ outcome' = "cycle" /\ m \in Wanted /\ m \in Grey
  BY DEF VisitGrey, Returned
<1>2. PICK i \in DOMAIN stack : stack[i] = m
  BY <1>1 DEF Grey, Range
<1>3. Cyclic
  BY <1>1, <1>2, WantedIsReachable DEF Cyclic
<1>4. PlanIsSound'
  BY <1>1, <1>3, SameVerdicts DEF PlanIsSound, PlanIsOrderedClosure, FailsClosed, Cyclic
<1> QED BY <1>1, <1>4, ReturnKeepsInv

LEMMA UnversionedKeepsInv ==
    ASSUME ResolverInv, NEW m \in CatalogModules, VisitUnversioned(m)
    PROVE  ResolverInv'
<1>1. Returned /\ outcome' = "missing-dep" /\ m \in Wanted /\ m \notin versioned
  BY DEF VisitUnversioned, Returned
<1>3. Missing
  BY <1>1, WantedIsReachable DEF Missing
<1>4. PlanIsSound'
  BY <1>1, <1>3, SameVerdicts DEF PlanIsSound, PlanIsOrderedClosure, FailsClosed, Missing
<1> QED BY <1>1, <1>4, ReturnKeepsInv

(* An order that is whole is the closure, and rules a circle out: what     *)
(* stands before a module is closed and holds all it needs.                *)
LEMMA WholeOrder ==
    ASSUME ResolverInv, selected \subseteq Black
    PROVE  Black = Closure(selected) /\ ~Missing /\ ~Cyclic
<1>0. /\ planOrder \in Seq(CatalogModules) /\ DOMAIN planOrder = 1 .. Len(planOrder)
      /\ Len(planOrder) \in Nat /\ Black \in SUBSET CatalogModules
  BY DEF ResolverInv, ResolverTypeOK, Black, Range
<1>1. \A i \in DOMAIN planOrder : \A d \in needs[planOrder[i]] :
        \E j \in DOMAIN planOrder : j < i /\ d = planOrder[j]
  BY <1>0 DEF ResolverInv, OrderKnows
<1>2. Black = Closure(selected)
  <2>1. ClosedUnderNeeds(Black)
    BY <1>1 DEF ClosedUnderNeeds, Black, Range
  <2>2. Closure(selected) \subseteq Black
    BY <1>0, <2>1, ClosureIsLeast
  <2> QED BY <2>2 DEF ResolverInv, OrderKnows
<1>3. ~Missing
  BY <1>2 DEF Missing, ResolverInv, OrderKnows
<1>4. ASSUME NEW m \in Closure(selected) PROVE m \notin Below(m)
  <2>1. PICK i \in DOMAIN planOrder : planOrder[i] = m
    BY <1>2, <1>4 DEF Black, Range
  <2> DEFINE T == {planOrder[j] : j \in {k \in DOMAIN planOrder : k < i}}
  <2>2. T \in SUBSET CatalogModules
    BY <1>0
  <2>3. needs[m] \subseteq T
    BY <1>1, <2>1
  <2>4. ClosedUnderNeeds(T)
    <3>1. ASSUME NEW j \in DOMAIN planOrder, j < i PROVE needs[planOrder[j]] \subseteq T
      <4>1. ASSUME NEW d \in needs[planOrder[j]] PROVE d \in T
        <5>1. PICK k \in DOMAIN planOrder : k < j /\ d = planOrder[k]
          BY <1>1, <3>1, <4>1
        <5>2. k < i
          BY <1>0, <3>1, <5>1
        <5> QED BY <5>1, <5>2
      <4> QED BY <4>1
    <3> QED BY <3>1 DEF ClosedUnderNeeds
  <2>5. m \notin T
    <3>1. \A j \in DOMAIN planOrder : j < i => planOrder[j] # m
      BY <1>0, <2>1 DEF ResolverInv, OrderKnows, IsInjective
    <3> QED BY <3>1
  <2> HIDE DEF T
  <2>6. Closure(needs[m]) \subseteq T
    BY <2>2, <2>3, <2>4, ClosureIsLeast
  <2> QED BY <2>5, <2>6 DEF Below
<1> QED BY <1>2, <1>3, <1>4 DEF Cyclic

LEMMA ReturnsKeepInv ==
    ASSUME ResolverInv, ResolveReturns
    PROVE  ResolverInv'
<1>1. /\ Returned /\ outcome' = IF Conflict THEN "conflict" ELSE "plan"
      /\ selected \subseteq Black
  BY DEF ResolveReturns, Returned
<1>2. Black = Closure(selected) /\ ~Missing /\ ~Cyclic
  BY <1>1, WholeOrder
<1>3. Conflict <=> Conflicting
  BY <1>2 DEF Conflict, Conflicting, ResolverInv, OrderKnows
<1>4. ~Missing' /\ ~Cyclic' /\ (Conflicting' <=> Conflict)
  BY <1>1, <1>2, <1>3, SameVerdicts
<1>5. FailsClosed'
  BY <1>1, <1>4 DEF FailsClosed, Missing, Cyclic, Conflicting
<1>6. PlanIsOrderedClosure'
  <2>1. Closure(selected)' = Closure(selected)
    BY <1>1, SameClosures DEF Returned, Catalogued
  <2> QED BY <1>1, <1>2, <2>1 DEF PlanIsOrderedClosure, ResolverInv, OrderKnows, Returned, Black
<1> QED BY <1>1, <1>5, <1>6, ReturnKeepsInv DEF PlanIsSound

-----------------------------------------------------------------------------

LEMMA ResolverStepKeepsInv == ResolverInv /\ [ResolverNext]_resolverVars => ResolverInv'
<1> SUFFICES ASSUME ResolverInv, [ResolverNext]_resolverVars PROVE ResolverInv'
  OBVIOUS
<1>1. CASE UNCHANGED resolverVars
  <2>1. Returned /\ outcome' = outcome
    BY <1>1 DEF resolverVars, Returned
  <2>2. Closure(selected)' = Closure(selected) /\ \A x \in CatalogModules : Below(x)' = Below(x)
    BY <2>1, SameClosures DEF Returned, Catalogued
  <2>3. PlanIsSound'
    <3>1. PlanIsOrderedClosure'
      BY <2>1, <2>2 DEF ResolverInv, PlanIsSound, PlanIsOrderedClosure, Returned, Black
    <3>2. FailsClosed'
      <4>1. outcome \notin Unreturned =>
              /\ outcome = "plan" <=> ~Missing /\ ~Cyclic /\ ~Conflicting
              /\ outcome = "missing-dep" => Missing
              /\ outcome = "cycle" => Cyclic
              /\ outcome = "conflict" => Conflicting /\ ~Missing /\ ~Cyclic
        BY DEF ResolverInv, PlanIsSound, FailsClosed, Missing, Cyclic, Conflicting
      <4>2. (Missing' <=> Missing) /\ (Conflicting' <=> Conflicting) /\ (Cyclic' <=> Cyclic)
        BY <2>1, SameVerdicts
      <4>3. outcome' \notin Unreturned =>
              /\ outcome' = "plan" <=> ~Missing' /\ ~Cyclic' /\ ~Conflicting'
              /\ outcome' = "missing-dep" => Missing'
              /\ outcome' = "cycle" => Cyclic'
              /\ outcome' = "conflict" => Conflicting' /\ ~Missing' /\ ~Cyclic'
        BY <2>1, <4>1, <4>2
      <4> QED BY <4>3 DEF FailsClosed, Missing, Cyclic, Conflicting
    <3> QED BY <3>1, <3>2 DEF PlanIsSound
  <2>4. CASE outcome \in Unreturned
    <3>1. ResolverTypeOK' /\ Uncalled'
      BY <2>1 DEF Returned, ResolverInv, ResolverTypeOK, Uncalled
    <3>2. StackKnows'
      <4>1. \A i \in DOMAIN stack : stack[i] \in CatalogModules
        BY DEF ResolverInv, ResolverTypeOK
      <4> QED BY <2>1, <2>2, <4>1 DEF Returned, ResolverInv, StackKnows, Grey, Black
    <3>3. OrderKnows'
      BY <2>1, <2>2 DEF Returned, ResolverInv, OrderKnows, Black
    <3> QED BY <2>3, <3>1, <3>2, <3>3 DEF ResolverInv
  <2>5. CASE outcome \notin Unreturned
    <3>1. outcome' \in {"plan", "cycle", "missing-dep", "conflict"}
      BY <2>1, <2>5 DEF ResolverInv, ResolverTypeOK
    <3> QED BY <2>1, <2>3, <3>1, ReturnKeepsInv
  <2> QED BY <2>4, <2>5
<1>2. ASSUME NEW m \in CatalogModules, VisitGrey(m) \/ VisitUnversioned(m) \/ VisitWhite(m)
      PROVE  ResolverInv'
  BY <1>2, GreyKeepsInv, UnversionedKeepsInv, WhiteKeepsInv
<1> QED BY <1>1, <1>2, CallKeepsInv, DoneKeepsInv, ReturnsKeepInv DEF ResolverNext

LEMMA ResolverTypeCorrect == ResolverSpec => []ResolverTypeOK
<1>1. ResolverInv => ResolverTypeOK
  BY DEF ResolverInv
<1> QED BY <1>1, ResolverInitInv, ResolverStepKeepsInv, PTL DEF ResolverSpec

(* Resolve of resolver.go returns the closure of the selection in an order *)
(* that puts every module after all it needs, and returns it exactly when  *)
(* nothing in the closure is missing, on a circle or in conflict; whatever *)
(* the catalogue, the selection and the order of their lists.              *)
THEOREM PlansAreSound == ResolverSpec => []PlanIsSound
<1>1. ResolverInv => PlanIsSound
  BY DEF ResolverInv
<1> QED BY <1>1, ResolverInitInv, ResolverStepKeepsInv, PTL DEF ResolverSpec

=============================================================================
