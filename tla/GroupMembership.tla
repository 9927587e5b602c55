--------------------------- MODULE GroupMembership ---------------------------
(***************************************************************************)
(* The members of one group: src/pkg/services/groups.go and group_rules.go *)
(* with the handlers that call them.  A group_memberships row is added by  *)
(* hand (source 'direct') or by the rules of a dynamic group ('rule').     *)
(*                                                                         *)
(* No operation here opens a transaction, so the statements of concurrent  *)
(* requests interleave, and an evaluation of the rules is a dozen of them. *)
(* A request keeps what it has read: the columns of the group row, the     *)
(* members its copy of the rules lets pass, the rows it means to add and   *)
(* delete.  Which facts satisfy which rule is a constant; a rule whose     *)
(* outcome is unknown passes nobody.                                       *)
(***************************************************************************)
EXTENDS Naturals, FiniteSets

CONSTANTS
    Assets,
    Identities,
    Rules,          \* ids a group_membership_rules row can get
    Matches,        \* Matches[x]: the members whose facts satisfy rule x
    Hideable,       \* members the run soft deletes (a bound on the model)
    GroupRequests,
    Nobody          \* no member

Members == Assets \cup Identities

ASSUME MembersAssumption == Assets \cap Identities = {} /\ Nobody \notin Members
ASSUME MatchesAssumption == Matches \in [Rules -> SUBSET Members]
ASSUME HideableAssumption == Hideable \subseteq Members

VARIABLES
    source,     \* source[m]: "none", "direct" or "rule"
    memberKind, \* member_kind
    membership, \* "static" or "dynamic"
    matchMode,  \* rules_match_mode
    rules,      \* the group's rules
    hidden,     \* members that are soft deleted
    greq        \* greq[r]: where request r is and what it has read

groupVars == <<source, memberKind, membership, matchMode, rules, hidden, greq>>

Kinds == {"asset", "identity", "mixed"}

Sides == {"asset", "identity"}

GroupIdle ==
    [pc |-> "idle", member |-> Nobody, kind |-> "mixed",
     membership |-> "static", match |-> "all", evaluate |-> FALSE,
     pass |-> {}, side |-> "asset", found |-> {}, direct |-> {}, add |-> {},
     del |-> {}, clean |-> TRUE]

GroupLabels ==
    {"idle", "remove", "count", "meta", "rule", "group", "rules", "clear",
     "list", "direct", "current", "write", "total"}

GroupRequestType ==
    [pc         : GroupLabels,
     member     : Members \cup {Nobody},
     kind       : Kinds,                    \* columns read or to be written
     membership : {"static", "dynamic"},
     match      : {"all", "any"},
     evaluate   : BOOLEAN,                  \* evaluate after the write
     pass       : SUBSET Members,           \* who the rules read let pass
     side       : Sides,                    \* the population reconciled
     found      : SUBSET Members,           \* those of it listed that pass
     direct     : SUBSET Members,           \* its direct rows as listed
     add        : SUBSET Members,
     del        : SUBSET Members,
     clean      : BOOLEAN]                  \* history: no other request or
                                            \* command has written meanwhile

MembershipTypeOK ==
    /\ source \in [Members -> {"none", "direct", "rule"}]
    /\ memberKind \in Kinds
    /\ membership \in {"static", "dynamic"}
    /\ matchMode \in {"all", "any"}
    /\ rules \subseteq Rules
    /\ hidden \subseteq Hideable
    /\ greq \in [GroupRequests -> GroupRequestType]

(* GroupCreate writes any kind and mode; changing the defaults reaches     *)
(* them too.                                                               *)
MembershipInit ==
    /\ source = [m \in Members |-> "none"]
    /\ memberKind = "mixed"
    /\ membership = "static"
    /\ matchMode = "all"
    /\ rules = {}
    /\ hidden = {}
    /\ greq = [r \in GroupRequests |-> GroupIdle]

GroupAt(r, label) == greq[r].pc = label

(* Request r moves to q without writing a row of the group.                *)
GroupMove(r, q) == greq' = [greq EXCEPT ![r] = q]

(* Request r moves to q with a write every other request under way misses. *)
GroupWrite(r, q) ==
    greq' = [s \in GroupRequests |->
               IF s = r THEN q
               ELSE IF GroupAt(s, "idle") THEN greq[s]
               ELSE [greq[s] EXCEPT !.clean = FALSE]]

(* A write by a request that needs one statement only.                     *)
WriteAlone ==
    greq' = [s \in GroupRequests |->
               IF GroupAt(s, "idle") THEN greq[s]
               ELSE [greq[s] EXCEPT !.clean = FALSE]]

Population(side) == IF side = "asset" THEN Assets ELSE Identities

(* The populations member_kind k lets the rules reconcile.                 *)
SidesOf(k) == {s \in Sides : k \in {s, "mixed"}}

RuleRows == {m \in Members : source[m] = "rule"}

-----------------------------------------------------------------------------
(* Members added and removed by hand.                                      *)

(* AddAssetMember, AddIdentityMember: ON CONFLICT DO NOTHING.  The forms   *)
(* on an asset's and a user's page do not look at member_kind.             *)
AddDirect(m) ==
    /\ source[m] = "none"
    /\ m \notin hidden
    /\ source' = [source EXCEPT ![m] = "direct"]
    /\ WriteAlone
    /\ UNCHANGED <<memberKind, membership, matchMode, rules, hidden>>

(* Mutant: rule rows are not refused.                                      *)
RemoveReadAny(r, m) ==
    /\ GroupAt(r, "idle")
    /\ source[m] # "none"
    /\ GroupMove(r, [GroupIdle EXCEPT !.pc = "remove", !.member = m])
    /\ UNCHANGED <<source, memberKind, membership, matchMode, rules, hidden>>

(* RemoveAssetMember, RemoveIdentityMember: a missing row and a rule row   *)
(* end the request.                                                        *)
RemoveRead(r, m) ==
    /\ GroupAt(r, "idle")
    /\ source[m] = "direct"
    /\ GroupMove(r, [GroupIdle EXCEPT !.pc = "remove", !.member = m])
    /\ UNCHANGED <<source, memberKind, membership, matchMode, rules, hidden>>

(* The delete does not repeat the check.                                   *)
RemoveDelete(r) ==
    /\ GroupAt(r, "remove")
    /\ source' = [source EXCEPT ![greq[r].member] = "none"]
    /\ GroupWrite(r, GroupIdle)
    /\ UNCHANGED <<memberKind, membership, matchMode, rules, hidden>>

-----------------------------------------------------------------------------
(* The group row: GroupFieldUpdate and GroupMatchModeUpdate read it, merge *)
(* what the form changes, and SetGroupMeta writes all columns back.        *)

MetaStart(r, q) ==
    /\ GroupAt(r, "idle")
    /\ GroupMove(r, [q EXCEPT !.pc = IF q.kind = "mixed" THEN "meta"
                                     ELSE "count"])
    /\ UNCHANGED <<source, memberKind, membership, matchMode, rules, hidden>>

FieldUpdate(r, k, mode) ==
    MetaStart(r, [GroupIdle EXCEPT !.kind = k, !.membership = mode,
                                   !.match = matchMode])

MatchModeUpdate(r, match) ==
    MetaStart(r, [GroupIdle EXCEPT !.kind = memberKind,
                                   !.membership = membership,
                                   !.match = match,
                                   !.evaluate = membership = "dynamic"])

(* Mutant: the two counts are swapped.                                     *)
ExcludedSwapped(k) == IF k = "asset" THEN Assets ELSE Identities

(* Members of the kind member_kind k excludes.                             *)
Excluded(k) == IF k = "asset" THEN Identities ELSE Assets

(* CountAssetsInGroup and CountIdentitiesInGroup join the members' rows    *)
(* and leave out the deleted.  Only the one k excludes matters.            *)
CountExcluded(r) ==
    /\ GroupAt(r, "count")
    /\ GroupMove(r, IF \E m \in Excluded(greq[r].kind) \ hidden :
                         source[m] # "none"
                    THEN GroupIdle
                    ELSE [greq[r] EXCEPT !.pc = "meta"])
    /\ UNCHANGED <<source, memberKind, membership, matchMode, rules, hidden>>

(* UpdateGroupMeta.                                                        *)
MetaWrite(r) ==
    LET q == greq[r] IN
    /\ GroupAt(r, "meta")
    /\ memberKind' = q.kind
    /\ membership' = q.membership
    /\ matchMode' = q.match
    /\ GroupWrite(r, IF q.evaluate THEN [GroupIdle EXCEPT !.pc = "group"]
                     ELSE GroupIdle)
    /\ UNCHANGED <<source, rules, hidden>>

-----------------------------------------------------------------------------
(* The rules, each change followed by an evaluation.                       *)

(* AddRule: GetGroup, and a group that is not dynamic is refused.          *)
AddRuleRead(r) ==
    /\ GroupAt(r, "idle")
    /\ membership = "dynamic"
    /\ GroupMove(r, [GroupIdle EXCEPT !.pc = "rule"])
    /\ UNCHANGED <<source, memberKind, membership, matchMode, rules, hidden>>

AddRuleInsert(r, x) ==
    /\ GroupAt(r, "rule")
    /\ x \notin rules
    /\ rules' = rules \cup {x}
    /\ GroupWrite(r, [GroupIdle EXCEPT !.pc = "group"])
    /\ UNCHANGED <<source, memberKind, membership, matchMode, hidden>>

(* RemoveRule.                                                             *)
RemoveRule(r, x) ==
    /\ GroupAt(r, "idle")
    /\ x \in rules
    /\ rules' = rules \ {x}
    /\ GroupWrite(r, [GroupIdle EXCEPT !.pc = "group"])
    /\ UNCHANGED <<source, memberKind, membership, matchMode, hidden>>

(* GroupRecalculate refuses a group without rules.                         *)
Recalculate(r) ==
    /\ GroupAt(r, "idle")
    /\ rules # {}
    /\ GroupMove(r, [GroupIdle EXCEPT !.pc = "group"])
    /\ UNCHANGED <<source, memberKind, membership, matchMode, rules, hidden>>

-----------------------------------------------------------------------------
(* EvaluateDynamicMembership.                                              *)

(* GetGroup; a static group is an error.                                   *)
EvalGroup(r) ==
    /\ GroupAt(r, "group")
    /\ GroupMove(r, IF membership # "dynamic" THEN GroupIdle
                    ELSE [GroupIdle EXCEPT
                            !.pc = "rules", !.kind = memberKind,
                            !.match = matchMode, !.clean = greq[r].clean])
    /\ UNCHANGED <<source, memberKind, membership, matchMode, rules, hidden>>

(* EvalGroup of eval.go over the rules S.                                  *)
Passing(S, match) ==
    {m \in Members : IF match = "all" THEN \A x \in S : m \in Matches[x]
                     ELSE \E x \in S : m \in Matches[x]}

(* Starts on the first population that is left.                            *)
Reconcile(q, left) ==
    IF left = {} THEN [GroupIdle EXCEPT !.pc = "total", !.clean = q.clean]
    ELSE [q EXCEPT !.pc = "list",
                   !.side = IF "asset" \in left THEN "asset" ELSE "identity"]

(* Mutant: without rules everybody passes, as eval.go has it.              *)
RulesReadPlain(q) ==
    Reconcile([q EXCEPT !.pass = Passing(rules, q.match),
                       !.match = "all"], SidesOf(q.kind))

(* ListRulesForGroup.  Without rules the target is empty.                  *)
RulesRead(q) ==
    IF rules = {} THEN [q EXCEPT !.pc = "clear"]
    ELSE Reconcile([q EXCEPT !.pass = Passing(rules, q.match),
                             !.match = "all"], SidesOf(q.kind))

EvalRules(r) ==
    /\ GroupAt(r, "rules")
    /\ GroupMove(r, RulesRead(greq[r]))
    /\ UNCHANGED <<source, memberKind, membership, matchMode, rules, hidden>>

(* clearRuleSourcedMembers lists first and deletes when it found a row;    *)
(* either way no row it has listed is left by DELETE .. source = 'rule'.   *)
EvalClear(r) ==
    /\ GroupAt(r, "clear")
    /\ source' = [m \in Members |-> IF m \in RuleRows THEN "none"
                                    ELSE source[m]]
    /\ LET q == Reconcile(greq[r], {}) IN
       IF RuleRows = {} THEN GroupMove(r, q) ELSE GroupWrite(r, q)
    /\ UNCHANGED <<memberKind, membership, matchMode, rules, hidden>>

(* ListAssets or ListIdentitiesByTenant: the rows that are not deleted, of *)
(* a tenant that has no more than targetCatalogLimit of them.              *)
EvalList(r) ==
    /\ GroupAt(r, "list")
    /\ GroupMove(r, [greq[r] EXCEPT
                       !.pc = "direct",
                       !.found = (greq[r].pass \ hidden)
                                   \cap Population(greq[r].side)])
    /\ UNCHANGED <<source, memberKind, membership, matchMode, rules, hidden>>

(* ListDirectAssetIDsForGroup, ListDirectIdentityIDsForGroup.              *)
EvalDirect(r) ==
    /\ GroupAt(r, "direct")
    /\ GroupMove(r, [greq[r] EXCEPT
                       !.pc = "current",
                       !.direct = {m \in Population(greq[r].side) :
                                     source[m] = "direct"}])
    /\ UNCHANGED <<source, memberKind, membership, matchMode, rules, hidden>>

(* ListRuleSourcedAssetIDsForGroup, ListRuleSourcedIdentityIDsForGroup,    *)
(* and what follows from the three lists.                                  *)
EvalCurrent(r) ==
    LET q == greq[r]
        current == RuleRows \cap Population(q.side) IN
    /\ GroupAt(r, "current")
    /\ GroupMove(r, [q EXCEPT !.pc = "write",
                              !.found = {}, !.direct = {},
                              !.add = q.found \ (q.direct \cup current),
                              !.del = current \ q.found])
    /\ UNCHANGED <<source, memberKind, membership, matchMode, rules, hidden>>

(* AddAssetToGroupWithSource: ON CONFLICT DO NOTHING.  The order is a Go   *)
(* map's.                                                                  *)
EvalInsert(r, m) ==
    LET q == [greq[r] EXCEPT !.add = @ \ {m}] IN
    /\ GroupAt(r, "write")
    /\ m \in greq[r].add
    /\ IF source[m] = "none"
       THEN /\ source' = [source EXCEPT ![m] = "rule"]
            /\ GroupWrite(r, q)
       ELSE /\ GroupMove(r, q)
            /\ UNCHANGED source
    /\ UNCHANGED <<memberKind, membership, matchMode, rules, hidden>>

Deletable(m) == source[m] = "rule"

(* DeleteRuleSourcedAssetFromGroup, after all inserts.                     *)
EvalDelete(r, m) ==
    LET q == [greq[r] EXCEPT !.del = @ \ {m}] IN
    /\ GroupAt(r, "write")
    /\ greq[r].add = {}
    /\ m \in greq[r].del
    /\ IF Deletable(m)
       THEN /\ source' = [source EXCEPT ![m] = "none"]
            /\ GroupWrite(r, q)
       ELSE /\ GroupMove(r, q)
            /\ UNCHANGED source
    /\ UNCHANGED <<memberKind, membership, matchMode, rules, hidden>>

(* Assets first, then identities, then the totals.                         *)
EvalNextSide(r) ==
    LET q == greq[r] IN
    /\ GroupAt(r, "write")
    /\ q.add = {}
    /\ q.del = {}
    /\ GroupMove(r, Reconcile(q, IF q.side = "asset"
                                 THEN SidesOf(q.kind) \ {"asset"} ELSE {}))
    /\ UNCHANGED <<source, memberKind, membership, matchMode, rules, hidden>>

(* CountAssetsInGroup and CountIdentitiesInGroup for the caller.           *)
EvalTotal(r) ==
    /\ GroupAt(r, "total")
    /\ GroupMove(r, GroupIdle)
    /\ UNCHANGED <<source, memberKind, membership, matchMode, rules, hidden>>

-----------------------------------------------------------------------------
(* An asset or identity is soft deleted or restored; its row stays.        *)
Hide(m) ==
    /\ hidden' = IF m \in hidden THEN hidden \ {m} ELSE hidden \cup {m}
    /\ WriteAlone
    /\ UNCHANGED <<source, memberKind, membership, matchMode, rules>>

(* A statement fails, the client goes away or the process dies: what was   *)
(* written stays.                                                          *)
GroupFail(r) ==
    /\ ~GroupAt(r, "idle")
    /\ GroupMove(r, GroupIdle)
    /\ UNCHANGED <<source, memberKind, membership, matchMode, rules, hidden>>

GroupStart(r) ==
    \/ \E m \in Members : RemoveRead(r, m)
    \/ \E k \in Kinds, mode \in {"static", "dynamic"} : FieldUpdate(r, k, mode)
    \/ \E match \in {"all", "any"} : MatchModeUpdate(r, match)
    \/ AddRuleRead(r) \/ Recalculate(r)
    \/ \E x \in Rules : RemoveRule(r, x)

GroupContinue(r) ==
    \/ RemoveDelete(r) \/ CountExcluded(r) \/ MetaWrite(r)
    \/ \E x \in Rules : AddRuleInsert(r, x)
    \/ EvalGroup(r) \/ EvalRules(r) \/ EvalClear(r)
    \/ EvalList(r) \/ EvalDirect(r) \/ EvalCurrent(r)
    \/ \E m \in Members : EvalInsert(r, m) \/ EvalDelete(r, m)
    \/ EvalNextSide(r) \/ EvalTotal(r)
    \/ GroupFail(r)

MembershipNext ==
    \/ \E m \in Members : AddDirect(m)
    \/ \E m \in Hideable : Hide(m)
    \/ \E r \in GroupRequests : GroupStart(r) \/ GroupContinue(r)

MembershipSpec == MembershipInit /\ [][MembershipNext]_groupVars

-----------------------------------------------------------------------------
(* "an admin's explicit add/remove always wins over what the rules would   *)
(* otherwise compute": however requests overlap, a direct row goes only by *)
(* the removal of that member, and no row changes its source.              *)
DirectRowsStick ==
    [][\A m \in Members : source'[m] # source[m] =>
         /\ "none" \in {source[m], source'[m]}
         /\ source[m] = "direct" =>
              \E r \in GroupRequests : /\ GroupAt(r, "remove")
                                       /\ greq[r].member = m]_groupVars

(* When an evaluation ends that nobody has written beside, the rule rows   *)
(* are those the rules ask for: of the kinds the group takes, not deleted, *)
(* passing, not direct already, and none at all without rules.  Rows of a  *)
(* kind the group no longer takes are left out: nothing reconciles them.   *)
ReconciledAtTheEnd ==
    \A r \in GroupRequests : GroupAt(r, "total") /\ greq[r].clean =>
        LET reach == UNION {Population(s) : s \in SidesOf(memberKind)} IN
        IF rules = {} THEN RuleRows = {}
        ELSE \A m \in reach :
               source[m] = "rule" <=> /\ m \in Passing(rules, matchMode)
                                      /\ m \notin hidden
                                      /\ source[m] # "direct"

(* "switching a group to identity-only while it has asset members would    *)
(* silently orphan those rows": a change of member_kind that nothing has   *)
(* overlapped leaves no visible member of the kind it excludes.            *)
KindChangeStrandsNobody ==
    [][\A r \in GroupRequests :
         GroupAt(r, "meta") /\ ~GroupAt(r, "meta")' /\ greq[r].clean
         /\ memberKind' # memberKind /\ memberKind' # "mixed"
         => \A m \in Members \ (Population(memberKind') \cup hidden) :
              source[m] = "none"]_groupVars

(* "those rows are managed by the group's rules": removal by hand deletes  *)
(* a rule row only if something was written between its check and it.      *)
RuleRowsGoByRules ==
    [][\A r \in GroupRequests :
         GroupAt(r, "remove") /\ ~GroupAt(r, "remove")' /\ greq[r].clean
         => source[greq[r].member] # "rule"]_groupVars

(* A row goes by what put it there: an explicit one by its removal, a rule *)
(* row by the rules; and no row turns into one of the other source.        *)
RowsGoByTheirSource == DirectRowsStick /\ RuleRowsGoByRules

=============================================================================
