--------------------------- MODULE Access_proofs ----------------------------
(***************************************************************************)
(* Theorems about who may do what, and who gets in: the levels of          *)
(* ModuleAccess, the role RoleCache keeps with an identity, the password   *)
(* logins of Logins and the matrices of RoleMatrix; for any identities,    *)
(* groups, roles, keys, grants and requests, and any threshold of the lock.*)
(***************************************************************************)
EXTENDS ModuleAccess, RoleCache, Logins, RoleMatrix, FiniteSetTheorems, TLAPS

-----------------------------------------------------------------------------
(* ModuleAccess.                                                           *)

(* A question that is asked is one ModuleAccessInput can hold.             *)
THEOREM AccessTypeCorrect == AccessSpec => []AccessTypeOK
<1>1. AccessInit => AccessTypeOK
  <2>1. {} \in {S \in SUBSET GrantRows : Cardinality(S) <= MaxGrantRows}
    <3>1. Cardinality({}) = 0
      BY FS_EmptySet
    <3> QED BY <3>1, MaxGrantRowsAssumption
  <2> QED BY <2>1 DEF AccessInit, AccessTypeOK, NoQuestion, Questions
<1>2. AccessTypeOK /\ [AccessNext]_question => AccessTypeOK'
  BY DEF AccessTypeOK, AccessNext, Ask
<1> QED BY <1>1, <1>2, PTL DEF AccessSpec

(* A grant row of one level answers for every level below it: the rank     *)
(* comparison of hasExplicitLevel.                                         *)
LEMMA HigherLevelCovers ==
    ASSUME NEW q, q.rows \subseteq GrantRows
    PROVE  /\ HasExplicitLevel(q, "admin") => HasExplicitLevel(q, "edit")
           /\ HasExplicitLevel(q, "edit") => HasExplicitLevel(q, "view")
<1>1. \A g \in q.rows : g.level \in Levels
  BY DEF GrantRows
<1>2. /\ ModuleLevelRank["view"] = 1
      /\ ModuleLevelRank["edit"] = 2
      /\ ModuleLevelRank["admin"] = 3
  BY DEF ModuleLevelRank
<1>3. \A l \in Levels : /\ ModuleLevelRank[l] >= 3 => ModuleLevelRank[l] >= 2
                        /\ ModuleLevelRank[l] >= 2 => ModuleLevelRank[l] >= 1
  BY <1>2 DEF Levels
<1> QED BY <1>1, <1>2, <1>3 DEF HasExplicitLevel

(* Whatever rows a question has more, what an explicit row answered it     *)
(* still answers.                                                          *)
LEMMA RowsOnlyAdd ==
    ASSUME NEW q, NEW f, NEW l, f.rows \subseteq q.rows, HasExplicitLevel(f, l)
    PROVE  HasExplicitLevel(q, l)
BY DEF HasExplicitLevel

(* In every question, admin implies edit and edit implies view, and the    *)
(* answer without one of the rows is never more than the answer with it.   *)
LEMMA NestWhereTyped == AccessTypeOK => AccessLevelsNest
<1> SUFFICES ASSUME AccessTypeOK PROVE AccessLevelsNest
  OBVIOUS
<1>1. question.rows \subseteq GrantRows
  BY DEF AccessTypeOK, Questions
<1>2. /\ ModuleCanAdmin(question) => ModuleCanEdit(question)
      /\ ModuleCanEdit(question) => ModuleCanView(question)
  BY <1>1, HigherLevelCovers DEF ModuleCanAdmin, ModuleCanEdit, ModuleCanView
<1>3. ASSUME NEW g \in question.rows
      PROVE  LET fewer == [question EXCEPT !.rows = @ \ {g}] IN
             /\ ModuleCanView(fewer) => ModuleCanView(question)
             /\ ModuleCanEdit(fewer) => ModuleCanEdit(question)
             /\ ModuleCanAdmin(fewer) => ModuleCanAdmin(question)
  <2> DEFINE fewer == [question EXCEPT !.rows = @ \ {g}]
  <2>1. /\ fewer.rows \subseteq question.rows
        /\ fewer.bypass = question.bypass /\ fewer.manage = question.manage
        /\ fewer.view = question.view /\ fewer.bundled = question.bundled
        /\ fewer.owner = question.owner
    BY DEF AccessTypeOK, Questions
  <2>2. \A l \in Levels : HasExplicitLevel(fewer, l) => HasExplicitLevel(question, l)
    <3> HIDE DEF fewer
    <3> QED BY <2>1, RowsOnlyAdd
  <2> HIDE DEF fewer
  <2>3. /\ ModuleCanView(fewer) => ModuleCanView(question)
        /\ ModuleCanEdit(fewer) => ModuleCanEdit(question)
        /\ ModuleCanAdmin(fewer) => ModuleCanAdmin(question)
    BY <2>1, <2>2 DEF ModuleCanAdmin, ModuleCanEdit, ModuleCanView, Owns, Levels
  <2> QED BY <2>3 DEF fewer
<1> QED BY <1>2, <1>3 DEF AccessLevelsNest

(* A higher level implies every lower one, and an own grant that is added  *)
(* takes nothing away, for any set of subjects and grants.                 *)
THEOREM LevelsNest == AccessSpec => []AccessLevelsNest
BY AccessTypeCorrect, NestWhereTyped, PTL

-----------------------------------------------------------------------------
(* RoleCache: the highest of some ranks, first.                            *)

(* The highest of some ranks.                                              *)

LEMMA HighestRankExists ==
    ASSUME NEW S \in SUBSET (0..4), S # {}
    PROVE  \E n \in S : \A m \in S : n >= m
<1>0. \A m \in S : m \in {0, 1, 2, 3, 4}
  OBVIOUS
<1>1. CASE 4 \in S
  <2>1. \A m \in S : 4 >= m
    BY <1>0, <1>1
  <2> QED BY <2>1, <1>1
<1>2. CASE 4 \notin S /\ 3 \in S
  <2>1. \A m \in S : 3 >= m
    BY <1>0, <1>2
  <2> QED BY <2>1, <1>2
<1>3. CASE 4 \notin S /\ 3 \notin S /\ 2 \in S
  <2>1. \A m \in S : 2 >= m
    BY <1>0, <1>3
  <2> QED BY <2>1, <1>3
<1>4. CASE 4 \notin S /\ 3 \notin S /\ 2 \notin S /\ 1 \in S
  <2>1. \A m \in S : 1 >= m
    BY <1>0, <1>4
  <2> QED BY <2>1, <1>4
<1>5. CASE 4 \notin S /\ 3 \notin S /\ 2 \notin S /\ 1 \notin S
  <2>1. \A m \in S : m = 0
    BY <1>0, <1>5
  <2>2. PICK n \in S : TRUE
    OBVIOUS
  <2>3. n = 0 /\ \A m \in S : n >= m
    BY <2>1
  <2> QED BY <2>3
<1> QED BY <1>1, <1>2, <1>3, <1>4, <1>5

(* Best is one of the ranks it chooses from, and none of them is higher.   *)
LEMMA BestIsHighest ==
    ASSUME NEW S \in SUBSET Roles, NEW least \in 0..4
    PROVE  /\ Best(S, least) \in {Rank[x] : x \in S} \cup {least}
           /\ \A m \in {Rank[x] : x \in S} \cup {least} : Best(S, least) >= m
           /\ Best(S, least) \in least..4
<1> DEFINE ranks == {Rank[x] : x \in S} \cup {least}
<1>1. ranks \in SUBSET (0..4) /\ ranks # {}
  BY RankAssumption
<1>2. Best(S, least) = CHOOSE n \in ranks : \A m \in ranks : n >= m
  BY DEF Best
<1>3. Best(S, least) \in ranks /\ \A m \in ranks : Best(S, least) >= m
  <2> HIDE DEF ranks
  <2>1. \E n \in ranks : \A m \in ranks : n >= m
    BY <1>1, HighestRankExists
  <2> QED BY <1>2, <2>1
<1>4. Best(S, least) >= least
  BY <1>3
<1> QED BY <1>1, <1>3, <1>4

(* Two reads, one after the other, find what one read of both would find.  *)
LEMMA BestOfTwoReads ==
    ASSUME NEW D \in SUBSET Roles, NEW G \in SUBSET Roles
    PROVE  Best(G, Best(D, UserRank)) = Best(D \cup G, UserRank)
<1>1. UserRank \in 0..4
  BY DEF UserRank
<1>2. Best(D, UserRank) \in 0..4
  BY <1>1, BestIsHighest
<1> DEFINE d == Best(D, UserRank)
           two == Best(G, d)
           one == Best(D \cup G, UserRank)
           ranks == {Rank[x] : x \in D \cup G} \cup {UserRank}
<1>3. /\ d \in {Rank[x] : x \in D} \cup {UserRank}
      /\ \A m \in {Rank[x] : x \in D} \cup {UserRank} : d >= m
  BY <1>1, BestIsHighest
<1>4. /\ two \in {Rank[x] : x \in G} \cup {d}
      /\ \A m \in {Rank[x] : x \in G} \cup {d} : two >= m
  BY <1>2, BestIsHighest
<1>5. one \in ranks /\ \A m \in ranks : one >= m
  BY <1>1, BestIsHighest
<1>6. ranks \subseteq 0..4
  BY <1>1, RankAssumption
<1>7. two \in ranks
  BY <1>3, <1>4
<1>8. \A m \in ranks : two >= m
  <2> SUFFICES ASSUME NEW m \in ranks PROVE two >= m
    OBVIOUS
  <2>1. CASE m \in {Rank[x] : x \in G}  BY <2>1, <1>4
  <2>2. CASE m \in {Rank[x] : x \in D} \cup {UserRank}
    <3>1. d >= m /\ two >= d
      BY <2>2, <1>3, <1>4
    <3>2. d \in Nat /\ m \in Nat /\ two \in Nat
      BY <1>2, <1>6, <1>7
    <3> HIDE DEF d, two
    <3> QED BY <3>1, <3>2
  <2> QED BY <2>1, <2>2
<1>9. one >= two /\ two >= one /\ one \in Nat /\ two \in Nat
  BY <1>5, <1>6, <1>7, <1>8
<1> HIDE DEF one, two
<1>10. one = two
  BY <1>9
<1> QED BY <1>10 DEF one, two, d

(* The two lists of a recomputation are what the cache is defined by, now  *)
(* and after a step.                                                       *)
LEMMA HighestIsBest ==
    ASSUME NEW i
    PROVE  /\ Highest(i) = Best(Direct(i) \cup ViaGroups(i), UserRank)
           /\ Highest(i)' = Best(Direct(i)' \cup ViaGroups(i)', UserRank)
<1>1. {y \in Roles : \/ <<i, y>> \in holds
                     \/ \E g \in Groups \ deleted :
                          <<i, g>> \in joined /\ <<g, y>> \in carries}
        = Direct(i) \cup ViaGroups(i)
  BY DEF Direct, ViaGroups
<1>2. {y \in Roles : \/ <<i, y>> \in holds'
                     \/ \E g \in Groups \ deleted' :
                          <<i, g>> \in joined' /\ <<g, y>> \in carries'}
        = Direct(i)' \cup ViaGroups(i)'
  BY DEF Direct, ViaGroups
<1>3. \A S : {UserRank} \cup {Rank[x] : x \in S} = {Rank[x] : x \in S} \cup {UserRank}
  OBVIOUS
<1>4. Highest(i) = Best(Direct(i) \cup ViaGroups(i), UserRank)
  BY <1>1, <1>3 DEF Highest, Best
<1>5. Highest(i)' = Best(Direct(i)' \cup ViaGroups(i)', UserRank)
  BY <1>2, <1>3 DEF Highest, Best
<1> QED BY <1>4, <1>5

(* What is not touched keeps its highest role.                             *)
LEMMA UntouchedKeepsHighest ==
    ASSUME NEW i \in Accounts, i \notin Touched
    PROVE  /\ Direct(i)' = Direct(i)
           /\ Highest(i)' = Highest(i)
<1>1. Direct(i)' = Direct(i) /\ ViaGroups(i)' = ViaGroups(i)
  BY DEF Touched
<1>2. Highest(i)' = Highest(i)
  <2>1. Direct(i)' \cup ViaGroups(i)' = Direct(i) \cup ViaGroups(i)
    BY <1>1
  <2> QED BY <2>1, HighestIsBest
<1> QED BY <1>1, <1>2

-----------------------------------------------------------------------------
(* The inductive invariant.                                                *)

(* What request record q has set while it is at its statement.             *)
CacheLocalsOf(q) ==
    /\ q.pc \in {"direct", "groups", "write"} => q.who \in Accounts
    /\ q.pc = "members" => q.group \in Groups
    /\ q.pc = "delete" => q.role \in Roles
    /\ q.pc = "direct" => q.fresh
    /\ q.pc \in {"idle", "members", "delete"} => q.todo = {}

CacheLocals == \A r \in CacheRequests : CacheLocalsOf(creq[r])

(* A recomputation nobody has overtaken has read what is still there.      *)
FreshReadsOf(q) ==
    q.fresh =>
      /\ q.pc = "groups" => q.best = Best(Direct(q.who), UserRank)
      /\ q.pc = "write" => q.best = Highest(q.who)

FreshReads == \A r \in CacheRequests : FreshReadsOf(creq[r])

CacheInv == RoleCacheTypeOK /\ CacheLocals /\ FreshReads /\ CacheFollowsRoles

(* Pending, of a request record.                                           *)
PendingOf(q) ==
    IF q.pc = "members" THEN MembersOf(q.group)
    ELSE IF q.pc = "direct" THEN q.todo \cup {q.who}
    ELSE IF q.pc \in {"groups", "write"} /\ q.fresh THEN q.todo \cup {q.who}
    ELSE q.todo

LEMMA PendingIsOf ==
    ASSUME NEW r
    PROVE  /\ Pending(r) = PendingOf(creq[r])
           /\ Pending(r)' = PendingOf(creq[r])'
<1>1. Pending(r) = PendingOf(creq[r])
  BY DEF Pending, PendingOf
<1>2. Pending(r)' = PendingOf(creq[r])'
  BY DEF Pending, PendingOf
<1> QED BY <1>1, <1>2

(* A request record after a change of its account's roles by another.      *)
CacheOvertaken(q) ==
    IF q.pc \in {"groups", "write"} /\ q.who \in Touched
    THEN [q EXCEPT !.fresh = FALSE] ELSE q

(* A step that changes what accounts hold keeps the invariant if it leaves *)
(* every account it touches, and every member it takes out of a group, to  *)
(* be recomputed by the requests in W it starts, or excused.               *)
LEMMA ChangeKeepsInv ==
    ASSUME CacheInv, RoleCacheTypeOK',
           NEW W \in SUBSET CacheRequests,
           \A s \in CacheRequests \ W : creq'[s] = CacheOvertaken(creq[s]),
           \A s \in W : /\ creq[s].pc \in {"idle", "delete"}
                       /\ CacheLocalsOf(creq'[s])
                       /\ creq'[s].pc \notin {"groups", "write"},
           UNCHANGED cache,
           excused \subseteq excused',
           \A i \in Touched : i \in excused' \/ \E s \in W : i \in PendingOf(creq[s])',
           \A g \in Groups : \A i \in MembersOf(g) :
              \/ i \in MembersOf(g)' \cup excused'
              \/ \E s \in W : i \in PendingOf(creq[s])'
    PROVE  CacheInv'
<1>1. \A s \in CacheRequests : creq[s] \in CacheRequestType
  BY DEF CacheInv, RoleCacheTypeOK
<1>2. ASSUME NEW s \in CacheRequests \ W
      PROVE  CacheLocalsOf(creq'[s]) /\ FreshReadsOf(creq[s])'
  <2>1. CacheLocalsOf(creq[s]) /\ FreshReadsOf(creq[s])
    BY DEF CacheInv, CacheLocals, FreshReads
  <2>2. CASE creq[s].pc \in {"groups", "write"} /\ creq[s].who \in Touched
    <3>1. creq'[s] = [creq[s] EXCEPT !.fresh = FALSE]
      BY <2>2 DEF CacheOvertaken
    <3> QED BY <1>1, <2>1, <2>2, <3>1 DEF CacheLocalsOf, FreshReadsOf, CacheRequestType
  <2>3. CASE creq[s].pc \in {"groups", "write"} /\ creq[s].who \notin Touched
    <3>1. creq'[s] = creq[s]
      BY <2>3 DEF CacheOvertaken
    <3>2. creq[s].who \in Accounts
      BY <2>1, <2>3 DEF CacheLocalsOf
    <3>3. \A i \in Accounts : i \notin Touched =>
             Direct(i)' = Direct(i) /\ Highest(i)' = Highest(i)
      BY UntouchedKeepsHighest
    <3>4. CacheLocalsOf(creq'[s]) /\ FreshReadsOf(creq'[s])
      BY <2>1, <3>1
    <3>5. FreshReadsOf(creq[s])'
      BY <2>3, <3>1, <3>2, <3>3, <3>4 DEF FreshReadsOf
    <3> QED BY <3>4, <3>5
  <2>4. CASE creq[s].pc \notin {"groups", "write"}
    BY <2>1, <2>4 DEF CacheOvertaken, CacheLocalsOf, FreshReadsOf
  <2> QED BY <2>2, <2>3, <2>4
<1>3. (CacheLocals /\ FreshReads)'
  <2>1. \A s \in W : FreshReadsOf(creq[s])'
    BY DEF FreshReadsOf
  <2> QED BY <1>2, <2>1 DEF CacheLocals, FreshReads
<1>4. CacheFollowsRoles'
  <2> SUFFICES ASSUME NEW i \in Accounts
               PROVE  \/ cache'[i] = Highest(i)'
                      \/ i \in excused'
                      \/ \E r \in CacheRequests : i \in Pending(r)'
    BY DEF CacheFollowsRoles
  <2>1. CASE i \in Touched
    BY <2>1, PendingIsOf
  <2>2. CASE i \notin Touched /\ (cache[i] = Highest(i) \/ i \in excused)
    BY <2>2, UntouchedKeepsHighest
  <2>3. ASSUME i \notin Touched, NEW r \in CacheRequests, i \in Pending(r)
        PROVE  i \in excused' \/ \E s \in CacheRequests : i \in Pending(s)'
    <3>1. i \in PendingOf(creq[r])
      BY <2>3, PendingIsOf
    <3>2. r \notin W
      BY <3>1 DEF PendingOf, CacheInv, CacheLocals, CacheLocalsOf
    <3>3. CASE creq[r].pc = "members"
      <4>1. creq'[r] = creq[r] /\ creq[r].group \in Groups
        BY <3>2, <3>3 DEF CacheOvertaken, CacheInv, CacheLocals, CacheLocalsOf
      <4>2. i \in MembersOf(creq[r].group)
        BY <3>1, <3>3 DEF PendingOf
      <4>3. \/ i \in MembersOf(creq[r].group)' \cup excused'
            \/ \E s \in W : i \in PendingOf(creq[s])'
        BY <4>1, <4>2 DEF MembersOf
      <4>4. i \in MembersOf(creq[r].group)' => i \in PendingOf(creq[r])'
        BY <3>3, <4>1 DEF PendingOf
      <4> QED BY <4>3, <4>4, PendingIsOf
    <3>4. CASE creq[r].pc # "members"
      <4>1. i \in PendingOf(creq[r])'
        <5>1. /\ creq'[r].pc = creq[r].pc /\ creq'[r].who = creq[r].who
              /\ creq'[r].todo = creq[r].todo
              /\ creq[r].pc = "direct" \/ creq[r].who \notin Touched => creq'[r] = creq[r]
          <6> DEFINE q == creq[r]
          <6>1. creq'[r] = CacheOvertaken(q) /\ q \in CacheRequestType
            BY <1>1, <3>2
          <6> HIDE DEF q
          <6>2. CASE q.pc \in {"groups", "write"} /\ q.who \in Touched
            <7>1. creq'[r] = [q EXCEPT !.fresh = FALSE]
              BY <6>1, <6>2 DEF CacheOvertaken
            <7>2. /\ creq'[r].pc = q.pc /\ creq'[r].who = q.who
                  /\ creq'[r].todo = q.todo
              BY <6>1, <7>1 DEF CacheRequestType
            <7> QED BY <6>2, <7>2 DEF q
          <6>3. CASE ~(q.pc \in {"groups", "write"} /\ q.who \in Touched)
            <7>1. creq'[r] = q
              BY <6>1, <6>3 DEF CacheOvertaken
            <7> QED BY <7>1 DEF q
          <6> QED BY <6>2, <6>3
        <5> QED BY <3>1, <3>4, <2>3, <5>1 DEF PendingOf
      <4> QED BY <4>1, PendingIsOf
    <3> QED BY <3>3, <3>4
  <2> QED BY <2>1, <2>2, <2>3 DEF CacheInv, CacheFollowsRoles
<1> QED BY <1>3, <1>4 DEF CacheInv

(* A step of request r alone, which changes no table: whom it stops        *)
(* promising to recompute, and whom it stops excusing, has a cache that is *)
(* right.                                                                  *)
LEMMA OwnStepKeepsInv ==
    ASSUME CacheInv, RoleCacheTypeOK',
           NEW r \in CacheRequests, NEW q,
           UNCHANGED <<holds, carries, joined, deleted>>,
           creq' = [creq EXCEPT ![r] = q],
           CacheLocalsOf(q), FreshReadsOf(q),
           \A i \in Accounts :
              cache[i] = Highest(i) \/ i \in excused \/ i \in PendingOf(creq[r]) =>
                cache'[i] = Highest(i) \/ i \in excused' \/ i \in PendingOf(q)
    PROVE  CacheInv'
<1>1. creq'[r] = q /\ \A s \in CacheRequests \ {r} : creq'[s] = creq[s]
  BY DEF CacheInv, RoleCacheTypeOK
<1>2. \A i : Direct(i)' = Direct(i) /\ Highest(i)' = Highest(i)
  BY DEF Direct, Highest
<1>3. \A s \in CacheRequests :
        CacheLocalsOf(creq[s]) /\ FreshReadsOf(creq[s])
  BY DEF CacheInv, CacheLocals, FreshReads
<1>4. \A s \in CacheRequests : CacheLocalsOf(creq'[s])
  BY <1>1, <1>3
<1>5. \A s \in CacheRequests : FreshReadsOf(creq[s])'
  <2>1. \A s \in CacheRequests : FreshReadsOf(creq'[s])
    BY <1>1, <1>3
  <2> QED BY <2>1, <1>2 DEF FreshReadsOf
<1>6. ASSUME NEW i \in Accounts
      PROVE  \/ cache'[i] = Highest(i)'
             \/ i \in excused'
             \/ \E s \in CacheRequests : i \in Pending(s)'
  <2>1. \A s \in CacheRequests : PendingOf(creq[s])' = PendingOf(creq'[s])
    BY DEF PendingOf, MembersOf
  <2>2. CASE cache[i] = Highest(i) \/ i \in excused \/ i \in PendingOf(creq[r])
    BY <1>1, <1>2, <2>1, <2>2, PendingIsOf
  <2>3. ASSUME NEW s \in CacheRequests \ {r}, i \in PendingOf(creq[s])
        PROVE  i \in Pending(s)'
    BY <1>1, <2>1, <2>3, PendingIsOf
  <2>4. \/ cache[i] = Highest(i) \/ i \in excused \/ i \in PendingOf(creq[r])
        \/ \E s \in CacheRequests \ {r} : i \in PendingOf(creq[s])
    BY PendingIsOf DEF CacheInv, CacheFollowsRoles
  <2> QED BY <2>2, <2>3, <2>4
<1>7. (CacheLocals /\ FreshReads /\ CacheFollowsRoles)'
  BY <1>4, <1>5, <1>6 DEF CacheLocals, CacheLocalsOf, FreshReads, CacheFollowsRoles
<1> QED BY <1>7 DEF CacheInv

-----------------------------------------------------------------------------
(* Types.                                                                  *)

LEMMA UserRankTyped == UserRank \in UserRank..4
BY DEF UserRank

LEMMA CacheIdleTyped ==
    /\ CacheIdle \in CacheRequestType
    /\ CacheLocalsOf(CacheIdle) /\ FreshReadsOf(CacheIdle)
    /\ PendingOf(CacheIdle) = {}
<1>1. CacheIdle \in CacheRequestType
  BY DEF CacheIdle, CacheRequestType, UserRank
<1>2. CacheLocalsOf(CacheIdle) /\ FreshReadsOf(CacheIdle) /\ PendingOf(CacheIdle) = {}
  BY DEF CacheIdle, CacheLocalsOf, FreshReadsOf, PendingOf
<1> QED BY <1>1, <1>2

LEMMA RecomputeTyped ==
    ASSUME NEW i \in Accounts, NEW todo \in SUBSET Accounts
    PROVE  /\ Recompute(i, todo) \in CacheRequestType
           /\ Recompute(i, todo).pc = "direct"
           /\ Recompute(i, todo).who = i
           /\ Recompute(i, todo).fresh
           /\ Recompute(i, todo).todo = todo
BY UserRankTyped DEF Recompute, CacheIdle, CacheRequestType

(* The record of a request that has todo still to go through.              *)
LEMMA NextTyped ==
    ASSUME NEW todo \in SUBSET Accounts
    PROVE  LET q == [CacheIdle EXCEPT !.pc = "next", !.todo = todo]
           IN  /\ q \in CacheRequestType /\ CacheLocalsOf(q) /\ FreshReadsOf(q)
               /\ PendingOf(q) = todo
<1> DEFINE q == [CacheIdle EXCEPT !.pc = "next", !.todo = todo]
<1>1. q \in CacheRequestType /\ q.pc = "next" /\ q.todo = todo
  BY UserRankTyped DEF CacheIdle, CacheRequestType
<1> HIDE DEF q
<1>2. CacheLocalsOf(q) /\ FreshReadsOf(q) /\ PendingOf(q) = todo
  BY <1>1 DEF CacheLocalsOf, FreshReadsOf, PendingOf
<1> QED BY <1>1, <1>2 DEF q

(* The requests stay typed when r moves to q and others are overtaken.     *)
LEMMA CacheWriteTyped ==
    ASSUME RoleCacheTypeOK, NEW r \in CacheRequests,
           NEW q \in CacheRequestType, CacheWrite(r, q)
    PROVE  /\ creq' \in [CacheRequests -> CacheRequestType]
           /\ creq'[r] = q
           /\ \A s \in CacheRequests \ {r} : creq'[s] = CacheOvertaken(creq[s])
<1>1. \A s \in CacheRequests : creq[s] \in CacheRequestType
  BY DEF RoleCacheTypeOK
<1>2. \A s \in CacheRequests : [creq[s] EXCEPT !.fresh = FALSE] \in CacheRequestType
  BY <1>1 DEF CacheRequestType
<1>3. \A s \in CacheRequests : CacheOvertaken(creq[s]) \in CacheRequestType
  BY <1>1, <1>2 DEF CacheOvertaken
<1>4. creq' = [s \in CacheRequests |-> IF s = r THEN q ELSE CacheOvertaken(creq[s])]
  BY DEF CacheWrite, CacheOvertaken
<1> QED BY <1>3, <1>4

LEMMA ChangeAloneTyped ==
    ASSUME RoleCacheTypeOK, NEW S \in SUBSET Accounts, ChangeAlone(S)
    PROVE  /\ creq' \in [CacheRequests -> CacheRequestType]
           /\ excused' \subseteq Accounts
           /\ \A s \in CacheRequests : creq'[s] = CacheOvertaken(creq[s])
<1>1. \A s \in CacheRequests : creq[s] \in CacheRequestType
  BY DEF RoleCacheTypeOK
<1>2. \A s \in CacheRequests : [creq[s] EXCEPT !.fresh = FALSE] \in CacheRequestType
  BY <1>1 DEF CacheRequestType
<1>3. \A s \in CacheRequests : CacheOvertaken(creq[s]) \in CacheRequestType
  BY <1>1, <1>2 DEF CacheOvertaken
<1>4. creq' = [s \in CacheRequests |-> CacheOvertaken(creq[s])]
  BY DEF ChangeAlone, CacheOvertaken
<1>5. excused' \subseteq Accounts
  BY DEF ChangeAlone, Touched, RoleCacheTypeOK
<1> QED BY <1>3, <1>4, <1>5

-----------------------------------------------------------------------------
(* The changes.                                                            *)

(* A request that changes tables and begins with q, of which every account *)
(* it touches is pending.                                                  *)
LEMMA StartKeepsInv ==
    ASSUME CacheInv, NEW r \in CacheRequests, CacheAt(r, "idle"),
           NEW q \in CacheRequestType, CacheLocalsOf(q), q.pc \in {"members", "direct"},
           CacheWrite(r, q),
           UNCHANGED <<deleted, cache, excused>>,
           holds' \subseteq Accounts \X Roles,
           carries' \subseteq Groups \X Roles,
           joined' \subseteq Accounts \X Groups,
           \A i \in Touched : i \in PendingOf(q)',
           \A g \in Groups, i \in Accounts : <<i, g>> \in joined =>
              <<i, g>> \in joined' \/ i \in PendingOf(q)'
    PROVE  CacheInv'
<1>1. RoleCacheTypeOK
  BY DEF CacheInv
<1>2. /\ creq' \in [CacheRequests -> CacheRequestType]
      /\ creq'[r] = q
      /\ \A s \in CacheRequests \ {r} : creq'[s] = CacheOvertaken(creq[s])
  BY <1>1, CacheWriteTyped
<1>3. RoleCacheTypeOK'
  BY <1>1, <1>2 DEF RoleCacheTypeOK
<1>4. \A i : i \in PendingOf(q)' => i \in PendingOf(creq[r])'
  BY <1>2 DEF PendingOf, MembersOf
<1> DEFINE W == {r}
<1>5. \A i \in Touched : i \in excused' \/ \E s \in W : i \in PendingOf(creq[s])'
  BY <1>4
<1>6. \A g \in Groups : \A i \in MembersOf(g) :
        \/ i \in MembersOf(g)' \cup excused'
        \/ \E s \in W : i \in PendingOf(creq[s])'
  BY <1>4 DEF MembersOf
<1>7. \A s \in W : /\ creq[s].pc \in {"idle", "delete"}
                    /\ CacheLocalsOf(creq'[s])
                    /\ creq'[s].pc \notin {"groups", "write"}
  BY <1>2 DEF CacheAt
<1>8. W \in SUBSET CacheRequests /\ \A s \in CacheRequests \ W : creq'[s] = CacheOvertaken(creq[s])
  BY <1>2
<1> HIDE DEF W
<1> QED BY <1>3, <1>5, <1>6, <1>7, <1>8, ChangeKeepsInv

LEMMA AccountChangeKeepsInv ==
    ASSUME CacheInv, NEW r \in CacheRequests, NEW i \in Accounts,
           \/ \E x \in Roles : AssignRole(r, i, x) \/ RemoveRole(r, i, x)
           \/ \E g \in Groups : Join(r, i, g) \/ Leave(r, i, g)
    PROVE  CacheInv'
<1> DEFINE q == Recompute(i, {})
<1>1. /\ q \in CacheRequestType /\ CacheLocalsOf(q) /\ q.pc = "direct"
  BY RecomputeTyped DEF CacheLocalsOf
<1>2. PendingOf(q)' = {i}
  BY RecomputeTyped DEF PendingOf
<1>3. /\ CacheAt(r, "idle") /\ CacheWrite(r, q)
      /\ UNCHANGED <<deleted, cache, excused>>
      /\ holds' \subseteq Accounts \X Roles
      /\ carries' = carries
      /\ carries' \subseteq Groups \X Roles
      /\ joined' \subseteq Accounts \X Groups
      /\ \A j \in Accounts \ {i} :
           /\ \A y \in Roles : <<j, y>> \in holds' <=> <<j, y>> \in holds
           /\ \A h \in Groups : <<j, h>> \in joined' <=> <<j, h>> \in joined
  <2>1. CASE \E x \in Roles : AssignRole(r, i, x)
    BY <2>1 DEF AssignRole, CacheInv, RoleCacheTypeOK
  <2>2. CASE \E x \in Roles : RemoveRole(r, i, x)
    BY <2>2 DEF RemoveRole, CacheInv, RoleCacheTypeOK
  <2>3. CASE \E g \in Groups : Join(r, i, g)
    BY <2>3 DEF Join, CacheInv, RoleCacheTypeOK
  <2>4. CASE \E g \in Groups : Leave(r, i, g)
    BY <2>4 DEF Leave, CacheInv, RoleCacheTypeOK
  <2> QED BY <2>1, <2>2, <2>3, <2>4
<1>4. \A j \in Touched : j \in PendingOf(q)'
  BY <1>2, <1>3 DEF Touched, Direct, ViaGroups
<1>5. \A h \in Groups, j \in Accounts : <<j, h>> \in joined =>
        <<j, h>> \in joined' \/ j \in PendingOf(q)'
  BY <1>2, <1>3
<1> HIDE DEF q
<1> QED BY <1>1, <1>3, <1>4, <1>5, StartKeepsInv

LEMMA GroupRoleChangeKeepsInv ==
    ASSUME CacheInv, NEW r \in CacheRequests, NEW g \in Groups, NEW x \in Roles,
           GroupRoleAssign(r, g, x) \/ GroupRoleRemove(r, g, x)
    PROVE  CacheInv'
<1> DEFINE q == [CacheIdle EXCEPT !.pc = "members", !.group = g]
<1>1. /\ q \in CacheRequestType /\ CacheLocalsOf(q)
      /\ q.pc = "members" /\ q.group = g
  BY UserRankTyped DEF CacheIdle, CacheRequestType, CacheLocalsOf
<1>2. /\ CacheAt(r, "idle") /\ CacheWrite(r, q)
      /\ UNCHANGED <<holds, joined, deleted, cache, excused>>
      /\ carries' \subseteq Groups \X Roles
      /\ \A h \in Groups \ {g}, y \in Roles : <<h, y>> \in carries' <=> <<h, y>> \in carries
  BY DEF CacheInv, RoleCacheTypeOK, GroupRoleAssign, GroupRoleRemove, GroupRoleChange
<1> HIDE DEF q
<1>3. PendingOf(q)' = MembersOf(g)
  BY <1>1, <1>2 DEF PendingOf, MembersOf
<1>4. \A i \in Touched : i \in PendingOf(q)'
  BY <1>2, <1>3 DEF Touched, Direct, ViaGroups, MembersOf
<1>5. CacheInv => /\ holds' \subseteq Accounts \X Roles
                  /\ joined' \subseteq Accounts \X Groups
  BY <1>2 DEF CacheInv, RoleCacheTypeOK
<1> QED BY <1>1, <1>2, <1>4, <1>5, StartKeepsInv

(* A change by which nobody is recomputed.                                 *)
LEMMA LoneChangeKeepsInv ==
    ASSUME CacheInv, NEW S \in SUBSET Accounts, ChangeAlone(S),
           UNCHANGED <<holds, cache>>,
           carries' \subseteq Groups \X Roles,
           joined' \subseteq Accounts \X Groups,
           deleted' \subseteq Accounts \cup Groups,
           \A g \in Groups, i \in Accounts : <<i, g>> \in joined =>
              <<i, g>> \in joined' \/ i \in S
    PROVE  CacheInv'
<1>1. RoleCacheTypeOK
  BY DEF CacheInv
<1>2. /\ creq' \in [CacheRequests -> CacheRequestType]
      /\ excused' \subseteq Accounts
      /\ \A s \in CacheRequests : creq'[s] = CacheOvertaken(creq[s])
  BY <1>1, ChangeAloneTyped
<1>3. RoleCacheTypeOK'
  BY <1>1, <1>2 DEF RoleCacheTypeOK
<1>4. excused' = excused \cup Touched \cup S
  BY DEF ChangeAlone
<1>5. \A g \in Groups : \A i \in MembersOf(g) : i \in MembersOf(g)' \cup excused'
  BY <1>4 DEF MembersOf
<1>6. \A i \in Touched : i \in excused'
  BY <1>4
<1>7. excused \subseteq excused'
  BY <1>4
<1> DEFINE W == {}
<1>8. /\ W \in SUBSET CacheRequests
      /\ \A s \in CacheRequests \ W : creq'[s] = CacheOvertaken(creq[s])
      /\ \A s \in W : /\ creq[s].pc \in {"idle", "delete"}
                      /\ CacheLocalsOf(creq'[s])
                      /\ creq'[s].pc \notin {"groups", "write"}
      /\ \A i \in Touched : i \in excused' \/ \E s \in W : i \in PendingOf(creq[s])'
      /\ \A g \in Groups : \A i \in MembersOf(g) :
           \/ i \in MembersOf(g)' \cup excused'
           \/ \E s \in W : i \in PendingOf(creq[s])'
  BY <1>2, <1>5, <1>6
<1> HIDE DEF W
<1> QED BY <1>3, <1>7, <1>8, ChangeKeepsInv

LEMMA RuleMembershipKeepsInv ==
    ASSUME CacheInv, NEW i \in Accounts, NEW g \in Groups, RuleMembership(i, g)
    PROVE  CacheInv'
<1>1. /\ ChangeAlone({i}) /\ UNCHANGED <<holds, carries, deleted, cache>>
      /\ joined' \subseteq Accounts \X Groups
      /\ \A h \in Groups, j \in Accounts : <<j, h>> \in joined => <<j, h>> \in joined' \/ j \in {i}
  BY DEF RuleMembership, CacheInv, RoleCacheTypeOK
<1>2. carries' \subseteq Groups \X Roles /\ deleted' \subseteq Accounts \cup Groups
  BY <1>1 DEF CacheInv, RoleCacheTypeOK
<1> QED BY <1>1, <1>2, LoneChangeKeepsInv

LEMMA DeleteOrRestoreKeepsInv ==
    ASSUME CacheInv, NEW e \in Accounts \cup Groups, DeleteOrRestore(e)
    PROVE  CacheInv'
<1>1. /\ ChangeAlone({}) /\ UNCHANGED <<holds, carries, joined, cache>>
      /\ deleted' \subseteq Accounts \cup Groups
      /\ carries' \subseteq Groups \X Roles /\ joined' \subseteq Accounts \X Groups
  BY DEF DeleteOrRestore, CacheInv, RoleCacheTypeOK
<1>2. {} \in SUBSET Accounts
  OBVIOUS
<1> QED BY <1>1, <1>2, LoneChangeKeepsInv

LEMMA EraseGroupKeepsInv ==
    ASSUME CacheInv, NEW g \in Groups, EraseGroup(g)
    PROVE  CacheInv'
<1>1. /\ ChangeAlone(MembersOf(g)) /\ UNCHANGED <<holds, cache>>
      /\ deleted' \subseteq Accounts \cup Groups
      /\ carries' \subseteq Groups \X Roles /\ joined' \subseteq Accounts \X Groups
  BY DEF EraseGroup, CacheInv, RoleCacheTypeOK
<1>2. \A h \in Groups, j \in Accounts : <<j, h>> \in joined =>
        <<j, h>> \in joined' \/ j \in MembersOf(g)
  BY DEF EraseGroup, MembersOf
<1>3. MembersOf(g) \in SUBSET Accounts
  BY DEF MembersOf
<1> QED BY <1>1, <1>2, <1>3, LoneChangeKeepsInv

LEMMA DeleteRoleKeepsInv ==
    ASSUME CacheInv, NEW r \in CacheRequests, DeleteRole(r)
    PROVE  CacheInv'
<1>1. RoleCacheTypeOK
  BY DEF CacheInv
<1>2. CacheWrite(r, CacheIdle) /\ CacheAt(r, "delete")
  BY DEF DeleteRole
<1>3. /\ creq' \in [CacheRequests -> CacheRequestType]
      /\ creq'[r] = CacheIdle
      /\ \A s \in CacheRequests \ {r} : creq'[s] = CacheOvertaken(creq[s])
  BY <1>1, <1>2, CacheIdleTyped, CacheWriteTyped
<1>4. /\ holds' \subseteq holds /\ carries' \subseteq carries
      /\ UNCHANGED <<joined, deleted, cache>>
      /\ excused' = excused \cup Touched
  BY DEF DeleteRole
<1>5. Touched \subseteq Accounts
  BY DEF Touched
<1>6. RoleCacheTypeOK'
  BY <1>1, <1>3, <1>4, <1>5 DEF RoleCacheTypeOK
<1> DEFINE W == {r}
<1>7. \A s \in W : /\ creq[s].pc \in {"idle", "delete"}
                    /\ CacheLocalsOf(creq'[s])
                    /\ creq'[s].pc \notin {"groups", "write"}
  <2>1. CacheIdle.pc = "idle"
    BY DEF CacheIdle
  <2> QED BY <1>2, <1>3, <2>1, CacheIdleTyped DEF CacheAt
<1>8. /\ excused \subseteq excused'
      /\ \A i \in Touched : i \in excused' \/ \E s \in W : i \in PendingOf(creq[s])'
  BY <1>4
<1>9. \A g \in Groups : \A i \in MembersOf(g) :
        \/ i \in MembersOf(g)' \cup excused'
        \/ \E s \in W : i \in PendingOf(creq[s])'
  BY <1>4 DEF MembersOf
<1>10. W \in SUBSET CacheRequests /\ \A s \in CacheRequests \ W : creq'[s] = CacheOvertaken(creq[s])
  BY <1>3
<1> HIDE DEF W
<1> QED BY <1>4, <1>6, <1>7, <1>8, <1>9, <1>10, ChangeKeepsInv

-----------------------------------------------------------------------------
(* The steps of a recomputation.                                           *)

LEMMA NextKeepsInv ==
    ASSUME CacheInv, RoleCacheNext
    PROVE  CacheInv'
<1> USE DEF CacheInv
<1>1. /\ RoleCacheTypeOK
      /\ \A r \in CacheRequests : /\ creq[r] \in CacheRequestType
                                 /\ CacheLocalsOf(creq[r]) /\ FreshReadsOf(creq[r])
  BY DEF RoleCacheTypeOK, CacheLocals, FreshReads
<1>2. ASSUME NEW r \in CacheRequests, ListMembers(r) PROVE CacheInv'
  <2> DEFINE listed == MembersOf(creq[r].group) \ deleted
             q == [CacheIdle EXCEPT !.pc = "next", !.todo = listed]
  <2>1. q \in CacheRequestType /\ CacheLocalsOf(q) /\ FreshReadsOf(q) /\ PendingOf(q) = listed
    <3>1. listed \in SUBSET Accounts
      BY DEF MembersOf
    <3> HIDE DEF listed
    <3> QED BY <3>1, NextTyped
  <2>2. /\ creq' = [creq EXCEPT ![r] = q]
        /\ UNCHANGED <<holds, carries, joined, deleted, cache>>
        /\ excused' = excused \cup (MembersOf(creq[r].group) \ listed)
    BY <1>2 DEF ListMembers, CacheMove
  <2>3. PendingOf(creq[r]) = MembersOf(creq[r].group)
    BY <1>2 DEF ListMembers, CacheAt, PendingOf
  <2> HIDE DEF q, listed
  <2>4. MembersOf(creq[r].group) \subseteq Accounts
    BY DEF MembersOf
  <2>5. RoleCacheTypeOK'
    BY <1>1, <2>1, <2>2, <2>4 DEF RoleCacheTypeOK
  <2> QED BY <2>1, <2>2, <2>3, <2>5, OwnStepKeepsInv
<1>3. ASSUME NEW r \in CacheRequests, NextMember(r) PROVE CacheInv'
  <2>1. CASE creq[r].todo = {} /\ creq' = [creq EXCEPT ![r] = CacheIdle]
    <3>1. UNCHANGED <<holds, carries, joined, deleted, cache, excused>> /\ CacheAt(r, "next")
      BY <1>3 DEF NextMember
    <3>2. RoleCacheTypeOK'
      BY <1>1, <2>1, <3>1, CacheIdleTyped DEF RoleCacheTypeOK
    <3>3. PendingOf(creq[r]) = {}
      BY <2>1, <3>1 DEF PendingOf, CacheAt
    <3> QED BY <2>1, <3>1, <3>2, <3>3, CacheIdleTyped, OwnStepKeepsInv
  <2>2. ASSUME NEW i \in creq[r].todo,
               creq' = [creq EXCEPT ![r] = Recompute(i, creq[r].todo \ {i})]
        PROVE  CacheInv'
    <3> DEFINE q == Recompute(i, creq[r].todo \ {i})
    <3>1. UNCHANGED <<holds, carries, joined, deleted, cache, excused>> /\ CacheAt(r, "next")
      BY <1>3 DEF NextMember
    <3>2. i \in Accounts /\ creq[r].todo \ {i} \in SUBSET Accounts
      BY <1>1 DEF CacheRequestType
    <3>3. /\ q \in CacheRequestType /\ CacheLocalsOf(q) /\ FreshReadsOf(q)
          /\ PendingOf(q) = creq[r].todo
      <4> DEFINE todo == creq[r].todo \ {i}
      <4>1. /\ q \in CacheRequestType /\ q.pc = "direct" /\ q.who = i /\ q.fresh
            /\ q.todo = todo
        BY <3>2, RecomputeTyped
      <4>2. todo \cup {i} = creq[r].todo
        OBVIOUS
      <4> HIDE DEF q, todo
      <4> QED BY <3>2, <4>1, <4>2 DEF CacheLocalsOf, FreshReadsOf, PendingOf
    <3> HIDE DEF q
    <3>4. creq' = [creq EXCEPT ![r] = q]
      BY <2>2 DEF q
    <3>5. RoleCacheTypeOK'
      BY <1>1, <3>1, <3>3, <3>4 DEF RoleCacheTypeOK
    <3>6. PendingOf(creq[r]) = creq[r].todo
      BY <3>1 DEF PendingOf, CacheAt
    <3> QED BY <3>1, <3>3, <3>4, <3>5, <3>6, OwnStepKeepsInv
  <2> QED BY <1>3, <2>1, <2>2 DEF NextMember, CacheMove
<1>4. ASSUME NEW r \in CacheRequests, ReadDirect(r) PROVE CacheInv'
  <2> DEFINE best == Best(Direct(creq[r].who), UserRank)
             q == [creq[r] EXCEPT !.pc = "groups", !.best = best]
  <2>1. /\ creq[r].pc = "direct" /\ creq[r].who \in Accounts /\ creq[r].fresh
        /\ creq' = [creq EXCEPT ![r] = q]
        /\ UNCHANGED <<holds, carries, joined, deleted, cache, excused>>
    BY <1>1, <1>4 DEF ReadDirect, CacheMove, CacheAt, CacheLocalsOf
  <2>2. best \in UserRank..4
    <3>1. Direct(creq[r].who) \in SUBSET Roles /\ UserRank \in 0..4
      BY DEF Direct, UserRank
    <3> QED BY <3>1, BestIsHighest
  <2>3. q.pc = "groups" /\ q.best = best /\ q.who = creq[r].who /\ q.fresh = creq[r].fresh
        /\ q.todo = creq[r].todo /\ q \in CacheRequestType
    <3> HIDE DEF best
    <3> QED BY <1>1, <2>2 DEF CacheRequestType
  <2>4. /\ CacheLocalsOf(q) /\ FreshReadsOf(q)
        /\ PendingOf(q) = PendingOf(creq[r])
    <3> HIDE DEF q
    <3> QED BY <2>1, <2>3 DEF CacheLocalsOf, FreshReadsOf, PendingOf
  <2> HIDE DEF q
  <2>5. RoleCacheTypeOK'
    BY <1>1, <2>1, <2>3 DEF RoleCacheTypeOK
  <2> QED BY <2>1, <2>4, <2>5, OwnStepKeepsInv
<1>5. ASSUME NEW r \in CacheRequests, ReadGroups(r) PROVE CacheInv'
  <2> DEFINE best == Best(ViaGroups(creq[r].who), creq[r].best)
             q == [creq[r] EXCEPT !.pc = "write", !.best = best]
  <2>1. /\ creq[r].pc = "groups" /\ creq[r].who \in Accounts
        /\ creq' = [creq EXCEPT ![r] = q]
        /\ UNCHANGED <<holds, carries, joined, deleted, cache, excused>>
    BY <1>1, <1>5 DEF ReadGroups, CacheMove, CacheAt, CacheLocalsOf
  <2>2. best \in UserRank..4
    <3>1. ViaGroups(creq[r].who) \in SUBSET Roles
      BY DEF ViaGroups
    <3>2. creq[r].best \in 0..4 /\ creq[r].best \in UserRank..4
      BY <1>1 DEF CacheRequestType, UserRank
    <3>3. best \in creq[r].best..4
      BY <3>1, <3>2, BestIsHighest
    <3> HIDE DEF best
    <3> QED BY <3>2, <3>3 DEF UserRank
  <2>3. q.pc = "write" /\ q.best = best /\ q.who = creq[r].who /\ q.fresh = creq[r].fresh
        /\ q.todo = creq[r].todo /\ q \in CacheRequestType
    <3> HIDE DEF best
    <3> QED BY <1>1, <2>2 DEF CacheRequestType
  <2>4. creq[r].fresh => best = Highest(creq[r].who)
    <3>1. creq[r].fresh => creq[r].best = Best(Direct(creq[r].who), UserRank)
      BY <1>1, <2>1 DEF FreshReadsOf
    <3>2. Direct(creq[r].who) \in SUBSET Roles /\ ViaGroups(creq[r].who) \in SUBSET Roles
      BY DEF Direct, ViaGroups
    <3> QED BY <3>1, <3>2, BestOfTwoReads, HighestIsBest
  <2>5. /\ CacheLocalsOf(q) /\ FreshReadsOf(q)
        /\ PendingOf(q) = PendingOf(creq[r])
    <3> HIDE DEF q, best
    <3> QED BY <2>1, <2>3, <2>4 DEF CacheLocalsOf, FreshReadsOf, PendingOf
  <2> HIDE DEF q
  <2>6. RoleCacheTypeOK'
    BY <1>1, <2>1, <2>3 DEF RoleCacheTypeOK
  <2> QED BY <2>1, <2>5, <2>6, OwnStepKeepsInv
<1>6. ASSUME NEW r \in CacheRequests, WriteCache(r) PROVE CacheInv'
  <2> DEFINE i == creq[r].who
             q == [CacheIdle EXCEPT !.pc = "next", !.todo = creq[r].todo]
  <2>1. /\ creq[r].pc = "write" /\ i \in Accounts
        /\ creq' = [creq EXCEPT ![r] = q]
        /\ UNCHANGED <<holds, carries, joined, deleted>>
        /\ cache' = [cache EXCEPT ![i] = creq[r].best]
        /\ excused' = IF creq[r].fresh THEN excused \ {i} ELSE excused \cup {i}
    BY <1>1, <1>6 DEF WriteCache, CacheMove, CacheAt, CacheLocalsOf
  <2>2. q \in CacheRequestType /\ CacheLocalsOf(q) /\ FreshReadsOf(q) /\ PendingOf(q) = creq[r].todo
    <3>1. creq[r].todo \in SUBSET Accounts
      BY <1>1 DEF CacheRequestType
    <3> QED BY <3>1, NextTyped
  <2>3. creq[r].best \in UserRank..4 /\ (creq[r].fresh => creq[r].best = Highest(i))
    BY <1>1, <2>1 DEF CacheRequestType, FreshReadsOf
  <2> HIDE DEF q, i
  <2>4. RoleCacheTypeOK'
    BY <1>1, <2>1, <2>2, <2>3 DEF RoleCacheTypeOK
  <2>5. \A j \in Accounts : j # i => cache'[j] = cache[j]
    BY <1>1, <2>1 DEF RoleCacheTypeOK
  <2>6. creq[r].fresh => cache'[i] = Highest(i)
    BY <1>1, <2>1, <2>3 DEF RoleCacheTypeOK
  <2>7. \A j \in Accounts :
          cache[j] = Highest(j) \/ j \in excused \/ j \in PendingOf(creq[r]) =>
            cache'[j] = Highest(j) \/ j \in excused' \/ j \in PendingOf(q)
    <3>1. \A j \in Accounts \ {i} : j \in PendingOf(creq[r]) => j \in PendingOf(q)
      BY <2>1, <2>2 DEF PendingOf, i
    <3> QED BY <2>1, <2>5, <2>6, <3>1
  <2> QED BY <2>1, <2>2, <2>4, <2>7, OwnStepKeepsInv
<1>7. ASSUME NEW r \in CacheRequests, CacheFail(r) PROVE CacheInv'
  <2>1. /\ creq' = [creq EXCEPT ![r] = CacheIdle]
        /\ excused' = excused \cup PendingOf(creq[r])
        /\ UNCHANGED <<holds, carries, joined, deleted, cache>>
    BY <1>7, PendingIsOf DEF CacheFail, CacheMove
  <2>2. PendingOf(creq[r]) \subseteq Accounts
    BY <1>1 DEF PendingOf, CacheRequestType, MembersOf, CacheLocalsOf
  <2>3. RoleCacheTypeOK'
    BY <1>1, <2>1, <2>2, CacheIdleTyped DEF RoleCacheTypeOK
  <2> QED BY <2>1, <2>3, CacheIdleTyped, OwnStepKeepsInv
<1>8. ASSUME NEW r \in CacheRequests, NEW x \in Roles, DeleteRoleCheck(r, x) PROVE CacheInv'
  <2> DEFINE q == [CacheIdle EXCEPT !.pc = "delete", !.role = x]
  <2>1. /\ creq' = [creq EXCEPT ![r] = q] /\ CacheAt(r, "idle")
        /\ UNCHANGED <<holds, carries, joined, deleted, cache, excused>>
    BY <1>8 DEF DeleteRoleCheck, CacheMove
  <2>2. q \in CacheRequestType /\ CacheLocalsOf(q) /\ FreshReadsOf(q)
    BY UserRankTyped DEF CacheIdle, CacheRequestType, CacheLocalsOf, FreshReadsOf
  <2>3. PendingOf(creq[r]) = {}
    BY <1>1, <2>1 DEF PendingOf, CacheLocalsOf, CacheAt
  <2> HIDE DEF q
  <2>4. RoleCacheTypeOK'
    BY <1>1, <2>1, <2>2 DEF RoleCacheTypeOK
  <2> QED BY <2>1, <2>2, <2>3, <2>4, OwnStepKeepsInv
<1>9. ASSUME NEW r \in CacheRequests, CacheStart(r) PROVE CacheInv'
  <2>1. ASSUME NEW i \in Accounts, NEW x \in Roles, AssignRole(r, i, x) \/ RemoveRole(r, i, x)
        PROVE  CacheInv'
    BY <2>1, AccountChangeKeepsInv
  <2>2. ASSUME NEW i \in Accounts, NEW g \in Groups, Join(r, i, g) \/ Leave(r, i, g)
        PROVE  CacheInv'
    BY <2>2, AccountChangeKeepsInv
  <2> QED BY <1>8, <1>9, <2>1, <2>2, GroupRoleChangeKeepsInv DEF CacheStart
<1>10. ASSUME NEW r \in CacheRequests, CacheContinue(r) PROVE CacheInv'
  BY <1>2, <1>3, <1>4, <1>5, <1>6, <1>7, <1>10, DeleteRoleKeepsInv DEF CacheContinue
<1> QED
  BY <1>9, <1>10, RuleMembershipKeepsInv, DeleteOrRestoreKeepsInv, EraseGroupKeepsInv
  DEF RoleCacheNext

LEMMA RoleCacheInvHolds == RoleCacheSpec => []CacheInv
<1>1. RoleCacheInit => CacheInv
  <2> SUFFICES ASSUME RoleCacheInit PROVE CacheInv
    OBVIOUS
  <2>1. \A r \in CacheRequests : creq[r] = CacheIdle
    BY DEF RoleCacheInit
  <2>2. RoleCacheTypeOK
    BY CacheIdleTyped DEF RoleCacheInit, RoleCacheTypeOK, UserRank
  <2>3. CacheLocals /\ FreshReads
    BY <2>1, CacheIdleTyped DEF CacheLocals, FreshReads
  <2>4. ASSUME NEW i \in Accounts PROVE cache[i] = Highest(i)
    <3>1. Direct(i) \cup ViaGroups(i) = {}
      BY DEF RoleCacheInit, Direct, ViaGroups
    <3>2. Best({}, UserRank) = UserRank
      <4>1. {} \in SUBSET Roles /\ UserRank \in 0..4 /\ {Rank[x] : x \in {}} = {}
        BY DEF UserRank
      <4> QED BY <4>1, BestIsHighest
    <3> QED BY <3>1, <3>2, HighestIsBest DEF RoleCacheInit
  <2> QED BY <2>2, <2>3, <2>4 DEF CacheInv, CacheFollowsRoles
<1>2. CacheInv /\ [RoleCacheNext]_cacheVars => CacheInv'
  <2>1. ASSUME CacheInv, UNCHANGED cacheVars PROVE CacheInv'
    <3>1. RoleCacheTypeOK' /\ CacheLocals'
      BY <2>1 DEF CacheInv, cacheVars, RoleCacheTypeOK, CacheLocals
    <3>2. FreshReads'
      <4>1. creq' = creq /\ \A i : Highest(i)' = Highest(i) /\ Direct(i)' = Direct(i)
        BY <2>1 DEF cacheVars, Highest, Direct
      <4>2. \A r \in CacheRequests : FreshReadsOf(creq[r])
        BY <2>1 DEF CacheInv, FreshReads
      <4>3. ASSUME NEW r \in CacheRequests PROVE FreshReadsOf(creq[r])'
        BY <4>1, <4>2 DEF FreshReadsOf
      <4> QED BY <4>3 DEF FreshReads
    <3>3. CacheFollowsRoles'
      <4>1. cache' = cache /\ excused' = excused /\ creq' = creq
        BY <2>1 DEF cacheVars
      <4>2. \A i : Highest(i)' = Highest(i)
        BY <2>1 DEF cacheVars, Highest
      <4>3. \A r : Pending(r)' = Pending(r)
        BY <2>1 DEF cacheVars, Pending, MembersOf
      <4> HIDE DEF Highest, Pending
      <4> QED BY <2>1, <4>1, <4>2, <4>3 DEF CacheInv, CacheFollowsRoles
    <3> QED BY <3>1, <3>2, <3>3 DEF CacheInv
  <2> QED BY <2>1, NextKeepsInv
<1> QED BY <1>1, <1>2, PTL DEF RoleCacheSpec

LEMMA CacheTypeCorrect == RoleCacheSpec => []RoleCacheTypeOK
BY RoleCacheInvHolds, PTL DEF CacheInv

(* However assignments, memberships, group roles and their recomputations  *)
(* overlap and fail, the cached role is the highest one held, unless it is *)
(* about to be recomputed or excused.                                      *)
THEOREM CacheFollows == RoleCacheSpec => []CacheFollowsRoles
BY RoleCacheInvHolds, PTL DEF CacheInv

-----------------------------------------------------------------------------
(* Logins: how many logins are at a statement, first.                      *)

AtLabel(label) == {s \in LoginRequests : LoginAt(s, label)}

(* How many logins are at a statement.                                     *)
CountAt(label) == Cardinality(AtLabel(label))

LoginType == [pc : {"idle", "verify", "failure", "lock", "success", "session", "edit"},
              enabled : BOOLEAN, locked : BOOLEAN]

LoginsTyped == LoginsTypeOK /\ failures + CountAt("failure") <= MaxFailures

(* A wrong password that has been verified is counted, or about to be.     *)
WrongCounted == ~missed => wrong <= failures + CountAt("failure")

(* Before the lock, whoever brings the count to the threshold or beyond    *)
(* has still to lock.                                                      *)
BeforeTheLock ==
    ~missed /\ ~locked =>
        wrong < LoginFailureThreshold + CountAt("failure") + CountAt("lock")

(* Locked or not, what is still being verified stays within the bound.     *)
BoundWithVerify ==
    ~missed => wrong + CountAt("verify") < LoginFailureThreshold + Cardinality(LoginRequests)

LoginsInv == LoginsTyped /\ LockedAtThreshold /\ WrongCounted /\ BeforeTheLock /\ BoundWithVerify

-----------------------------------------------------------------------------

LEMMA CountsAreFinite ==
    ASSUME NEW label
    PROVE  /\ IsFiniteSet(AtLabel(label)) /\ CountAt(label) \in Nat
           /\ CountAt(label) <= Cardinality(LoginRequests)
           /\ Cardinality(LoginRequests) \in Nat
<1>1. AtLabel(label) \in SUBSET LoginRequests
  BY DEF AtLabel
<1> QED BY <1>1, LoginRequestsAssumption, FS_Subset, FS_CardinalityType DEF CountAt

(* A request is at one statement: the counts add up to no more than the    *)
(* requests there are.                                                     *)
LEMMA CountsAddUp ==
    CountAt("verify") + CountAt("failure") + CountAt("lock") <= Cardinality(LoginRequests)
<1> DEFINE V == AtLabel("verify")
           F == AtLabel("failure")
           L == AtLabel("lock")
<1>1. V \cap F = {} /\ (V \cup F) \cap L = {} /\ (V \cup F) \cup L \in SUBSET LoginRequests
  BY DEF AtLabel, LoginAt
<1>2. IsFiniteSet(V) /\ IsFiniteSet(F) /\ IsFiniteSet(L)
  BY CountsAreFinite
<1> HIDE DEF V, F, L
<1>3. /\ IsFiniteSet(V \cup F)
      /\ Cardinality(V \cup F) = Cardinality(V) + Cardinality(F) - Cardinality(V \cap F)
  BY <1>2, FS_Union
<1>4. Cardinality((V \cup F) \cup L)
        = Cardinality(V \cup F) + Cardinality(L) - Cardinality((V \cup F) \cap L)
  BY <1>2, <1>3, FS_Union
<1>5. Cardinality((V \cup F) \cup L) <= Cardinality(LoginRequests)
  BY <1>1, LoginRequestsAssumption, FS_Subset
<1>6. /\ Cardinality(V) \in Nat /\ Cardinality(F) \in Nat /\ Cardinality(L) \in Nat
      /\ Cardinality({}) = 0 /\ Cardinality(LoginRequests) \in Nat
  BY <1>2, LoginRequestsAssumption, FS_CardinalityType, FS_EmptySet
<1>7. Cardinality(V) + Cardinality(F) + Cardinality(L) <= Cardinality(LoginRequests)
  BY <1>1, <1>3, <1>4, <1>5, <1>6
<1> QED BY <1>7 DEF CountAt, V, F, L

(* A request that moves from one statement to another takes one from the   *)
(* count of the one and adds one to that of the other.                     *)
LEMMA CountsMove ==
    ASSUME NEW r \in LoginRequests, NEW from, NEW to, from # to,
           lreq[r].pc = from, lreq'[r].pc = to,
           \A s \in LoginRequests \ {r} : lreq'[s] = lreq[s]
    PROVE  /\ CountAt(from)' = CountAt(from) - 1
           /\ CountAt(to)' = CountAt(to) + 1
           /\ \A l : l # from /\ l # to => CountAt(l)' = CountAt(l)
           /\ \A l : CountAt(l)' \in Nat
<1>1. AtLabel(from)' = AtLabel(from) \ {r} /\ r \in AtLabel(from)
  BY DEF AtLabel, LoginAt
<1>2. AtLabel(to)' = AtLabel(to) \cup {r} /\ r \notin AtLabel(to)
  BY DEF AtLabel, LoginAt
<1>3. CountAt(from)' = CountAt(from) - 1
  <2>1. IsFiniteSet(AtLabel(from))
    BY CountsAreFinite
  <2>2. Cardinality(AtLabel(from) \ {r}) = Cardinality(AtLabel(from)) - 1
    BY <1>1, <2>1, FS_RemoveElement
  <2> QED BY <1>1, <2>2 DEF CountAt
<1>4. CountAt(to)' = CountAt(to) + 1
  BY <1>2, CountsAreFinite, FS_AddElement DEF CountAt
<1>5. ASSUME NEW l, l # from, l # to PROVE CountAt(l)' = CountAt(l)
  <2>1. AtLabel(l)' = AtLabel(l)
    BY <1>5 DEF AtLabel, LoginAt
  <2> QED BY <2>1 DEF CountAt
<1>6. ASSUME NEW l PROVE CountAt(l)' \in Nat
  <2>1. CountAt(from) >= 1
    <3>1. Cardinality(AtLabel(from)) # 0
      BY <1>1, CountsAreFinite, FS_EmptySet
    <3> QED BY <3>1, CountsAreFinite DEF CountAt
  <2>2. CountAt(from) \in Nat /\ CountAt(to) \in Nat /\ CountAt(l) \in Nat
    BY CountsAreFinite
  <2> QED BY <1>3, <1>4, <1>5, <2>1, <2>2
<1> QED BY <1>3, <1>4, <1>5, <1>6

LEMMA CountsStay ==
    ASSUME UNCHANGED lreq
    PROVE  \A l : CountAt(l)' = CountAt(l)
BY DEF CountAt, AtLabel, LoginAt

LEMMA LoginMoveTyped ==
    ASSUME lreq \in [LoginRequests -> LoginType], NEW r \in LoginRequests,
           NEW label \in {"idle", "verify", "failure", "lock", "success", "session", "edit"},
           LoginMove(r, label)
    PROVE  /\ lreq' \in [LoginRequests -> LoginType]
           /\ lreq'[r].pc = label
           /\ \A s \in LoginRequests \ {r} : lreq'[s] = lreq[s]
<1>1. lreq[r] \in LoginType
  OBVIOUS
<1>2. [lreq[r] EXCEPT !.pc = label] \in LoginType /\ [lreq[r] EXCEPT !.pc = label].pc = label
  BY <1>1 DEF LoginType
<1>3. lreq' = [lreq EXCEPT ![r] = [lreq[r] EXCEPT !.pc = label]]
  BY DEF LoginMove
<1> QED BY <1>2, <1>3

-----------------------------------------------------------------------------
(* The steps of a login.                                                   *)

LEMMA LoginReadKeepsInv ==
    ASSUME LoginsInv, NEW r \in LoginRequests, LoginRead(r)
    PROVE  LoginsInv'
<1> USE DEF LoginsInv, LoginsTyped, LoginsTypeOK, Flags, History
<1>1. /\ lreq' \in [LoginRequests -> LoginType]
      /\ lreq'[r].pc = "verify" /\ lreq[r].pc = "idle"
      /\ \A s \in LoginRequests \ {r} : lreq'[s] = lreq[s]
  BY LoginMoveTyped DEF LoginRead, LoginAt, LoginType
<1>2. UNCHANGED <<enabled, locked, removed, failures, session, wrong, missed, unlocked>> /\ ~locked
  BY DEF LoginRead
<1>3. /\ CountAt("failure")' = CountAt("failure") /\ CountAt("lock")' = CountAt("lock")
      /\ CountAt("verify")' = CountAt("verify") + 1
  BY <1>1, CountsMove
<1>4. LoginsTyped' /\ WrongCounted' /\ BeforeTheLock'
  BY <1>1, <1>2, <1>3 DEF LoginType, WrongCounted, BeforeTheLock
<1>5. LockedAtThreshold'
  BY <1>1, <1>2 DEF LockedAtThreshold, LoginAt
<1>6. BoundWithVerify'
  <2>1. /\ CountAt("verify")' \in Nat /\ CountAt("failure") \in Nat /\ CountAt("lock") \in Nat
        /\ Cardinality(LoginRequests) \in Nat /\ CountAt("verify") \in Nat
    BY <1>1, <1>3, CountsAreFinite
  <2>2. CountAt("verify")' + CountAt("failure") + CountAt("lock") <= Cardinality(LoginRequests)
    <3>1. (CountAt("verify") + CountAt("failure") + CountAt("lock") <= Cardinality(LoginRequests))'
      BY CountsAddUp, PTL
    <3> QED BY <1>3, <3>1
  <2>3. ~missed => wrong < LoginFailureThreshold + CountAt("failure") + CountAt("lock")
    BY <1>2 DEF BeforeTheLock
  <2> QED BY <1>2, <2>1, <2>2, <2>3, ThresholdAssumption DEF BoundWithVerify
<1> QED BY <1>4, <1>5, <1>6

LEMMA VerifyKeepsInv ==
    ASSUME LoginsInv, NEW r \in LoginRequests, Verify(r)
    PROVE  LoginsInv'
<1> USE DEF LoginsInv, LoginsTyped, LoginsTypeOK, Flags, History
<1>0. /\ UNCHANGED <<enabled, locked, removed, failures, session, missed, unlocked>>
      /\ lreq[r].pc = "verify"
      /\ lreq \in [LoginRequests -> LoginType]
  BY DEF Verify, LoginAt, LoginType
<1>1. PICK label \in {"idle", "success", "failure"} :
        /\ LoginMove(r, label)
        /\ label # "failure" => wrong' = wrong
        /\ label = "failure" => /\ failures + CountAt("failure") < MaxFailures
                                /\ wrong' = IF missed THEN 0 ELSE wrong + 1
  BY DEF Verify, CountAt, AtLabel
<1>2. /\ lreq' \in [LoginRequests -> LoginType]
      /\ lreq'[r].pc = label
      /\ \A s \in LoginRequests \ {r} : lreq'[s] = lreq[s]
  BY <1>0, <1>1, LoginMoveTyped
<1>3. /\ CountAt("verify")' = CountAt("verify") - 1
      /\ CountAt("failure")' = IF label = "failure" THEN CountAt("failure") + 1 ELSE CountAt("failure")
      /\ CountAt("lock")' = CountAt("lock")
  BY <1>0, <1>2, CountsMove
<1>4. LockedAtThreshold'
  BY <1>0, <1>2 DEF LockedAtThreshold, LoginAt
<1>5. /\ CountAt("verify") \in Nat /\ CountAt("failure") \in Nat /\ CountAt("lock") \in Nat
      /\ Cardinality(LoginRequests) \in Nat
  BY CountsAreFinite
<1>6. LoginsTyped'
  BY <1>0, <1>1, <1>2, <1>3, <1>5, MaxFailuresAssumption DEF LoginType
<1>7. WrongCounted' /\ BeforeTheLock' /\ BoundWithVerify'
  BY <1>0, <1>1, <1>3, <1>5, ThresholdAssumption DEF WrongCounted, BeforeTheLock, BoundWithVerify
<1> QED BY <1>4, <1>6, <1>7

LEMMA RecordLoginFailureKeepsInv ==
    ASSUME LoginsInv, NEW r \in LoginRequests, RecordLoginFailure(r)
    PROVE  LoginsInv'
<1> USE DEF LoginsInv, LoginsTyped, LoginsTypeOK, Flags, History
<1>1. /\ lreq' \in [LoginRequests -> LoginType]
      /\ lreq'[r].pc = "lock" /\ lreq[r].pc = "failure"
      /\ \A s \in LoginRequests \ {r} : lreq'[s] = lreq[s]
  BY LoginMoveTyped DEF RecordLoginFailure, LoginAt, LoginType
<1>2. UNCHANGED <<enabled, locked, removed, session, unlocked>>
  BY DEF RecordLoginFailure
<1>3. \/ failures' = failures + 1 /\ UNCHANGED <<missed, wrong>>
      \/ missed' = TRUE /\ wrong' = 0 /\ UNCHANGED failures
  BY DEF RecordLoginFailure, Missed
<1>4. /\ CountAt("failure")' = CountAt("failure") - 1 /\ CountAt("lock")' = CountAt("lock") + 1
      /\ CountAt("verify")' = CountAt("verify")
  BY <1>1, CountsMove
<1>5. /\ CountAt("verify") \in Nat /\ CountAt("failure") \in Nat /\ CountAt("lock") \in Nat
      /\ CountAt("failure")' \in Nat /\ Cardinality(LoginRequests) \in Nat
  BY <1>1, CountsAreFinite, CountsMove
<1>6. LoginsTyped'
  <2>1. failures' \in 0..MaxFailures /\ failures' + CountAt("failure")' <= MaxFailures
    <3>1. failures \in Nat /\ failures + CountAt("failure") <= MaxFailures
      OBVIOUS
    <3>2. failures' \in {failures, failures + 1}
      BY <1>3
    <3> HIDE DEF LoginsInv, LoginsTyped
    <3> QED BY <3>1, <3>2, <1>4, <1>5, MaxFailuresAssumption
  <2>2. wrong' \in Nat
    BY <1>3
  <2>3. {missed'} \subseteq BOOLEAN
    <3>1. {missed} \subseteq BOOLEAN
      OBVIOUS
    <3>2. missed' = missed \/ missed' = TRUE
      BY <1>3
    <3> QED BY <3>1, <3>2
  <2> QED BY <1>1, <1>2, <2>1, <2>2, <2>3 DEF LoginType
<1>7. LockedAtThreshold'
  BY <1>1 DEF LockedAtThreshold, LoginAt
<1>8. WrongCounted' /\ BeforeTheLock' /\ BoundWithVerify'
  BY <1>2, <1>3, <1>4, <1>5, ThresholdAssumption DEF WrongCounted, BeforeTheLock, BoundWithVerify
<1> QED BY <1>6, <1>7, <1>8

LEMMA LockIfExceededKeepsInv ==
    ASSUME LoginsInv, NEW r \in LoginRequests, LockIfExceeded(r)
    PROVE  LoginsInv'
<1> USE DEF LoginsInv, LoginsTyped, LoginsTypeOK, Flags, History
<1>1. /\ lreq' \in [LoginRequests -> LoginType]
      /\ lreq'[r].pc = "idle" /\ lreq[r].pc = "lock"
      /\ \A s \in LoginRequests \ {r} : lreq'[s] = lreq[s]
  BY LoginMoveTyped DEF LockIfExceeded, LoginAt, LoginType
<1>2. UNCHANGED <<enabled, removed, failures, session>>
  BY DEF LockIfExceeded
<1>3. /\ CountAt("failure")' = CountAt("failure") /\ CountAt("lock")' = CountAt("lock") - 1
      /\ CountAt("verify")' = CountAt("verify")
  BY <1>1, CountsMove
<1>4. /\ CountAt("verify") \in Nat /\ CountAt("failure") \in Nat /\ CountAt("lock")' \in Nat
      /\ Cardinality(LoginRequests) \in Nat
  BY <1>1, CountsAreFinite, CountsMove
<1>5. CASE /\ locked' = (locked \/ Exceeded)
           /\ unlocked' = (unlocked /\ ~Exceeded)
           /\ UNCHANGED <<missed, wrong>>
  <2>1. LoginsTyped'
    BY <1>1, <1>2, <1>3, <1>5 DEF LoginType
  <2>2. LockedAtThreshold'
    BY <1>2, <1>5 DEF LockedAtThreshold, Exceeded
  <2>3. WrongCounted' /\ BoundWithVerify'
    BY <1>2, <1>3, <1>5 DEF WrongCounted, BoundWithVerify
  <2>4. BeforeTheLock'
    <3>1. ASSUME ~missed, ~Exceeded
          PROVE  wrong < LoginFailureThreshold + CountAt("failure") + CountAt("lock")'
      BY <1>4, <3>1, ThresholdAssumption DEF WrongCounted, Exceeded
    <3>2. ~missed' /\ ~locked' => ~missed /\ ~Exceeded
      BY <1>5
    <3>3. wrong' = wrong
      BY <1>5
    <3> QED BY <1>3, <3>1, <3>2, <3>3 DEF BeforeTheLock
  <2> QED BY <2>1, <2>2, <2>3, <2>4
<1>6. CASE missed' = TRUE /\ wrong' = 0 /\ unlocked' = TRUE /\ UNCHANGED locked
  <2>1. LoginsTyped'
    BY <1>1, <1>2, <1>3, <1>6 DEF LoginType
  <2> QED BY <1>6, <2>1 DEF LockedAtThreshold, WrongCounted, BeforeTheLock, BoundWithVerify
<1> QED BY <1>5, <1>6 DEF LockIfExceeded, Missed

LEMMA RecordLoginSuccessKeepsInv ==
    ASSUME LoginsInv, NEW r \in LoginRequests, RecordLoginSuccess(r)
    PROVE  LoginsInv'
<1> USE DEF LoginsInv, LoginsTyped, LoginsTypeOK, Flags, History
<1>1. /\ lreq' \in [LoginRequests -> LoginType]
      /\ lreq'[r].pc = "session" /\ lreq[r].pc = "success"
      /\ \A s \in LoginRequests \ {r} : lreq'[s] = lreq[s]
  BY LoginMoveTyped DEF RecordLoginSuccess, LoginAt, LoginType
<1>2. UNCHANGED <<enabled, locked, removed, session>>
  BY DEF RecordLoginSuccess
<1>3. /\ CountAt("failure")' = CountAt("failure") /\ CountAt("lock")' = CountAt("lock")
      /\ CountAt("verify")' = CountAt("verify")
  BY <1>1, CountsMove
<1>4. /\ CountAt("verify") \in Nat /\ CountAt("failure") \in Nat /\ CountAt("lock") \in Nat
      /\ Cardinality(LoginRequests) \in Nat
      /\ CountAt("verify") + CountAt("failure") + CountAt("lock") <= Cardinality(LoginRequests)
  BY CountsAreFinite, CountsAddUp
<1>5. CASE failures' = 0 /\ wrong' = 0 /\ missed' = FALSE /\ unlocked' = FALSE
  <2>1. LoginsTyped'
    <3>1. failures' \in 0..MaxFailures /\ failures' + CountAt("failure")' <= MaxFailures
      BY <1>3, <1>4, <1>5, MaxFailuresAssumption
    <3>2. wrong' \in Nat /\ {missed', unlocked'} \subseteq BOOLEAN
      BY <1>5
    <3> QED BY <1>1, <1>2, <3>1, <3>2 DEF LoginType
  <2>2. LockedAtThreshold'
    BY <1>5, ThresholdAssumption DEF LockedAtThreshold
  <2>3. WrongCounted' /\ BeforeTheLock' /\ BoundWithVerify'
    BY <1>3, <1>4, <1>5, ThresholdAssumption DEF WrongCounted, BeforeTheLock, BoundWithVerify
  <2> QED BY <2>1, <2>2, <2>3
<1>6. CASE UNCHANGED <<failures, wrong, missed, unlocked>>
  <2>1. LockedAtThreshold'
    BY <1>1, <1>2, <1>6 DEF LockedAtThreshold, LoginAt
  <2> QED BY <1>1, <1>2, <1>3, <1>6, <2>1
          DEF LoginType, WrongCounted, BeforeTheLock, BoundWithVerify
<1> QED BY <1>5, <1>6 DEF RecordLoginSuccess

LEMMA CreateSessionKeepsInv ==
    ASSUME LoginsInv, NEW r \in LoginRequests, NEW t \in Tokens, CreateSession(r, t)
    PROVE  LoginsInv'
<1> USE DEF LoginsInv, LoginsTyped, LoginsTypeOK, Flags, History
<1>1. /\ lreq' \in [LoginRequests -> LoginType]
      /\ lreq'[r].pc = "idle" /\ lreq[r].pc = "session"
      /\ \A s \in LoginRequests \ {r} : lreq'[s] = lreq[s]
  BY LoginMoveTyped DEF CreateSession, LoginAt, LoginType
<1>2. /\ UNCHANGED <<enabled, locked, removed, failures, wrong, missed, unlocked>>
      /\ session' \in [Tokens -> {"none", "active", "ended"}]
  BY DEF CreateSession
<1>3. /\ CountAt("failure")' = CountAt("failure") /\ CountAt("lock")' = CountAt("lock")
      /\ CountAt("verify")' = CountAt("verify")
  BY <1>1, CountsMove
<1>4. LockedAtThreshold'
  BY <1>1, <1>2 DEF LockedAtThreshold, LoginAt
<1> QED BY <1>1, <1>2, <1>3, <1>4
        DEF LoginType, WrongCounted, BeforeTheLock, BoundWithVerify

LEMMA EndSessionKeepsInv ==
    ASSUME LoginsInv, NEW t \in Tokens, EndSession(t)
    PROVE  LoginsInv'
<1> USE DEF LoginsInv, LoginsTyped, LoginsTypeOK, Flags, History
<1>1. /\ UNCHANGED <<enabled, locked, removed, failures, lreq, wrong, missed, unlocked>>
      /\ session' \in [Tokens -> {"none", "active", "ended"}]
  BY DEF EndSession
<1>2. \A l : CountAt(l)' = CountAt(l)
  BY <1>1, CountsStay
<1> QED BY <1>1, <1>2
        DEF LockedAtThreshold, LoginAt, WrongCounted, BeforeTheLock, BoundWithVerify

LEMMA RemoveOrRestoreKeepsInv ==
    ASSUME LoginsInv, RemoveOrRestore
    PROVE  LoginsInv'
<1> USE DEF LoginsInv, LoginsTyped, LoginsTypeOK, Flags, History
<1>1. /\ UNCHANGED <<enabled, locked, failures, session, lreq, wrong, missed, unlocked>>
      /\ {removed'} \subseteq BOOLEAN
  BY DEF RemoveOrRestore
<1>2. \A l : CountAt(l)' = CountAt(l)
  BY <1>1, CountsStay
<1> QED BY <1>1, <1>2
        DEF LockedAtThreshold, LoginAt, WrongCounted, BeforeTheLock, BoundWithVerify

LEMMA EditReadKeepsInv ==
    ASSUME LoginsInv, NEW r \in LoginRequests, NEW e \in BOOLEAN, NEW l \in BOOLEAN,
           EditRead(r, e, l)
    PROVE  LoginsInv'
<1> USE DEF LoginsInv, LoginsTyped, LoginsTypeOK, Flags, History
<1>1. /\ lreq' = [lreq EXCEPT ![r] = [pc |-> "edit", enabled |-> e, locked |-> l]]
      /\ [pc |-> "edit", enabled |-> e, locked |-> l] \in LoginType
      /\ lreq \in [LoginRequests -> LoginType]
      /\ lreq[r].pc = "idle"
  BY DEF EditRead, LoginAt, LoginType
<1>2. /\ lreq' \in [LoginRequests -> LoginType]
      /\ lreq'[r].pc = "edit"
      /\ \A s \in LoginRequests \ {r} : lreq'[s] = lreq[s]
  BY <1>1
<1>3. UNCHANGED <<enabled, locked, removed, failures, session, wrong, missed, unlocked>>
  BY DEF EditRead
<1>4. /\ CountAt("failure")' = CountAt("failure") /\ CountAt("lock")' = CountAt("lock")
      /\ CountAt("verify")' = CountAt("verify")
  BY <1>1, <1>2, CountsMove
<1>5. LockedAtThreshold'
  BY <1>1, <1>2, <1>3 DEF LockedAtThreshold, LoginAt
<1> QED BY <1>2, <1>3, <1>4, <1>5
        DEF LoginType, WrongCounted, BeforeTheLock, BoundWithVerify

LEMMA EditWriteKeepsInv ==
    ASSUME LoginsInv, NEW r \in LoginRequests, EditWrite(r)
    PROVE  LoginsInv'
<1> USE DEF LoginsInv, LoginsTyped, LoginsTypeOK, Flags, History
<1> DEFINE unlocks == locked /\ ~lreq[r].locked
<1>1. /\ lreq \in [LoginRequests -> LoginType] /\ lreq[r].pc = "edit"
      /\ lreq' = [lreq EXCEPT ![r] = LoginIdle]
      /\ LoginIdle \in LoginType /\ LoginIdle.pc = "idle"
  BY DEF EditWrite, LoginAt, LoginType, LoginIdle
<1>2. /\ lreq' \in [LoginRequests -> LoginType]
      /\ lreq'[r].pc = "idle"
      /\ \A s \in LoginRequests \ {r} : lreq'[s] = lreq[s]
  BY <1>1
<1>3. /\ UNCHANGED <<removed, failures, session>>
      /\ lreq[r].enabled \in BOOLEAN /\ lreq[r].locked \in BOOLEAN
  BY <1>1 DEF EditWrite, LoginType
<1>4. /\ CountAt("failure")' = CountAt("failure") /\ CountAt("lock")' = CountAt("lock")
      /\ CountAt("verify")' = CountAt("verify")
  BY <1>1, <1>2, CountsMove
<1>5. /\ enabled' = lreq[r].enabled /\ locked' = lreq[r].locked
      /\ unlocked' = (unlocked \/ unlocks)
      /\ missed' = (missed /\ ~unlocks)
      /\ wrong' = IF unlocks THEN 0 ELSE wrong
  BY DEF EditWrite
<1>6. LoginsTyped'
  <2>1. {enabled', locked', missed', unlocked'} \subseteq BOOLEAN /\ wrong' \in Nat
    BY <1>3, <1>5
  <2> QED BY <1>2, <1>3, <1>4, <2>1 DEF LoginType
<1>7. LockedAtThreshold'
  BY <1>1, <1>2, <1>3, <1>5 DEF LockedAtThreshold, LoginAt
<1>8. /\ CountAt("verify") \in Nat /\ CountAt("failure") \in Nat /\ CountAt("lock") \in Nat
      /\ Cardinality(LoginRequests) \in Nat
      /\ CountAt("verify") + CountAt("failure") + CountAt("lock") <= Cardinality(LoginRequests)
  BY CountsAreFinite, CountsAddUp
<1>9. CASE unlocks
  BY <1>3, <1>4, <1>5, <1>6, <1>7, <1>8, <1>9, ThresholdAssumption
     DEF WrongCounted, BeforeTheLock, BoundWithVerify
<1>10. CASE ~unlocks
  <2>1. wrong' = wrong /\ failures' = failures
    BY <1>3, <1>5, <1>10
  <2>2. (missed' <=> missed) /\ (~locked' => ~locked)
    BY <1>5, <1>10
  <2> QED BY <1>4, <1>6, <1>7, <2>1, <2>2 DEF WrongCounted, BeforeTheLock, BoundWithVerify
<1> QED BY <1>9, <1>10

LEMMA LoginFailKeepsInv ==
    ASSUME LoginsInv, NEW r \in LoginRequests, LoginFail(r)
    PROVE  LoginsInv'
<1> USE DEF LoginsInv, LoginsTyped, LoginsTypeOK, Flags, History
<1>1. /\ lreq \in [LoginRequests -> LoginType] /\ lreq[r].pc # "idle"
      /\ lreq' = [lreq EXCEPT ![r] = LoginIdle]
      /\ LoginIdle \in LoginType /\ LoginIdle.pc = "idle"
  BY DEF LoginFail, LoginAt, LoginType, LoginIdle
<1>2. /\ lreq' \in [LoginRequests -> LoginType]
      /\ lreq'[r].pc = "idle"
      /\ \A s \in LoginRequests \ {r} : lreq'[s] = lreq[s]
  BY <1>1
<1>3. /\ UNCHANGED <<enabled, locked, removed, failures, session>>
      /\ missed' = TRUE /\ wrong' = 0
      /\ unlocked' = (unlocked \/ LoginAt(r, "lock"))
  BY DEF LoginFail, Missed
<1>4. CountAt("failure")' <= CountAt("failure") /\ CountAt("failure")' \in Nat
  BY <1>1, <1>2, CountsMove, CountsAreFinite
<1>5. LoginsTyped'
  <2>1. failures' \in 0..MaxFailures /\ failures' + CountAt("failure")' <= MaxFailures
    BY <1>3, <1>4, CountsAreFinite, MaxFailuresAssumption
  <2>2. {missed', unlocked'} \subseteq BOOLEAN /\ wrong' \in Nat
    BY <1>3
  <2> QED BY <1>2, <1>3, <2>1, <2>2 DEF LoginType
<1>6. LockedAtThreshold'
  BY <1>1, <1>2, <1>3 DEF LockedAtThreshold, LoginAt
<1> QED BY <1>3, <1>5, <1>6 DEF WrongCounted, BeforeTheLock, BoundWithVerify

-----------------------------------------------------------------------------

LEMMA LoginsInitInv == LoginsInit => LoginsInv
<1> SUFFICES ASSUME LoginsInit PROVE LoginsInv
  OBVIOUS
<1> USE DEF LoginsInit
<1>1. CountAt("failure") = 0
  <2>1. AtLabel("failure") = {}
    BY DEF AtLabel, LoginAt, LoginIdle
  <2> QED BY <2>1, FS_EmptySet DEF CountAt
<1>2. /\ CountAt("verify") \in Nat /\ CountAt("lock") \in Nat
      /\ Cardinality(LoginRequests) \in Nat /\ CountAt("verify") <= Cardinality(LoginRequests)
  BY CountsAreFinite
<1>3. LoginsTyped
  <2>1. failures \in 0..MaxFailures /\ failures + CountAt("failure") <= MaxFailures
    BY <1>1, MaxFailuresAssumption
  <2>2. lreq \in [LoginRequests -> LoginType]
    BY DEF LoginIdle, LoginType
  <2> QED BY <2>1, <2>2 DEF LoginsTyped, LoginsTypeOK, LoginType
<1> QED BY <1>1, <1>2, <1>3, ThresholdAssumption
        DEF LoginsInv, LockedAtThreshold, WrongCounted, BeforeTheLock, BoundWithVerify

LEMMA LoginsNextKeepsInv == LoginsInv /\ [LoginsNext]_loginVars => LoginsInv'
<1> SUFFICES ASSUME LoginsInv, [LoginsNext]_loginVars PROVE LoginsInv'
  OBVIOUS
<1>1. ASSUME NEW r \in LoginRequests, LoginStep(r) PROVE LoginsInv'
  BY <1>1, LoginReadKeepsInv, VerifyKeepsInv, RecordLoginFailureKeepsInv,
     LockIfExceededKeepsInv, RecordLoginSuccessKeepsInv, CreateSessionKeepsInv,
     EditReadKeepsInv, EditWriteKeepsInv, LoginFailKeepsInv
     DEF LoginStep
<1>2. CASE UNCHANGED loginVars
  <2>1. UNCHANGED <<enabled, locked, removed, failures, session, lreq, wrong, missed, unlocked>>
    BY <1>2 DEF loginVars
  <2>2. \A l : CountAt(l)' = CountAt(l)
    BY <2>1, CountsStay
  <2> QED BY <2>1, <2>2
          DEF LoginsInv, LoginsTyped, LoginsTypeOK, LockedAtThreshold, LoginAt, WrongCounted,
              BeforeTheLock, BoundWithVerify
<1> QED BY <1>1, <1>2, EndSessionKeepsInv, RemoveOrRestoreKeepsInv DEF LoginsNext

LEMMA LoginsInvHolds == LoginsSpec => []LoginsInv
BY LoginsInitInv, LoginsNextKeepsInv, PTL DEF LoginsSpec

LEMMA LoginsTypeCorrect == LoginsSpec => []LoginsTypeOK
BY LoginsInvHolds, PTL DEF LoginsInv, LoginsTyped

(* The lockout of LoginSubmit: with the threshold of failures counted the  *)
(* account is locked, and overlapping logins try no more wrong passwords   *)
(* than the threshold and one for each of them.                            *)
THEOREM LockoutBounds == LoginsSpec => []LockoutHolds
<1>1. LoginsInv => LockoutHolds
  <2> SUFFICES ASSUME LoginsInv PROVE LockoutHolds
    OBVIOUS
  <2>1. ~missed => wrong < LoginFailureThreshold + Cardinality(LoginRequests)
    BY CountsAreFinite, ThresholdAssumption
       DEF LoginsInv, LoginsTyped, LoginsTypeOK, BoundWithVerify
  <2> QED BY <2>1 DEF LoginsInv, LockoutHolds, GuessesBounded
<1> QED BY <1>1, LoginsInvHolds, PTL

-----------------------------------------------------------------------------
(* RoleMatrix.                                                             *)

(* The tables as arguments.                                                *)
Uplinks == [MatrixRoles -> MatrixRoles \cup {NoRole}]

ClosedIn(ab, S) == \A y \in S : ab[y] \in S \cup {NoRole}

ChainIn(ab, x) ==
    {y \in MatrixRoles : \A S \in SUBSET MatrixRoles : x \in S /\ ClosedIn(ab, S) => y \in S}

AboveIn(ab, x) == IF ab[x] = NoRole THEN {} ELSE ChainIn(ab, ab[x])

WalkedIn(ab, x) ==
    {y \in ChainIn(ab, x) : Cardinality(ChainIn(ab, x) \ ChainIn(ab, y)) < MaxRoleDepth}

ShortIn(ab, x) == Cardinality(ChainIn(ab, x)) <= MaxRoleDepth

HoldersIn(st, W, k) == {y \in W : st[y][k] # ""}

NearestIn(st, ab, W, k) ==
    {y \in HoldersIn(st, W, k) : HoldersIn(st, W, k) \subseteq ChainIn(ab, y)}

AnyOf(S) == CHOOSE y \in S : TRUE

(* What the rows W of a chain give.                                        *)
RowsGive(st, ab, W) ==
    [k \in Keys |-> IF NearestIn(st, ab, W, k) = {} THEN ""
                    ELSE st[AnyOf(NearestIn(st, ab, W, k))][k]]

(* The resolution of a role without a bound on the rows, and as it is.     *)
ResolvedIn(st, ab, x) == RowsGive(st, ab, ChainIn(ab, x))

ReadIn(st, ab, x) == RowsGive(st, ab, WalkedIn(ab, x))

(* No role is above itself.                                                *)
ForestIn(ab) == \A x \in MatrixRoles : x \notin AboveIn(ab, x)

(* The highest of the values some matrices have for the managing key lets  *)
(* manage: ActorGrants for each matrix.                                    *)
GrantsIn(st, ab) == UnionOf({ReadIn(st, ab, x) : x \in HeldRoles})

OthersIn(st, ab, x) == {ReadIn(st, ab, y) : y \in HeldRoles \ {x}}

LEMMA TablesRead ==
    /\ \A x : Ancestors(x) = AboveIn(above, x) /\ Resolved(x) = ReadIn(stored, above, x)
    /\ \A x : WithinDepth(x) <=> ShortIn(above, x)
    /\ \A x : Resolved(x)' = ReadIn(stored', above', x)
    /\ ActorGrants = GrantsIn(stored, above) /\ ActorGrants' = GrantsIn(stored', above')
    /\ \A x, m : LocksOut(x, m) <=>
         x \in HeldRoles /\ ~Can(UnionOf({m} \cup OthersIn(stored, above, x)), ManageKey)
<1>1. \A x : Chain(x) = ChainIn(above, x) /\ Chain(x)' = ChainIn(above', x)
  BY DEF Chain, ChainIn, UpwardClosed, ClosedIn
<1>2. \A x : Ancestors(x) = AboveIn(above, x) /\ (WithinDepth(x) <=> ShortIn(above, x))
  BY <1>1 DEF Ancestors, AboveIn, WithinDepth, ShortIn
<1>3. \A x : Resolved(x) = ReadIn(stored, above, x)
  <2> SUFFICES ASSUME NEW x PROVE Resolved(x) = ReadIn(stored, above, x)
    OBVIOUS
  <2> DEFINE W == WalkedIn(above, x)
  <2>1. Walked(x) = W
    BY <1>1 DEF Walked, WalkedIn
  <2>2. \A k : Nearest(x, k) = NearestIn(stored, above, W, k)
    BY <1>1, <2>1 DEF Nearest, HoldersIn, NearestIn
  <2>3. Resolved(x) = [k \in Keys |-> IF Nearest(x, k) = {} THEN ""
                                      ELSE stored[AnyOf(Nearest(x, k))][k]]
    BY DEF Resolved, AnyOf
  <2> QED BY <2>2, <2>3 DEF ReadIn, RowsGive
<1>4. \A x : Resolved(x)' = ReadIn(stored', above', x)
  <2> SUFFICES ASSUME NEW x PROVE Resolved(x)' = ReadIn(stored', above', x)
    OBVIOUS
  <2> DEFINE W == WalkedIn(above', x)
  <2>1. Walked(x)' = W
    BY <1>1 DEF Walked, WalkedIn
  <2>2. \A k : Nearest(x, k)' = NearestIn(stored', above', W, k)
    BY <1>1, <2>1 DEF Nearest, HoldersIn, NearestIn
  <2>3. Resolved(x)' = [k \in Keys |-> IF Nearest(x, k)' = {} THEN ""
                                      ELSE stored'[AnyOf(Nearest(x, k)')][k]]
    BY DEF Resolved, AnyOf
  <2> QED BY <2>2, <2>3 DEF ReadIn, RowsGive
<1>5. ActorGrants = GrantsIn(stored, above) /\ ActorGrants' = GrantsIn(stored', above')
  BY <1>3, <1>4 DEF ActorGrants, GrantsIn
<1>6. \A x, m : LocksOut(x, m) <=>
         x \in HeldRoles /\ ~Can(UnionOf({m} \cup OthersIn(stored, above, x)), ManageKey)
  BY <1>3 DEF LocksOut, OthersIn
<1> QED BY <1>2, <1>3, <1>4, <1>5, <1>6

-----------------------------------------------------------------------------
(* Chains.                                                                 *)

LEMMA ChainCloses ==
    ASSUME NEW ab \in Uplinks, NEW x \in MatrixRoles
    PROVE  /\ x \in ChainIn(ab, x) /\ ChainIn(ab, x) \subseteq MatrixRoles
           /\ ClosedIn(ab, ChainIn(ab, x))
           /\ \A S \in SUBSET MatrixRoles : x \in S /\ ClosedIn(ab, S) => ChainIn(ab, x) \subseteq S
           /\ \A y \in ChainIn(ab, x) : ChainIn(ab, y) \subseteq ChainIn(ab, x)
<1>1. x \in ChainIn(ab, x) /\ ChainIn(ab, x) \subseteq MatrixRoles
  BY DEF ChainIn
<1>2. ClosedIn(ab, ChainIn(ab, x))
  BY DEF ChainIn, ClosedIn, Uplinks
<1>3. \A S \in SUBSET MatrixRoles : x \in S /\ ClosedIn(ab, S) => ChainIn(ab, x) \subseteq S
  BY DEF ChainIn
<1>4. \A y \in ChainIn(ab, x) : ChainIn(ab, y) \subseteq ChainIn(ab, x)
  BY <1>1, <1>2 DEF ChainIn
<1> QED BY <1>1, <1>2, <1>3, <1>4

(* A chain is its lowest role and what is above it.                        *)
LEMMA ChainUnfolds ==
    ASSUME NEW ab \in Uplinks, NEW x \in MatrixRoles
    PROVE  ChainIn(ab, x) = {x} \cup AboveIn(ab, x)
<1>1. CASE ab[x] = NoRole
  <2>1. ClosedIn(ab, {x})
    BY <1>1 DEF ClosedIn
  <2> QED BY <1>1, <2>1, ChainCloses DEF AboveIn
<1>2. CASE ab[x] # NoRole
  <2> DEFINE p == ab[x]
  <2>1. p \in MatrixRoles
    BY <1>2 DEF Uplinks
  <2>2. p \in ChainIn(ab, p) /\ ClosedIn(ab, ChainIn(ab, p)) /\ ChainIn(ab, p) \subseteq MatrixRoles
    BY <2>1, ChainCloses
  <2>3. ClosedIn(ab, {x} \cup ChainIn(ab, p))
    BY <2>2 DEF ClosedIn
  <2>4. ChainIn(ab, x) \subseteq {x} \cup ChainIn(ab, p)
    BY <2>2, <2>3, ChainCloses
  <2>5. p \in ChainIn(ab, x)
    BY <1>2, ChainCloses DEF ClosedIn
  <2>6. ChainIn(ab, p) \subseteq ChainIn(ab, x)
    BY <2>5, ChainCloses
  <2> QED BY <1>2, <2>4, <2>6, ChainCloses DEF AboveIn
<1> QED BY <1>1, <1>2

(* In a forest two roles are not above each other.                         *)
LEMMA ChainsAreOrdered ==
    ASSUME NEW ab \in Uplinks, ForestIn(ab), NEW x \in MatrixRoles, NEW y \in MatrixRoles,
           y \in ChainIn(ab, x), x \in ChainIn(ab, y)
    PROVE  x = y
<1> SUFFICES ASSUME x # y PROVE FALSE
  OBVIOUS
<1>1. y \in AboveIn(ab, x)
  BY ChainUnfolds
<1>2. ab[x] \in MatrixRoles /\ y \in ChainIn(ab, ab[x])
  BY <1>1 DEF AboveIn, Uplinks
<1>3. ChainIn(ab, y) \subseteq ChainIn(ab, ab[x])
  BY <1>2, ChainCloses
<1> QED BY <1>2, <1>3, NoRoleAssumption DEF ForestIn, AboveIn

(* Where the roles of a chain keep their parents, the chain stays.         *)
LEMMA ChainStays ==
    ASSUME NEW ab \in Uplinks, NEW bb \in Uplinks, NEW x \in MatrixRoles,
           \A y \in ChainIn(ab, x) : bb[y] = ab[y]
    PROVE  ChainIn(bb, x) = ChainIn(ab, x)
<1>1. /\ x \in ChainIn(ab, x) /\ ChainIn(ab, x) \subseteq MatrixRoles /\ ClosedIn(ab, ChainIn(ab, x))
      /\ x \in ChainIn(bb, x) /\ ChainIn(bb, x) \subseteq MatrixRoles /\ ClosedIn(bb, ChainIn(bb, x))
  BY ChainCloses
<1>2. ClosedIn(bb, ChainIn(ab, x))
  BY <1>1 DEF ClosedIn
<1>3. ChainIn(bb, x) \subseteq ChainIn(ab, x)
  BY <1>1, <1>2, ChainCloses
<1>4. ClosedIn(ab, ChainIn(bb, x))
  BY <1>1, <1>3 DEF ClosedIn
<1> QED BY <1>1, <1>3, <1>4, ChainCloses

(* And so does what rows of it give, where the chain keeps its rows.       *)
LEMMA RowsStay ==
    ASSUME NEW st, NEW su, NEW ab \in Uplinks, NEW bb \in Uplinks, NEW x \in MatrixRoles,
           NEW W \in SUBSET ChainIn(ab, x),
           \A y \in ChainIn(ab, x) : bb[y] = ab[y] /\ su[y] = st[y]
    PROVE  RowsGive(su, bb, W) = RowsGive(st, ab, W)
<1>1. \A y \in ChainIn(ab, x) : ChainIn(bb, y) = ChainIn(ab, y)
  <2> SUFFICES ASSUME NEW y \in ChainIn(ab, x) PROVE ChainIn(bb, y) = ChainIn(ab, y)
    OBVIOUS
  <2>1. y \in MatrixRoles /\ ChainIn(ab, y) \subseteq ChainIn(ab, x)
    BY ChainCloses
  <2> QED BY <2>1, ChainStays
<1>2. ASSUME NEW k \in Keys
      PROVE  /\ NearestIn(su, bb, W, k) = NearestIn(st, ab, W, k)
             /\ \A y \in NearestIn(st, ab, W, k) : su[y] = st[y]
  <2>1. HoldersIn(su, W, k) = HoldersIn(st, W, k)
    BY DEF HoldersIn
  <2>2. HoldersIn(st, W, k) \subseteq ChainIn(ab, x)
    BY DEF HoldersIn
  <2> QED BY <1>1, <2>1, <2>2 DEF NearestIn
<1>3. \A S : S # {} => AnyOf(S) \in S
  BY DEF AnyOf
<1> QED BY <1>2, <1>3 DEF RowsGive

LEMMA ResolvedStays ==
    ASSUME NEW st, NEW su, NEW ab \in Uplinks, NEW bb \in Uplinks, NEW x \in MatrixRoles,
           \A y \in ChainIn(ab, x) : bb[y] = ab[y] /\ su[y] = st[y]
    PROVE  /\ ResolvedIn(su, bb, x) = ResolvedIn(st, ab, x)
           /\ ReadIn(su, bb, x) = ReadIn(st, ab, x)
<1>1. ChainIn(bb, x) = ChainIn(ab, x)
  BY ChainStays
<1>2. \A y \in ChainIn(ab, x) : ChainIn(bb, y) = ChainIn(ab, y)
  <2> SUFFICES ASSUME NEW y \in ChainIn(ab, x) PROVE ChainIn(bb, y) = ChainIn(ab, y)
    OBVIOUS
  <2>1. y \in MatrixRoles /\ ChainIn(ab, y) \subseteq ChainIn(ab, x)
    BY ChainCloses
  <2> QED BY <2>1, ChainStays
<1>3. WalkedIn(bb, x) = WalkedIn(ab, x) /\ WalkedIn(ab, x) \in SUBSET ChainIn(ab, x)
  BY <1>1, <1>2 DEF WalkedIn
<1> QED BY <1>1, <1>3, RowsStay DEF ResolvedIn, ReadIn

(* In a chain that is not too deep no row is left unread.                  *)
LEMMA ShortIsRead ==
    ASSUME NEW st, NEW ab \in Uplinks, NEW x \in MatrixRoles, ShortIn(ab, x)
    PROVE  ReadIn(st, ab, x) = ResolvedIn(st, ab, x)
<1> DEFINE all == ChainIn(ab, x)
<1>1. IsFiniteSet(all) /\ Cardinality(all) \in Nat /\ all \subseteq MatrixRoles
  BY ChainCloses, DepthAssumption, FS_Subset, FS_CardinalityType
<1>2. ASSUME NEW y \in all PROVE Cardinality(all \ ChainIn(ab, y)) < MaxRoleDepth
  <2>1. y \in ChainIn(ab, y)
    BY <1>1, ChainCloses
  <2>2. all \ ChainIn(ab, y) \subseteq all /\ all \ ChainIn(ab, y) # all
    BY <2>1
  <2>3. Cardinality(all \ ChainIn(ab, y)) < Cardinality(all)
        /\ Cardinality(all \ ChainIn(ab, y)) \in Nat
    BY <1>1, <2>2, FS_Subset, FS_CardinalityType
  <2> QED BY <1>1, <2>3, DepthAssumption DEF ShortIn
<1>3. WalkedIn(ab, x) = all
  BY <1>2 DEF WalkedIn
<1> QED BY <1>3 DEF ReadIn, ResolvedIn

LEMMA ChainCounts ==
    ASSUME NEW ab \in Uplinks, NEW x \in MatrixRoles
    PROVE  Cardinality(ChainIn(ab, x)) \in Nat
BY ChainCloses, DepthAssumption, FS_Subset, FS_CardinalityType

(* One row up the chain is shorter by one.                                 *)
LEMMA ChainShortens ==
    ASSUME NEW ab \in Uplinks, ForestIn(ab), NEW x \in MatrixRoles, ab[x] # NoRole
    PROVE  /\ Cardinality(ChainIn(ab, x)) = Cardinality(ChainIn(ab, ab[x])) + 1
           /\ Cardinality(ChainIn(ab, ab[x])) \in Nat
<1>1. ab[x] \in MatrixRoles
  BY DEF Uplinks
<1>2. IsFiniteSet(ChainIn(ab, ab[x]))
  BY <1>1, ChainCloses, DepthAssumption, FS_Subset
<1>3. ChainIn(ab, x) = ChainIn(ab, ab[x]) \cup {x} /\ x \notin ChainIn(ab, ab[x])
  BY ChainUnfolds DEF AboveIn, ForestIn
<1> QED BY <1>2, <1>3, FS_AddElement, FS_CardinalityType

(* A role's own opinions win over what is resolved above it.               *)
LEMMA ResolvedUnfolds ==
    ASSUME NEW st \in [MatrixRoles -> Matrices], NEW ab \in Uplinks, ForestIn(ab),
           NEW x \in MatrixRoles
    PROVE  ResolvedIn(st, ab, x) =
             IF ab[x] = NoRole THEN st[x] ELSE Over(st[x], ResolvedIn(st, ab, ab[x]))
<1> DEFINE above1 == IF ab[x] = NoRole THEN st[x] ELSE Over(st[x], ResolvedIn(st, ab, ab[x]))
<1>1. ChainIn(ab, x) = {x} \cup AboveIn(ab, x) /\ x \notin AboveIn(ab, x)
  BY ChainUnfolds DEF ForestIn
<1>2. ASSUME NEW k \in Keys PROVE ResolvedIn(st, ab, x)[k] = above1[k]
  <2>1. CASE st[x][k] # ""
    <3>1. x \in NearestIn(st, ab, ChainIn(ab, x), k)
      BY <1>1, <2>1 DEF NearestIn, HoldersIn
    <3>2. \A y \in NearestIn(st, ab, ChainIn(ab, x), k) : y = x
      <4> SUFFICES ASSUME NEW y \in NearestIn(st, ab, ChainIn(ab, x), k) PROVE y = x
        OBVIOUS
      <4>1. y \in ChainIn(ab, x) /\ x \in ChainIn(ab, y)
        BY <3>1 DEF NearestIn, HoldersIn
      <4>2. y \in MatrixRoles
        BY <4>1 DEF ChainIn
      <4> QED BY <4>1, <4>2, ChainsAreOrdered
    <3>3. AnyOf(NearestIn(st, ab, ChainIn(ab, x), k)) = x
      BY <3>1, <3>2 DEF AnyOf
    <3> QED BY <2>1, <3>1, <3>3 DEF ResolvedIn, RowsGive, Over
  <2>2. CASE st[x][k] = "" /\ ab[x] = NoRole
    <3>1. HoldersIn(st, ChainIn(ab, x), k) = {}
      BY <1>1, <2>2 DEF HoldersIn, AboveIn
    <3> QED BY <2>2, <3>1 DEF ResolvedIn, RowsGive, NearestIn
  <2>3. CASE st[x][k] = "" /\ ab[x] # NoRole
    <3>1. HoldersIn(st, ChainIn(ab, x), k) = HoldersIn(st, ChainIn(ab, ab[x]), k)
      BY <1>1, <2>3 DEF HoldersIn, AboveIn
    <3>2. NearestIn(st, ab, ChainIn(ab, x), k) = NearestIn(st, ab, ChainIn(ab, ab[x]), k)
      BY <3>1 DEF NearestIn
    <3> QED BY <2>3, <3>2 DEF ResolvedIn, RowsGive, Over
  <2> QED BY <2>1, <2>2, <2>3
<1>3. st[x] = [k \in Keys |-> st[x][k]]
  BY DEF Matrices
<1>4. above1 = [k \in Keys |-> above1[k]]
  BY <1>3 DEF Over
<1> HIDE DEF above1
<1>5. ResolvedIn(st, ab, x) = [k \in Keys |-> ResolvedIn(st, ab, x)[k]]
  BY DEF ResolvedIn, RowsGive
<1> QED BY <1>2, <1>4, <1>5 DEF above1

LEMMA ResolvedTyped ==
    ASSUME NEW st \in [MatrixRoles -> Matrices], NEW ab \in Uplinks, NEW x \in MatrixRoles
    PROVE  ResolvedIn(st, ab, x) \in Matrices /\ ReadIn(st, ab, x) \in Matrices
<1>1. \A S : S # {} => AnyOf(S) \in S
  BY DEF AnyOf
<1>2. ASSUME NEW W \in SUBSET MatrixRoles PROVE RowsGive(st, ab, W) \in Matrices
  <2>1. ASSUME NEW k \in Keys
        PROVE  (IF NearestIn(st, ab, W, k) = {} THEN ""
                ELSE st[AnyOf(NearestIn(st, ab, W, k))][k]) \in AllValues \cup {""}
    <3>1. CASE NearestIn(st, ab, W, k) = {}
      BY <3>1
    <3>2. CASE NearestIn(st, ab, W, k) # {}
      <4>0. NearestIn(st, ab, W, k) \subseteq MatrixRoles
        BY DEF NearestIn, HoldersIn
      <4>1. PICK y \in MatrixRoles : AnyOf(NearestIn(st, ab, W, k)) = y
        BY <1>1, <3>2, <4>0
      <4>2. st[y] \in Matrices
        OBVIOUS
      <4>3. st[y][k] \in AllValues \cup {""}
        BY <4>2 DEF Matrices
      <4> QED BY <3>2, <4>1, <4>3
    <3> QED BY <3>1, <3>2
  <2> QED BY <2>1 DEF RowsGive, Matrices
<1>3. ChainIn(ab, x) \in SUBSET MatrixRoles /\ WalkedIn(ab, x) \in SUBSET MatrixRoles
  BY DEF ChainIn, WalkedIn
<1> QED BY <1>2, <1>3 DEF ResolvedIn, ReadIn

-----------------------------------------------------------------------------
(* Matrices.                                                               *)

LEMMA OverAssociates ==
    ASSUME NEW a \in Matrices, NEW b \in Matrices, NEW c \in Matrices
    PROVE  /\ Over(a, b) \in Matrices
           /\ Over(Over(a, b), c) = Over(a, Over(b, c))
BY DEF Over, Matrices

(* What is stored of a full matrix gives it back over the same base.       *)
LEMMA DifferenceRestores ==
    ASSUME NEW full \in FullMatrices, NEW base \in Matrices
    PROVE  /\ Difference(full, base) \in Matrices
           /\ Completed(Over(Difference(full, base), base)) = full
           /\ full \in Matrices /\ Completed(full) = full
<1>1. full \in [Keys -> AllValues] /\ full \in Matrices
  BY DEF FullMatrices, Matrices
<1>2. "" \notin AllValues
  BY DEF AllValues
<1>3. Difference(full, base) \in Matrices
  BY <1>1 DEF Difference, Matrices
<1>4. \A k \in Keys : Completed(Over(Difference(full, base), base))[k] = full[k]
  <2> SUFFICES ASSUME NEW k \in Keys
               PROVE  Completed(Over(Difference(full, base), base))[k] = full[k]
    OBVIOUS
  <2> DEFINE d == Difference(full, base)
             o == Over(d, base)
             default == IF k \in ScopedKeys THEN "none" ELSE "no"
  <2>1. d[k] = IF full[k] = Completed(base)[k] THEN "" ELSE full[k]
    BY DEF Difference
  <2>2. o[k] = IF d[k] # "" THEN d[k] ELSE base[k]
    BY DEF Over
  <2>3. Completed(o)[k] = IF o[k] # "" THEN o[k] ELSE default
    BY DEF Completed
  <2>4. Completed(base)[k] = IF base[k] # "" THEN base[k] ELSE default
    BY DEF Completed
  <2>5. full[k] # ""
    BY <1>1, <1>2
  <2> HIDE DEF d, o, default
  <2>6. Completed(o)[k] = full[k]
    BY <2>1, <2>2, <2>3, <2>4, <2>5
  <2> QED BY <2>6 DEF d, o
<1>5. \A k \in Keys : Completed(full)[k] = full[k]
  BY <1>1, <1>2 DEF Completed
<1>6. \A m : Completed(m) = [k \in Keys |-> Completed(m)[k]]
  BY DEF Completed
<1> QED BY <1>1, <1>3, <1>4, <1>5, <1>6

(* The union lets what one of its matrices lets.                           *)
LEMMA UnionCan ==
    ASSUME NEW S \in SUBSET Matrices, NEW k \in Keys
    PROVE  Can(UnionOf(S), k) <=> \E m \in S : Can(m, k)
<1> DEFINE vs == {m[k] : m \in S} \cup {""}
           IsHighest(v) == \A w \in vs : ValueRank[v] >= ValueRank[w]
<1>1. vs \subseteq AllValues \cup {""} /\ "" \in vs
  BY DEF Matrices
<1>2. /\ ValueRank["all"] = 5 /\ ValueRank["yes"] = 4 /\ ValueRank["own"] = 3
      /\ ValueRank["no"] = 2 /\ ValueRank["none"] = 1 /\ ValueRank[""] = 0
  BY DEF ValueRank, AllValues
<1> HIDE DEF vs, ValueRank
<1>0. \A v \in vs : v = "all" \/ v = "yes" \/ v = "own" \/ v = "no" \/ v = "none" \/ v = ""
  BY <1>1 DEF AllValues
<1>3. \E v \in vs : IsHighest(v)
  <2>1. CASE "all" \in vs
    <3>1. \A w \in vs : ValueRank[w] \in {0, 1, 2, 3, 4, 5}
      BY <1>0, <1>2, <2>1
    <3>2. \A w \in vs : 5 >= ValueRank[w]
      BY <3>1
    <3> QED BY <1>1, <1>2, <2>1, <3>2
  <2>2. CASE "all" \notin vs /\ "yes" \in vs
    <3>1. \A w \in vs : ValueRank[w] \in {0, 1, 2, 3, 4}
      BY <1>0, <1>2, <2>2
    <3>2. \A w \in vs : 4 >= ValueRank[w]
      BY <3>1
    <3> QED BY <1>1, <1>2, <2>2, <3>2
  <2>3. CASE "all" \notin vs /\ "yes" \notin vs /\ "own" \in vs
    <3>1. \A w \in vs : ValueRank[w] \in {0, 1, 2, 3}
      BY <1>0, <1>2, <2>3
    <3>2. \A w \in vs : 3 >= ValueRank[w]
      BY <3>1
    <3> QED BY <1>1, <1>2, <2>3, <3>2
  <2>4. CASE "all" \notin vs /\ "yes" \notin vs /\ "own" \notin vs /\ "no" \in vs
    <3>1. \A w \in vs : ValueRank[w] \in {0, 1, 2}
      BY <1>0, <1>2, <2>4
    <3>2. \A w \in vs : 2 >= ValueRank[w]
      BY <3>1
    <3> QED BY <1>1, <1>2, <2>4, <3>2
  <2>5. CASE vs \subseteq {"none", ""} /\ "none" \in vs
    <3>1. \A w \in vs : ValueRank[w] \in {0, 1}
      BY <1>0, <1>2, <2>5
    <3>2. \A w \in vs : 1 >= ValueRank[w]
      BY <3>1
    <3> QED BY <1>1, <1>2, <2>5, <3>2
  <2>6. CASE vs \subseteq {""}
    <3>1. \A w \in vs : ValueRank[w] \in {0}
      BY <1>0, <1>2, <2>6
    <3>2. \A w \in vs : 0 >= ValueRank[w]
      BY <3>1
    <3> QED BY <1>1, <1>2, <2>6, <3>2
  <2> QED BY <1>0, <2>1, <2>2, <2>3, <2>4, <2>5, <2>6
<1>4. UnionOf(S)[k] = CHOOSE v \in vs : IsHighest(v)
  BY DEF UnionOf, vs
<1>5. UnionOf(S)[k] \in vs /\ IsHighest(UnionOf(S)[k])
  BY <1>3, <1>4
<1>6. UnionOf(S)[k] \in {"yes", "own", "all"} <=> vs \cap {"yes", "own", "all"} # {}
  <2> DEFINE u == UnionOf(S)[k]
  <2>1. u \in vs /\ \A w \in vs : ValueRank[u] >= ValueRank[w]
    BY <1>5
  <2> HIDE DEF u
  <2>2. ASSUME u \in {"yes", "own", "all"} PROVE vs \cap {"yes", "own", "all"} # {}
    BY <2>1, <2>2
  <2>3. ASSUME NEW w \in vs, w \in {"yes", "own", "all"} PROVE u \in {"yes", "own", "all"}
    <3> SUFFICES ASSUME u \notin {"yes", "own", "all"} PROVE FALSE
      OBVIOUS
    <3>1. u = "no" \/ u = "none" \/ u = ""
      BY <1>0, <2>1
    <3>2. ValueRank[u] \in {0, 1, 2}
      BY <1>2, <3>1
    <3>3. ValueRank[w] \in {3, 4, 5}
      BY <1>2, <2>3
    <3>4. ValueRank[u] >= ValueRank[w]
      BY <2>1
    <3>5. \A i \in {0, 1, 2}, j \in {3, 4, 5} : ~(i >= j)
      OBVIOUS
    <3> QED BY <3>2, <3>3, <3>4, <3>5
  <2>4. u \in {"yes", "own", "all"} <=> vs \cap {"yes", "own", "all"} # {}
    BY <2>2, <2>3
  <2> QED BY <2>4 DEF u
<1>7. vs \cap {"yes", "own", "all"} # {} <=> \E m \in S : Can(m, k)
  BY DEF vs, Can
<1> QED BY <1>6, <1>7 DEF Can

-----------------------------------------------------------------------------
(* What a save of a role that is not too deep knows while it is fresh: the *)
(* rows it has merged and those still to be read, which the bound lets it  *)
(* read, give what its parent resolves to, and what it is about to write   *)
(* is the difference to that.                                              *)
SaveKnows(q, st, ab) ==
    /\ q.pc # "idle" => q.role \in MatrixRoles /\ q.full \in FullMatrices
    /\ q.pc \in {"parent", "walk"} => q.up \in MatrixRoles
    /\ q.pc = "walk" => q.depth < MaxRoleDepth
    /\ q.alone => q.fresh
    /\ q.fresh /\ q.role \in MatrixRoles /\ ShortIn(ab, q.role) =>
         /\ q.pc = "parent" => ab[q.role] = q.up
         /\ q.pc = "walk" => /\ q.up \in AboveIn(ab, q.role)
                             /\ q.depth + Cardinality(ChainIn(ab, q.up)) < MaxRoleDepth
                             /\ Over(q.merged, ResolvedIn(st, ab, q.up))
                                  = ResolvedIn(st, ab, ab[q.role])
         /\ q.pc = "write" =>
              q.merged = IF ab[q.role] = NoRole THEN q.full
                         ELSE Difference(q.full, ResolvedIn(st, ab, ab[q.role]))

(* What the guard has found stands until something is written.             *)
GuardKnows(q, st, ab) ==
    q.alone /\ q.pc # "idle" =>
      /\ Can(GrantsIn(st, ab), ManageKey)
      /\ q.pc # "guard" /\ q.role \in HeldRoles =>
           Can(UnionOf({q.full} \cup OthersIn(st, ab, q.role)), ManageKey)

MatrixInv ==
    /\ RoleMatrixTypeOK
    /\ ForestIn(above)
    /\ \A r \in SaveRequests : SaveKnows(sreq[r], stored, above)
    /\ \A r \in ActingRequests : GuardKnows(sreq[r], stored, above)

LEMMA SaveIdleKnows ==
    /\ SaveIdle \in SaveRequestType /\ SaveIdle.pc = "idle"
    /\ \A q, st, ab : q.pc = "idle" /\ (q.alone => q.fresh) => SaveKnows(q, st, ab)
    /\ \A q, st, ab : q.pc = "idle" => GuardKnows(q, st, ab)
    /\ \A st, ab : SaveKnows(SaveIdle, st, ab)
<1>1. Blank \in Matrices
  BY DEF Blank, Matrices
<1>2. 0 \in 0 .. MaxRoleDepth
  BY DepthAssumption
<1> QED BY <1>1, <1>2 DEF SaveIdle, SaveRequestType, SaveKnows, GuardKnows

(* A step that reads.                                                      *)
LEMMA SaveMoveKeepsInv ==
    ASSUME MatrixInv, NEW r \in SaveRequests, NEW q \in SaveRequestType,
           SaveKnows(q, stored, above), r \in ActingRequests => GuardKnows(q, stored, above),
           SaveMove(r, q), UNCHANGED <<stored, above>>
    PROVE  MatrixInv'
<1>1. /\ sreq \in [SaveRequests -> SaveRequestType] /\ sreq' = [sreq EXCEPT ![r] = q]
      /\ UNCHANGED <<stored, above>>
  BY DEF MatrixInv, RoleMatrixTypeOK, SaveMove
<1>2. sreq' \in [SaveRequests -> SaveRequestType]
  BY <1>1
<1>3. \A s \in SaveRequests : SaveKnows(sreq'[s], stored, above)
  BY <1>1 DEF MatrixInv
<1>4. \A s \in ActingRequests : GuardKnows(sreq'[s], stored, above)
  BY <1>1, ActingAssumption DEF MatrixInv
<1> QED BY <1>1, <1>2, <1>3, <1>4 DEF MatrixInv, RoleMatrixTypeOK

(* The matrix submitted is full, and the acting identity may manage.       *)
LEMMA SaveStartKeepsInv ==
    ASSUME MatrixInv, NEW r \in SaveRequests, NEW x \in MatrixRoles, NEW full \in FullMatrices,
           SaveStart(r, x, full)
    PROVE  MatrixInv'
<1> DEFINE w == [SaveIdle EXCEPT !.role = x, !.full = full,
                   !.pc = IF r \in ActingRequests THEN "guard" ELSE "role"]
<1>1. SaveMove(r, w) /\ UNCHANGED <<stored, above>>
  BY DEF SaveStart
<1>2. full \in Matrices
  BY DEF FullMatrices, Matrices
<1>3. /\ w \in SaveRequestType /\ w.role = x /\ w.full = full /\ w.fresh /\ w.alone
      /\ w.pc = IF r \in ActingRequests THEN "guard" ELSE "role"
  BY <1>2, SaveIdleKnows DEF SaveIdle, SaveRequestType
<1> HIDE DEF w
<1>4. SaveKnows(w, stored, above)
  BY <1>3 DEF SaveKnows
<1>5. ASSUME r \in ActingRequests PROVE GuardKnows(w, stored, above)
  BY <1>3, <1>5, TablesRead DEF GuardKnows, SaveStart
<1> QED BY <1>1, <1>3, <1>4, <1>5, SaveMoveKeepsInv

LEMMA SaveReadsKeepInv ==
    ASSUME MatrixInv, NEW r \in SaveRequests,
           SaveGuard(r) \/ SaveReadRole(r) \/ SaveReadParent(r) \/ SaveWalk(r) \/ SaveFail(r)
    PROVE  MatrixInv'
<1> DEFINE q == sreq[r]
<1>1. /\ q \in SaveRequestType /\ SaveKnows(q, stored, above)
      /\ r \in ActingRequests => GuardKnows(q, stored, above)
      /\ above \in Uplinks /\ stored \in [MatrixRoles -> Matrices] /\ ForestIn(above)
  BY DEF MatrixInv, RoleMatrixTypeOK, Uplinks
<1>2. ASSUME NEW w \in SaveRequestType, SaveMove(r, w), UNCHANGED <<stored, above>>,
             SaveKnows(w, stored, above), r \in ActingRequests => GuardKnows(w, stored, above)
      PROVE  MatrixInv'
  BY <1>2, SaveMoveKeepsInv
<1>3. CASE SaveFail(r)
  BY <1>2, <1>3, SaveIdleKnows DEF SaveFail
<1>4. CASE SaveGuard(r)
  <2>0. q.pc = "guard" /\ UNCHANGED <<stored, above>>
    BY <1>4 DEF SaveGuard, SaveAt
  <2>1. CASE LocksOut(q.role, q.full)
    BY <1>2, <1>4, <2>1, SaveIdleKnows DEF SaveGuard
  <2>2. CASE ~LocksOut(q.role, q.full)
    <3> DEFINE w == [q EXCEPT !.pc = "role"]
    <3>1. /\ w \in SaveRequestType /\ w.pc = "role" /\ w.role = q.role /\ w.full = q.full
          /\ w.fresh = q.fresh /\ w.alone = q.alone
      BY <1>1 DEF SaveRequestType
    <3>2. SaveMove(r, w)
      BY <1>4, <2>2 DEF SaveGuard
    <3> HIDE DEF w
    <3>3. SaveKnows(w, stored, above)
      BY <1>1, <2>0, <3>1 DEF SaveKnows
    <3>4. ASSUME r \in ActingRequests PROVE GuardKnows(w, stored, above)
      BY <1>1, <2>0, <2>2, <3>1, <3>4, TablesRead DEF GuardKnows
    <3> QED BY <1>2, <2>0, <3>1, <3>2, <3>3, <3>4
  <2> QED BY <2>1, <2>2
<1>5. ASSUME NEW w \in SaveRequestType, SaveMove(r, w), UNCHANGED <<stored, above>>,
             q.pc \in {"role", "parent", "walk"}, w.pc # "idle", w.role = q.role, w.full = q.full,
             w.fresh = q.fresh, w.alone = q.alone, SaveKnows(w, stored, above)
      PROVE  MatrixInv'
  <2>1. ASSUME r \in ActingRequests PROVE GuardKnows(w, stored, above)
    BY <1>1, <1>5, <2>1 DEF GuardKnows
  <2> QED BY <1>2, <1>5, <2>1
<1>6. CASE SaveReadRole(r)
  <2>0. /\ q.pc = "role" /\ UNCHANGED <<stored, above>>
        /\ q.role \in MatrixRoles /\ q.full \in FullMatrices /\ q.full \in Matrices
    BY <1>1, <1>6 DEF SaveReadRole, SaveAt, SaveKnows, FullMatrices, Matrices
  <2>1. CASE above[q.role] = NoRole
    <3> DEFINE w == [q EXCEPT !.pc = "write", !.merged = q.full]
    <3>1. /\ w \in SaveRequestType /\ w.pc = "write" /\ w.role = q.role /\ w.full = q.full
          /\ w.fresh = q.fresh /\ w.alone = q.alone /\ w.merged = q.full
      BY <1>1, <2>0 DEF SaveRequestType
    <3>2. SaveMove(r, w)
      BY <1>6, <2>1 DEF SaveReadRole
    <3> HIDE DEF w
    <3>3. SaveKnows(w, stored, above)
      BY <1>1, <2>0, <2>1, <3>1 DEF SaveKnows
    <3> QED BY <1>5, <2>0, <3>1, <3>2, <3>3
  <2>2. CASE above[q.role] # NoRole
    <3> DEFINE w == [q EXCEPT !.pc = "parent", !.up = above[q.role]]
    <3>1. /\ w \in SaveRequestType /\ w.pc = "parent" /\ w.role = q.role /\ w.full = q.full
          /\ w.fresh = q.fresh /\ w.alone = q.alone /\ w.up = above[q.role]
          /\ w.up \in MatrixRoles
      BY <1>1, <2>0, <2>2 DEF SaveRequestType, Uplinks
    <3>2. SaveMove(r, w)
      BY <1>6, <2>2 DEF SaveReadRole
    <3> HIDE DEF w
    <3>3. SaveKnows(w, stored, above)
      BY <1>1, <2>0, <3>1 DEF SaveKnows
    <3> QED BY <1>5, <2>0, <3>1, <3>2, <3>3
  <2> QED BY <2>1, <2>2
(* Row u has been merged into base, the n-th to be so, and what is above u *)
(* is still to be read.                                                    *)
<1>7. ASSUME NEW u \in MatrixRoles, NEW base \in Matrices, NEW n \in Nat,
             q.pc \in {"parent", "walk"}, UNCHANGED <<stored, above>>,
             SaveMove(r, SaveMerged(q, base, n, above[u])), n <= MaxRoleDepth,
             q.fresh /\ ShortIn(above, q.role) =>
               /\ u \in AboveIn(above, q.role)
               /\ n + Cardinality(ChainIn(above, u)) <= MaxRoleDepth
               /\ ResolvedIn(stored, above, above[q.role]) =
                    IF above[u] = NoRole THEN base
                    ELSE Over(base, ResolvedIn(stored, above, above[u]))
      PROVE  MatrixInv'
  <2>0. q.role \in MatrixRoles /\ q.full \in FullMatrices
    BY <1>1, <1>7 DEF SaveKnows
  <2>1. CASE above[u] = NoRole \/ n = MaxRoleDepth
    <3> DEFINE w == [q EXCEPT !.pc = "write", !.up = NoRole, !.depth = 0,
                       !.merged = Difference(q.full, base)]
    <3>0. Difference(q.full, base) \in Matrices
      BY <2>0, DifferenceRestores
    <3>b. 0 \in 0 .. MaxRoleDepth
      BY DepthAssumption
    <3>1. /\ w \in SaveRequestType /\ w.pc = "write" /\ w.role = q.role /\ w.full = q.full
          /\ w.fresh = q.fresh /\ w.alone = q.alone /\ w.merged = Difference(q.full, base)
      BY <1>1, <3>0, <3>b DEF SaveRequestType
    <3>2. SaveMove(r, w)
      BY <1>7, <2>1 DEF SaveMerged
    <3> HIDE DEF w
    <3>a. ASSUME q.fresh, ShortIn(above, q.role) PROVE above[u] = NoRole
      <4> SUFFICES ASSUME above[u] # NoRole PROVE FALSE
        OBVIOUS
      <4>1. above[u] \in MatrixRoles /\ Cardinality(ChainIn(above, above[u])) \in Nat
            /\ Cardinality(ChainIn(above, u)) = Cardinality(ChainIn(above, above[u])) + 1
        BY <1>1, ChainShortens DEF Uplinks
      <4> QED BY <1>7, <2>1, <3>a, <4>1, DepthAssumption
    <3>3. SaveKnows(w, stored, above)
      BY <1>1, <1>7, <2>0, <3>1, <3>a DEF SaveKnows, AboveIn
    <3> QED BY <1>5, <1>7, <3>1, <3>2, <3>3
  <2>2. CASE above[u] # NoRole /\ n # MaxRoleDepth
    <3> DEFINE w == [q EXCEPT !.pc = "walk", !.up = above[u], !.depth = n, !.merged = base]
    <3>0. n \in 0 .. MaxRoleDepth
      BY <1>7, DepthAssumption
    <3>1. /\ w \in SaveRequestType /\ w.pc = "walk" /\ w.role = q.role /\ w.full = q.full
          /\ w.fresh = q.fresh /\ w.alone = q.alone /\ w.merged = base /\ w.up = above[u]
          /\ w.up \in MatrixRoles /\ w.depth = n
      BY <1>1, <2>2, <3>0 DEF SaveRequestType, Uplinks
    <3>2. SaveMove(r, w)
      BY <1>7, <2>2 DEF SaveMerged
    <3>3. ASSUME q.fresh, ShortIn(above, q.role)
          PROVE  /\ above[u] \in AboveIn(above, q.role)
                 /\ n + Cardinality(ChainIn(above, above[u])) < MaxRoleDepth
      <4>1. above[q.role] \in MatrixRoles /\ u \in ChainIn(above, above[q.role])
        BY <1>1, <1>7, <2>0, <3>3 DEF AboveIn, Uplinks
      <4>2. above[u] \in AboveIn(above, q.role)
        BY <1>1, <2>2, <4>1, ChainCloses, NoRoleAssumption DEF AboveIn, ClosedIn
      <4>3. Cardinality(ChainIn(above, above[u])) \in Nat
            /\ Cardinality(ChainIn(above, u)) = Cardinality(ChainIn(above, above[u])) + 1
        BY <1>1, <2>2, ChainShortens
      <4> QED BY <1>7, <3>3, <4>2, <4>3, DepthAssumption
    <3> HIDE DEF w
    <3>a. n < MaxRoleDepth
      BY <1>7, <2>2, DepthAssumption
    <3>c. ASSUME q.fresh, ShortIn(above, q.role)
          PROVE  Over(base, ResolvedIn(stored, above, above[u]))
                   = ResolvedIn(stored, above, above[q.role])
      BY <1>7, <2>2, <3>c
    <3>4. SaveKnows(w, stored, above)
      BY <1>1, <2>0, <3>1, <3>3, <3>a, <3>c DEF SaveKnows
    <3> QED BY <1>5, <1>7, <3>1, <3>2, <3>4
  <2> QED BY <2>1, <2>2
<1>8. CASE SaveReadParent(r)
  <2>1. /\ q.pc = "parent" /\ q.up \in MatrixRoles /\ q.role \in MatrixRoles
        /\ SaveMove(r, SaveMerged(q, stored[q.up], 1, above[q.up]))
        /\ UNCHANGED <<stored, above>> /\ stored[q.up] \in Matrices
    BY <1>1, <1>8 DEF SaveReadParent, SaveAt, SaveKnows
  <2>2. ASSUME q.fresh, ShortIn(above, q.role)
        PROVE  /\ q.up \in AboveIn(above, q.role) /\ above[q.role] = q.up
               /\ 1 + Cardinality(ChainIn(above, q.up)) <= MaxRoleDepth
    <3>1. q.up \in AboveIn(above, q.role) /\ above[q.role] = q.up
      BY <1>1, <2>1, <2>2, ChainCloses, NoRoleAssumption DEF SaveKnows, AboveIn
    <3>2. Cardinality(ChainIn(above, q.up)) \in Nat
          /\ Cardinality(ChainIn(above, q.role)) = Cardinality(ChainIn(above, q.up)) + 1
      BY <1>1, <2>1, <3>1, ChainShortens, NoRoleAssumption
    <3> QED BY <2>2, <3>1, <3>2, DepthAssumption DEF ShortIn
  <2>3. ResolvedIn(stored, above, q.up) =
          IF above[q.up] = NoRole THEN stored[q.up]
          ELSE Over(stored[q.up], ResolvedIn(stored, above, above[q.up]))
    BY <1>1, <2>1, ResolvedUnfolds
  <2>4. 1 \in Nat /\ 1 <= MaxRoleDepth
    BY DepthAssumption
  <2> HIDE DEF q
  <2> QED BY <1>7, <2>1, <2>2, <2>3, <2>4
<1>9. CASE SaveWalk(r)
  <2>1. /\ q.pc = "walk" /\ q.up \in MatrixRoles /\ q.role \in MatrixRoles
        /\ SaveMove(r, SaveMerged(q, Over(q.merged, stored[q.up]), q.depth + 1, above[q.up]))
        /\ UNCHANGED <<stored, above>> /\ stored[q.up] \in Matrices /\ q.merged \in Matrices
    BY <1>1, <1>9 DEF SaveWalk, SaveAt, SaveKnows, SaveRequestType
  <2>0. q.depth \in Nat /\ q.depth + 1 \in Nat /\ q.depth + 1 <= MaxRoleDepth
    <3>1. q.depth \in 0 .. MaxRoleDepth /\ q.depth < MaxRoleDepth
      BY <1>1, <2>1 DEF SaveRequestType, SaveKnows
    <3> QED BY <3>1, DepthAssumption
  <2>2. ASSUME q.fresh, ShortIn(above, q.role)
        PROVE  /\ q.up \in AboveIn(above, q.role)
               /\ q.depth + 1 + Cardinality(ChainIn(above, q.up)) <= MaxRoleDepth
               /\ Over(q.merged, ResolvedIn(stored, above, q.up))
                    = ResolvedIn(stored, above, above[q.role])
    <3>1. Cardinality(ChainIn(above, q.up)) \in Nat
      BY <1>1, <2>1, ChainCounts
    <3> QED BY <1>1, <2>0, <2>1, <2>2, <3>1, DepthAssumption DEF SaveKnows
  <2>3. ResolvedIn(stored, above, q.up) =
          IF above[q.up] = NoRole THEN stored[q.up]
          ELSE Over(stored[q.up], ResolvedIn(stored, above, above[q.up]))
    BY <1>1, <2>1, ResolvedUnfolds
  <2>4. ASSUME above[q.up] # NoRole
        PROVE  Over(q.merged, Over(stored[q.up], ResolvedIn(stored, above, above[q.up])))
                 = Over(Over(q.merged, stored[q.up]), ResolvedIn(stored, above, above[q.up]))
    <3>1. above[q.up] \in MatrixRoles
      BY <1>1, <2>1, <2>4 DEF Uplinks
    <3>2. ResolvedIn(stored, above, above[q.up]) \in Matrices
      BY <1>1, <3>1, ResolvedTyped
    <3> QED BY <2>1, <3>2, OverAssociates
  <2>5. Over(q.merged, stored[q.up]) \in Matrices
    BY <2>1, OverAssociates
  <2> HIDE DEF q
  <2> QED BY <1>7, <2>0, <2>1, <2>2, <2>3, <2>4, <2>5
<1> QED BY <1>3, <1>4, <1>6, <1>8, <1>9

(* A request goes on knowing what it knows when the chain above its role   *)
(* is left alone.                                                          *)
LEMMA SaveKnowsOn ==
    ASSUME NEW q, NEW w, NEW st, NEW su, NEW ab \in Uplinks, NEW bb \in Uplinks,
           NEW y \in MatrixRoles, SaveKnows(q, st, ab), q.pc # "idle",
           \A z \in MatrixRoles \ {y} : su[z] = st[z] /\ bb[z] = ab[z],
           w.pc = q.pc, w.role = q.role, w.full = q.full, w.up = q.up, w.merged = q.merged,
           w.depth = q.depth, ~w.alone,
           w.fresh => q.fresh /\ y \notin AboveIn(ab, q.role) /\ bb[q.role] = ab[q.role]
    PROVE  SaveKnows(w, su, bb)
<1>1. q.role \in MatrixRoles /\ q.full \in FullMatrices
      /\ (q.pc \in {"parent", "walk"} => q.up \in MatrixRoles)
      /\ (q.pc = "walk" => q.depth < MaxRoleDepth)
  BY DEF SaveKnows
<1>2. ASSUME w.fresh, ShortIn(bb, q.role)
      PROVE  /\ q.pc = "parent" => bb[q.role] = q.up
             /\ q.pc = "walk" => /\ q.up \in AboveIn(bb, q.role)
                                 /\ q.depth + Cardinality(ChainIn(bb, q.up)) < MaxRoleDepth
                                 /\ Over(q.merged, ResolvedIn(su, bb, q.up))
                                      = ResolvedIn(su, bb, bb[q.role])
             /\ q.pc = "write" =>
                  q.merged = IF bb[q.role] = NoRole THEN q.full
                             ELSE Difference(q.full, ResolvedIn(su, bb, bb[q.role]))
  <2>1. q.fresh /\ y \notin AboveIn(ab, q.role) /\ bb[q.role] = ab[q.role]
    BY <1>2
  <2>2. CASE ab[q.role] = NoRole
    <3>1. ShortIn(ab, q.role)
      BY <1>1, <1>2, <2>1, <2>2, ChainUnfolds DEF ShortIn, AboveIn
    <3> QED BY <1>1, <2>1, <2>2, <3>1 DEF SaveKnows, AboveIn
  <2>3. CASE ab[q.role] # NoRole
    <3> DEFINE p == ab[q.role]
    <3>1. p \in MatrixRoles /\ y \notin ChainIn(ab, p) /\ AboveIn(ab, q.role) = ChainIn(ab, p)
          /\ AboveIn(bb, q.role) = ChainIn(bb, p) /\ bb[q.role] = p /\ p # NoRole
      BY <1>1, <2>1, <2>3 DEF AboveIn, Uplinks
    <3> HIDE DEF p
    <3>2. \A u \in ChainIn(ab, p) : u \in MatrixRoles /\ ChainIn(ab, u) \subseteq ChainIn(ab, p)
      BY <3>1, ChainCloses
    <3>3. ChainIn(bb, p) = ChainIn(ab, p)
      BY <3>1, <3>2, ChainStays
    <3>a. ShortIn(ab, q.role)
      <4>1. ChainIn(ab, q.role) = {q.role} \cup AboveIn(ab, q.role)
            /\ ChainIn(bb, q.role) = {q.role} \cup AboveIn(bb, q.role)
        BY <1>1, ChainUnfolds
      <4> QED BY <1>2, <3>1, <3>3, <4>1 DEF ShortIn
    <3>4. \A u \in ChainIn(ab, p) : /\ ResolvedIn(su, bb, u) = ResolvedIn(st, ab, u)
                                    /\ ChainIn(bb, u) = ChainIn(ab, u)
      <4> SUFFICES ASSUME NEW u \in ChainIn(ab, p)
                   PROVE  /\ ResolvedIn(su, bb, u) = ResolvedIn(st, ab, u)
                          /\ ChainIn(bb, u) = ChainIn(ab, u)
        OBVIOUS
      <4>1. u \in MatrixRoles /\ \A z \in ChainIn(ab, u) : bb[z] = ab[z] /\ su[z] = st[z]
        BY <3>1, <3>2
      <4> QED BY <4>1, ResolvedStays, ChainStays
    <3>5. p \in ChainIn(ab, p)
      BY <3>1, ChainCloses
    <3>6. ResolvedIn(su, bb, p) = ResolvedIn(st, ab, p)
      BY <3>4, <3>5
    <3>7. /\ q.pc = "parent" => p = q.up
          /\ q.pc = "walk" => /\ q.up \in ChainIn(ab, p)
                              /\ q.depth + Cardinality(ChainIn(ab, q.up)) < MaxRoleDepth
                              /\ Over(q.merged, ResolvedIn(st, ab, q.up)) = ResolvedIn(st, ab, p)
          /\ q.pc = "write" => q.merged = Difference(q.full, ResolvedIn(st, ab, p))
      BY <1>1, <2>1, <3>1, <3>a DEF SaveKnows, p
    <3> QED BY <3>1, <3>3, <3>4, <3>6, <3>7
  <2> QED BY <2>2, <2>3
<1> QED BY <1>1, <1>2 DEF SaveKnows

(* A write to the row of y, which overtakes the other requests.            *)
LEMMA OvertakenKeepsInv ==
    ASSUME MatrixInv, NEW y \in MatrixRoles, NEW moved \in BOOLEAN,
           stored' \in [MatrixRoles -> Matrices], above' \in Uplinks, ForestIn(above'),
           \A z \in MatrixRoles \ {y} : stored'[z] = stored[z] /\ above'[z] = above[z],
           ~moved => above' = above,
           sreq' \in [SaveRequests -> SaveRequestType],
           \A s \in SaveRequests : sreq'[s] = SaveIdle \/ sreq'[s] = Overtaken(y, moved)[s]
    PROVE  MatrixInv'
<1>1. above \in Uplinks /\ sreq \in [SaveRequests -> SaveRequestType]
  BY DEF MatrixInv, RoleMatrixTypeOK, Uplinks
<1>2. ASSUME NEW s \in SaveRequests
      PROVE  SaveKnows(sreq'[s], stored', above') /\ GuardKnows(sreq'[s], stored', above')
  <2> DEFINE q == sreq[s]
             w == sreq'[s]
  <2>1. CASE w = SaveIdle
    BY <2>1, SaveIdleKnows
  <2>2. CASE w # SaveIdle /\ q.pc = "idle"
    <3>1. w = q
      BY <1>2, <2>2 DEF Overtaken, SaveAt
    <3>2. q.alone => q.fresh
      BY DEF MatrixInv, SaveKnows
    <3> QED BY <2>2, <3>1, <3>2, SaveIdleKnows
  <2>3. CASE w # SaveIdle /\ q.pc # "idle"
    <3>1. w = [q EXCEPT !.alone = FALSE,
                        !.fresh = /\ @
                                  /\ y \notin Ancestors(q.role)
                                  /\ moved => y # q.role]
      BY <1>2, <2>3 DEF Overtaken, SaveAt
    <3>2. q \in SaveRequestType
      BY <1>1
    <3>3. /\ w.pc = q.pc /\ w.role = q.role /\ w.full = q.full /\ w.up = q.up
          /\ w.merged = q.merged /\ w.depth = q.depth /\ ~w.alone /\ q.pc # "idle"
      BY <2>3, <3>1, <3>2 DEF SaveRequestType
    <3>4. w.fresh => q.fresh /\ y \notin Ancestors(q.role) /\ (moved => y # q.role)
      BY <3>1, <3>2 DEF SaveRequestType
    <3>5. SaveKnows(q, stored, above) /\ q.role \in MatrixRoles
      BY <2>3 DEF MatrixInv, SaveKnows
    <3> HIDE DEF q, w
    <3>6. w.fresh => q.fresh /\ y \notin AboveIn(above, q.role) /\ above'[q.role] = above[q.role]
      <4> SUFFICES ASSUME w.fresh
                   PROVE  q.fresh /\ y \notin AboveIn(above, q.role) /\ above'[q.role] = above[q.role]
        OBVIOUS
      <4>1. q.fresh /\ y \notin AboveIn(above, q.role)
        BY <3>4, TablesRead
      <4>2. CASE moved
        BY <3>4, <3>5, <4>1, <4>2
      <4>3. CASE ~moved
        BY <4>1, <4>3
      <4> QED BY <4>2, <4>3
    <3>7. SaveKnows(w, stored', above')
      <4> DEFINE su == stored'
                 bb == above'
      <4>1. /\ above \in Uplinks /\ bb \in Uplinks
            /\ \A z \in MatrixRoles \ {y} : su[z] = stored[z] /\ bb[z] = above[z]
            /\ w.fresh => q.fresh /\ y \notin AboveIn(above, q.role) /\ bb[q.role] = above[q.role]
        BY <1>1, <3>6
      <4> HIDE DEF su, bb
      <4>2. SaveKnows(w, su, bb)
        BY <3>3, <3>5, <4>1, SaveKnowsOn
      <4> QED BY <4>2 DEF su, bb
    <3>8. GuardKnows(w, stored', above')
      BY <3>3 DEF GuardKnows
    <3> QED BY <3>7, <3>8 DEF w
  <2> QED BY <2>1, <2>2, <2>3
<1> QED BY <1>2, ActingAssumption DEF MatrixInv, RoleMatrixTypeOK, Uplinks

LEMMA OvertakenTyped ==
    ASSUME RoleMatrixTypeOK, NEW y, NEW moved
    PROVE  Overtaken(y, moved) \in [SaveRequests -> SaveRequestType]
<1> SUFFICES ASSUME NEW s \in SaveRequests PROVE Overtaken(y, moved)[s] \in SaveRequestType
  BY DEF Overtaken
<1> DEFINE f == sreq[s].fresh /\ y \notin Ancestors(sreq[s].role) /\ (moved => y # sreq[s].role)
<1>1. f \in BOOLEAN
  OBVIOUS
<1>2. sreq[s] \in SaveRequestType
  BY DEF RoleMatrixTypeOK
<1>3. Overtaken(y, moved)[s] = IF SaveAt(s, "idle") THEN sreq[s]
                               ELSE [sreq[s] EXCEPT !.alone = FALSE, !.fresh = f]
  BY DEF Overtaken
<1> HIDE DEF f
<1> QED BY <1>1, <1>2, <1>3 DEF SaveRequestType

LEMMA SaveWriteKeepsInv ==
    ASSUME MatrixInv, NEW r \in SaveRequests, SaveWrite(r)
    PROVE  MatrixInv'
<1> DEFINE x == sreq[r].role
<1>1. /\ x \in MatrixRoles /\ sreq[r].merged \in Matrices
      /\ above \in Uplinks /\ stored \in [MatrixRoles -> Matrices] /\ ForestIn(above)
      /\ RoleMatrixTypeOK
  BY DEF MatrixInv, RoleMatrixTypeOK, Uplinks, SaveKnows, SaveWrite, SaveAt, SaveRequestType
<1>2. /\ stored' = [stored EXCEPT ![x] = sreq[r].merged] /\ above' = above
      /\ sreq' = [Overtaken(x, FALSE) EXCEPT ![r] = SaveIdle]
  BY DEF SaveWrite
<1> HIDE DEF x
<1>3. Overtaken(x, FALSE) \in [SaveRequests -> SaveRequestType]
  BY <1>1, OvertakenTyped
<1>4. stored' \in [MatrixRoles -> Matrices] /\ \A z \in MatrixRoles \ {x} : stored'[z] = stored[z]
  BY <1>1, <1>2
<1>5. /\ sreq' \in [SaveRequests -> SaveRequestType]
      /\ \A s \in SaveRequests : sreq'[s] = SaveIdle \/ sreq'[s] = Overtaken(x, FALSE)[s]
  BY <1>2, <1>3, SaveIdleKnows
<1> QED BY <1>1, <1>2, <1>4, <1>5, OvertakenKeepsInv

(* The check of SetRoleParent keeps the forest one.                        *)
LEMMA ReparentKeepsForest ==
    ASSUME NEW ab \in Uplinks, NEW bb \in Uplinks, ForestIn(ab), NEW x \in MatrixRoles,
           NEW p \in MatrixRoles \cup {NoRole}, bb = [ab EXCEPT ![x] = p],
           p # NoRole => p # x /\ x \notin AboveIn(ab, p)
    PROVE  ForestIn(bb)
<1>1. bb[x] = p /\ \A z \in MatrixRoles \ {x} : bb[z] = ab[z]
  BY DEF Uplinks
<1>2. p # NoRole => p \in MatrixRoles /\ x \notin ChainIn(ab, p) /\ ChainIn(bb, p) = ChainIn(ab, p)
                    /\ ClosedIn(ab, ChainIn(ab, p)) /\ p \in ChainIn(ab, p)
                    /\ ChainIn(ab, p) \subseteq MatrixRoles
  <2> SUFFICES ASSUME p # NoRole
               PROVE  p \in MatrixRoles /\ x \notin ChainIn(ab, p) /\ ChainIn(bb, p) = ChainIn(ab, p)
                    /\ ClosedIn(ab, ChainIn(ab, p)) /\ p \in ChainIn(ab, p)
                    /\ ChainIn(ab, p) \subseteq MatrixRoles
    OBVIOUS
  <2>1. p \in MatrixRoles /\ x \notin ChainIn(ab, p)
    BY ChainUnfolds
  <2>2. ChainIn(ab, p) \subseteq MatrixRoles /\ ClosedIn(ab, ChainIn(ab, p)) /\ p \in ChainIn(ab, p)
    BY <2>1, ChainCloses
  <2>3. \A z \in ChainIn(ab, p) : bb[z] = ab[z]
    BY <1>1, <2>1, <2>2
  <2>4. ChainIn(bb, p) = ChainIn(ab, p)
    BY <2>1, <2>3, ChainStays
  <2> QED BY <2>1, <2>2, <2>4
<1>3. x \notin AboveIn(bb, x)
  BY <1>1, <1>2 DEF AboveIn
<1>4. ASSUME NEW y \in MatrixRoles, y # x, y \in AboveIn(bb, y) PROVE FALSE
  <2> DEFINE z == ab[y]
  <2>1. bb[y] = z /\ z \in MatrixRoles /\ z # NoRole /\ y \in ChainIn(bb, z) /\ y \notin ChainIn(ab, z)
    BY <1>1, <1>4, NoRoleAssumption DEF AboveIn, ForestIn, Uplinks
  <2> HIDE DEF z
  <2>2. z \in ChainIn(ab, z) /\ ChainIn(ab, z) \subseteq MatrixRoles /\ ClosedIn(ab, ChainIn(ab, z))
    BY <2>1, ChainCloses
  <2>3. CASE x \notin ChainIn(ab, z)
    <3>1. \A u \in ChainIn(ab, z) : bb[u] = ab[u]
      BY <1>1, <2>2, <2>3
    <3>2. ChainIn(bb, z) = ChainIn(ab, z)
      BY <2>1, <3>1, ChainStays
    <3> QED BY <2>1, <3>2
  <2>4. CASE x \in ChainIn(ab, z)
    <3>1. CASE p = NoRole
      <4>1. ClosedIn(bb, ChainIn(ab, z))
        BY <1>1, <2>2, <3>1 DEF ClosedIn
      <4> QED BY <2>1, <2>2, <4>1, ChainCloses
    <3>2. CASE p # NoRole
      <4>1. ClosedIn(bb, ChainIn(ab, z) \cup ChainIn(ab, p))
        BY <1>1, <1>2, <2>2, <3>2 DEF ClosedIn
      <4>2. y \in ChainIn(ab, p)
        BY <1>2, <2>1, <2>2, <3>2, <4>1, ChainCloses
      <4>3. z \in ChainIn(ab, p)
        BY <1>2, <2>1, <3>2, <4>2 DEF ClosedIn, z
      <4>4. ChainIn(ab, z) \subseteq ChainIn(ab, p)
        BY <1>2, <3>2, <4>3, ChainCloses
      <4> QED BY <1>2, <2>4, <3>2, <4>4
    <3> QED BY <3>1, <3>2
  <2> QED BY <2>3, <2>4
<1> QED BY <1>3, <1>4 DEF ForestIn

LEMMA ReparentKeepsInv ==
    ASSUME MatrixInv, NEW x \in MatrixRoles, NEW p \in MatrixRoles \cup {NoRole}, Reparent(x, p)
    PROVE  MatrixInv'
<1>1. /\ above \in Uplinks /\ stored \in [MatrixRoles -> Matrices] /\ ForestIn(above)
      /\ RoleMatrixTypeOK
  BY DEF MatrixInv, RoleMatrixTypeOK, Uplinks
<1>2. /\ above' = [above EXCEPT ![x] = p] /\ stored' = stored /\ sreq' = Overtaken(x, TRUE)
      /\ (p # NoRole => p # x /\ x \notin AboveIn(above, p))
  BY TablesRead DEF Reparent
<1>3. above' \in Uplinks /\ \A z \in MatrixRoles \ {x} : above'[z] = above[z]
  BY <1>1, <1>2 DEF Uplinks
<1>4. ForestIn(above')
  BY <1>1, <1>2, <1>3, ReparentKeepsForest
<1>5. sreq' \in [SaveRequests -> SaveRequestType]
  BY <1>1, <1>2, OvertakenTyped
<1> QED BY <1>1, <1>2, <1>3, <1>4, <1>5, OvertakenKeepsInv

LEMMA MatrixInvKept == MatrixInv /\ [RoleMatrixNext]_matrixVars => MatrixInv'
<1> SUFFICES ASSUME MatrixInv, [RoleMatrixNext]_matrixVars PROVE MatrixInv'
  OBVIOUS
<1>1. ASSUME NEW r \in SaveRequests, SaveStep(r) PROVE MatrixInv'
  BY <1>1, SaveStartKeepsInv, SaveReadsKeepInv, SaveWriteKeepsInv DEF SaveStep
<1>2. ASSUME NEW x \in MatrixRoles, NEW p \in ParentsFor[x] \cup {NoRole}, Reparent(x, p)
      PROVE  MatrixInv'
  <2>1. p \in MatrixRoles \cup {NoRole}
    BY ParentsAssumption
  <2> QED BY <1>2, <2>1, ReparentKeepsInv
<1>3. CASE UNCHANGED matrixVars
  BY <1>3 DEF matrixVars, MatrixInv, RoleMatrixTypeOK
<1> QED BY <1>1, <1>2, <1>3 DEF RoleMatrixNext

LEMMA MatrixInvInit == RoleMatrixInit => MatrixInv
<1> SUFFICES ASSUME RoleMatrixInit PROVE MatrixInv
  OBVIOUS
<1>1. RoleMatrixTypeOK
  <2>1. Blank \in Matrices
    BY DEF Blank, Matrices
  <2> QED BY <2>1, SaveIdleKnows DEF RoleMatrixInit, RoleMatrixTypeOK
<1>2. ForestIn(above)
  BY DEF RoleMatrixInit, ForestIn, AboveIn
<1>3. \A r \in SaveRequests : sreq[r] = SaveIdle
  BY DEF RoleMatrixInit
<1> QED BY <1>1, <1>2, <1>3, SaveIdleKnows, ActingAssumption DEF MatrixInv

(* Requests know what they need all the time.                              *)
THEOREM MatrixInvHolds == RoleMatrixSpec => []MatrixInv
BY MatrixInvInit, MatrixInvKept, PTL DEF RoleMatrixSpec

-----------------------------------------------------------------------------
(* What a fresh write stores resolves to the matrix submitted.             *)
LEMMA FreshWriteResolves ==
    ASSUME MatrixInv, NEW r \in SaveRequests, SaveWrite(r), sreq[r].fresh,
           ShortIn(above, sreq[r].role)
    PROVE  /\ sreq[r].role \in MatrixRoles /\ sreq[r].full \in FullMatrices
           /\ ReadIn(stored', above', sreq[r].role) \in Matrices
           /\ Completed(ReadIn(stored', above', sreq[r].role)) = sreq[r].full
<1> DEFINE q == sreq[r]
           x == q.role
<1>1. /\ x \in MatrixRoles /\ q.full \in FullMatrices /\ q.merged \in Matrices
      /\ above \in Uplinks /\ stored \in [MatrixRoles -> Matrices] /\ ForestIn(above)
      /\ q.merged = IF above[x] = NoRole THEN q.full
                    ELSE Difference(q.full, ResolvedIn(stored, above, above[x]))
  BY DEF MatrixInv, RoleMatrixTypeOK, Uplinks, SaveKnows, SaveWrite, SaveAt, SaveRequestType
<1>2. stored' = [stored EXCEPT ![x] = q.merged] /\ above' = above
  BY DEF SaveWrite
<1> HIDE DEF q
<1>3. stored' \in [MatrixRoles -> Matrices] /\ stored'[x] = q.merged
      /\ \A z \in MatrixRoles \ {x} : stored'[z] = stored[z]
  BY <1>1, <1>2
<1>4. /\ ReadIn(stored', above, x) = ResolvedIn(stored', above, x)
      /\ ResolvedIn(stored', above, x) =
        IF above[x] = NoRole THEN q.merged
        ELSE Over(q.merged, ResolvedIn(stored', above, above[x]))
  BY <1>1, <1>3, ResolvedUnfolds, ShortIsRead DEF q
<1>5. ResolvedIn(stored', above, x) \in Matrices
  BY <1>1, <1>3, ResolvedTyped
<1>6. CASE above[x] = NoRole
  BY <1>1, <1>2, <1>4, <1>5, <1>6, DifferenceRestores, ResolvedTyped DEF q
<1>7. CASE above[x] # NoRole
  <2>1. above[x] \in MatrixRoles /\ x \notin ChainIn(above, above[x])
    BY <1>1, <1>7 DEF ForestIn, AboveIn, Uplinks
  <2>2. ChainIn(above, above[x]) \subseteq MatrixRoles
    BY <1>1, <2>1, ChainCloses
  <2>3. ResolvedIn(stored', above, above[x]) = ResolvedIn(stored, above, above[x])
    BY <1>1, <1>3, <2>1, <2>2, ResolvedStays
  <2>4. ResolvedIn(stored, above, above[x]) \in Matrices
    BY <1>1, <2>1, ResolvedTyped
  <2>5. Completed(Over(Difference(q.full, ResolvedIn(stored, above, above[x])),
                       ResolvedIn(stored, above, above[x]))) = q.full
    BY <1>1, <2>4, DifferenceRestores
  <2> QED BY <1>1, <1>2, <1>4, <1>5, <1>7, <2>3, <2>5 DEF q
<1> QED BY <1>6, <1>7

LEMMA MatrixTypeCorrect == RoleMatrixSpec => []RoleMatrixTypeOK
BY MatrixInvHolds, PTL DEF MatrixInv

(* Saves store differences to the parent that resolve to what was          *)
(* submitted, whatever other saves and moves overlap them, wherever a      *)
(* resolution reads the whole chain.                                       *)
THEOREM SavesResolve == RoleMatrixSpec => SavedAsSubmitted
<1>1. ASSUME MatrixInv, [RoleMatrixNext]_matrixVars
      PROVE  [\A r \in SaveRequests, x \in MatrixRoles :
               SaveWrite(r) /\ sreq[r].fresh /\ sreq[r].role = x /\ WithinDepth(x) =>
                 Completed(Resolved(x))' = sreq[r].full]_matrixVars
  <2> SUFFICES ASSUME NEW r \in SaveRequests, NEW x \in MatrixRoles,
                      SaveWrite(r), sreq[r].fresh, sreq[r].role = x, WithinDepth(x)
               PROVE  Completed(Resolved(x))' = sreq[r].full
    OBVIOUS
  <2>1. Completed(ReadIn(stored', above', x)) = sreq[r].full
    BY <1>1, FreshWriteResolves, TablesRead
  <2>2. Resolved(x)' = ReadIn(stored', above', x)
    BY TablesRead
  <2>3. Completed(Resolved(x))' = Completed(ReadIn(stored', above', x))
    BY <2>2 DEF Completed
  <2> QED BY <2>1, <2>3
<1> QED BY <1>1, MatrixInvHolds, PTL DEF RoleMatrixSpec, SavedAsSubmitted

(* The guard's answer is true of the tables after the write.               *)
LEMMA LoneWriteKeepsManaging ==
    ASSUME MatrixInv, NEW r \in ActingRequests, SaveWrite(r), sreq[r].alone,
           ShortIn(above, sreq[r].role),
           \A y \in HeldRoles : sreq[r].role \notin AboveIn(above, y)
    PROVE  Can(GrantsIn(stored', above'), ManageKey)
<1> DEFINE q == sreq[r]
           x == q.role
           now(y) == ReadIn(stored, above, y)
           then(y) == ReadIn(stored', above', y)
<1>1. /\ r \in SaveRequests /\ x \in MatrixRoles /\ q.full \in FullMatrices /\ q.full \in Matrices
      /\ q.merged \in Matrices /\ HeldRoles \subseteq MatrixRoles /\ ManageKey \in Keys
      /\ above \in Uplinks /\ stored \in [MatrixRoles -> Matrices]
      /\ q.fresh /\ SaveKnows(q, stored, above) /\ GuardKnows(q, stored, above) /\ q.pc = "write"
  BY ActingAssumption, HeldAssumption, KeysAssumption
     DEF MatrixInv, RoleMatrixTypeOK, Uplinks, SaveKnows, SaveWrite, SaveAt, SaveRequestType,
         FullMatrices, Matrices
<1>2. stored' = [stored EXCEPT ![x] = q.merged] /\ above' = above
  BY DEF SaveWrite
<1>3. stored' \in [MatrixRoles -> Matrices] /\ \A z \in MatrixRoles \ {x} : stored'[z] = stored[z]
  BY <1>1, <1>2
<1>4. \A y \in HeldRoles : now(y) \in Matrices /\ then(y) \in Matrices
  BY <1>1, <1>2, <1>3, ResolvedTyped
<1>5. ASSUME NEW y \in HeldRoles \ {x} PROVE then(y) = now(y)
  <2>1. y \in MatrixRoles /\ x \notin ChainIn(above, y)
    BY <1>1, <1>5, ChainUnfolds
  <2>2. ChainIn(above, y) \subseteq MatrixRoles
    BY <1>1, <2>1, ChainCloses
  <2>3. \A z \in ChainIn(above, y) : above'[z] = above[z] /\ stored'[z] = stored[z]
    BY <1>2, <1>3, <2>1, <2>2
  <2>4. above' \in Uplinks
    BY <1>1, <1>2
  <2> QED BY <1>1, <2>1, <2>3, <2>4, ResolvedStays
<1>6. SUFFICES \E y \in HeldRoles : Can(then(y), ManageKey)
  <2>1. {then(y) : y \in HeldRoles} \in SUBSET Matrices
    BY <1>4
  <2> QED BY <1>1, <1>6, <2>1, UnionCan DEF GrantsIn
<1>7. CASE x \notin HeldRoles
  <2>1. Can(UnionOf({now(y) : y \in HeldRoles}), ManageKey)
    BY <1>1 DEF GuardKnows, GrantsIn
  <2>2. {now(y) : y \in HeldRoles} \in SUBSET Matrices
    BY <1>4
  <2>3. PICK y \in HeldRoles : Can(now(y), ManageKey)
    <3> HIDE DEF now
    <3> QED BY <1>1, <2>1, <2>2, UnionCan
  <2> QED BY <1>5, <1>7, <2>3
<1>8. CASE x \in HeldRoles
  <2> DEFINE S == {q.full} \cup {now(y) : y \in HeldRoles \ {x}}
  <2>1. Can(UnionOf(S), ManageKey)
    BY <1>1, <1>8 DEF GuardKnows, OthersIn
  <2>2. S \in SUBSET Matrices
    BY <1>1, <1>4
  <2> HIDE DEF S
  <2>3. PICK m \in S : Can(m, ManageKey)
    BY <1>1, <2>1, <2>2, UnionCan
  <2>4. CASE m = q.full
    <3>1. Completed(then(x)) = q.full
      BY <1>1, FreshWriteResolves
    <3>2. Can(Completed(then(x)), ManageKey)
      BY <2>3, <2>4, <3>1
    <3> HIDE DEF then, q
    <3>3. Can(then(x), ManageKey)
      BY <1>1, <3>2 DEF Can, Completed
    <3> QED BY <1>8, <3>3
  <2>5. CASE m # q.full
    <3>1. PICK y \in HeldRoles \ {x} : m = now(y)
      BY <2>3, <2>5 DEF S
    <3> QED BY <1>5, <2>3, <3>1
  <2> QED BY <2>4, <2>5
<1> QED BY <1>7, <1>8

(* No save takes the managing permission from the one who makes it, as far *)
(* as the guard looks.                                                     *)
THEOREM SavesLockNobodyOut == RoleMatrixSpec => NoSelfLockout
<1>1. ASSUME MatrixInv, [RoleMatrixNext]_matrixVars
      PROVE  [\A r \in SaveRequests :
               /\ r \in ActingRequests /\ SaveWrite(r) /\ sreq[r].alone
               /\ WithinDepth(sreq[r].role)
               /\ \A y \in HeldRoles : sreq[r].role \notin Ancestors(y)
               => Can(ActorGrants, ManageKey)']_matrixVars
  <2> SUFFICES ASSUME NEW r \in SaveRequests, r \in ActingRequests, SaveWrite(r), sreq[r].alone,
                      WithinDepth(sreq[r].role),
                      \A y \in HeldRoles : sreq[r].role \notin Ancestors(y)
               PROVE  Can(ActorGrants, ManageKey)'
    OBVIOUS
  <2>1. Can(GrantsIn(stored', above'), ManageKey)
    BY <1>1, TablesRead, LoneWriteKeepsManaging
  <2>2. ActorGrants' = GrantsIn(stored', above')
    BY TablesRead
  <2> QED BY <2>1, <2>2 DEF Can
<1> QED BY <1>1, MatrixInvHolds, PTL DEF RoleMatrixSpec, NoSelfLockout

=============================================================================
