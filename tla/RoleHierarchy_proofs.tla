------------------------ MODULE RoleHierarchy_proofs ------------------------
(***************************************************************************)
(* Proofs about RoleHierarchy for any roles, requests and maximal depth.   *)
(***************************************************************************)
EXTENDS RoleHierarchy, FiniteSetTheorems, TLAPS

Inv == TreeTypeOK /\ TreeLocals /\ BuiltinsPresent /\ ParentsExist

LEMMA IdleIsTyped ==
  /\ TreeIdle \in TreeRequestType
  /\ TreeIdle.pc = "idle"
  /\ TreeLocalsOf(TreeIdle)
  /\ SnapshotOf(TreeIdle)
<1>1. TreeIdle.pc = "idle"
  BY DEF TreeIdle
<1>2. TreeIdle \in TreeRequestType
  BY DepthAssumption DEF TreeIdle, TreeRequestType, TreeLabels
<1>3. QED
  BY <1>1, <1>2 DEF TreeLocalsOf, SnapshotOf

LEMMA InitInv == TreeInit => Inv
<1> SUFFICES ASSUME TreeInit PROVE Inv
  OBVIOUS
<1>1. TreeTypeOK
  BY IdleIsTyped DEF TreeInit, TreeTypeOK
<1>2. TreeLocals
  BY IdleIsTyped DEF TreeInit, TreeLocals
<1>3. BuiltinsPresent /\ ParentsExist
  BY BuiltinAssumption DEF TreeInit, BuiltinsPresent, ParentsExist, Present
<1>4. QED
  BY <1>1, <1>2, <1>3 DEF Inv

(* Reading a row of the walk leaves the request well formed.               *)
LEMMA WalkedIsTyped ==
  ASSUME Inv, NEW q \in TreeRequestType, NEW c \in Roles, NEW d \in 0..MaxRoleDepth,
         q.role \in Roles \ Builtin, q.target \in Roles
  PROVE  Walked(q, c, d) \in TreeRequestType /\ TreeLocalsOf(Walked(q, c, d))
<1>1. parent[c] \in Roles \cup {NoParent} /\ d \in 0..MaxRoleDepth
  BY DepthAssumption DEF Inv, TreeTypeOK
<1>2. CASE c = q.role
  BY <1>2, IdleIsTyped DEF Walked
<1>3. CASE c # q.role /\ parent[c] = NoParent
  <2> DEFINE w == [q EXCEPT !.pc = "set_write", !.cur = c, !.up = NoParent,
                            !.depth = d]
  <2>1. w \in TreeRequestType /\ TreeLocalsOf(w)
    BY <1>1 DEF TreeRequestType, TreeLabels, TreeLocalsOf
  <2>2. Walked(q, c, d) = w
    BY <1>3 DEF Walked
  <2>3. QED
    BY <2>1, <2>2
<1>4. CASE c # q.role /\ parent[c] # NoParent /\ TooDeep(d + 1)
  BY <1>4, IdleIsTyped DEF Walked
<1>5. CASE c # q.role /\ parent[c] # NoParent /\ ~TooDeep(d + 1)
  <2> DEFINE w == [q EXCEPT !.pc = "walk", !.cur = c, !.up = parent[c],
                            !.depth = d]
  <2>1. parent[c] \in Roles /\ d < MaxRoleDepth
    BY <1>1, <1>5, DepthAssumption DEF TooDeep
  <2>2. w \in TreeRequestType /\ TreeLocalsOf(w)
    BY <1>1, <2>1 DEF TreeRequestType, TreeLabels, TreeLocalsOf
  <2>3. Walked(q, c, d) = w
    BY <1>5 DEF Walked
  <2>4. QED
    BY <2>2, <2>3
<1>6. QED
  BY <1>2, <1>3, <1>4, <1>5

(* A request moves on and the rest of the state keeps its types.           *)
LEMMA RequestMoves ==
  ASSUME Inv, NEW r \in TreeRequests, NEW q \in TreeRequestType, TreeGoto(r, q),
         TreeLocalsOf(q)
  PROVE  treeReq' \in [TreeRequests -> TreeRequestType] /\ TreeLocals'
<1>1. treeReq' = [treeReq EXCEPT ![r] = q] /\ treeReq \in [TreeRequests -> TreeRequestType]
  BY DEF TreeGoto, Inv, TreeTypeOK
<1>2. QED
  BY <1>1 DEF Inv, TreeLocals, TreeLocalsOf

LEMMA StartKeepsInv ==
  ASSUME Inv, NEW r \in TreeRequests, TreeStart(r)
  PROVE  Inv'
<1>1. PICK q \in TreeRequestType :
        /\ TreeGoto(r, q) /\ TreeLocalsOf(q)
        /\ UNCHANGED <<row, parent, assigned, raced>>
  <2>1. ASSUME NEW p \in Roles, CreateRead(r, p)
        PROVE  \E q \in TreeRequestType :
                 /\ TreeGoto(r, q) /\ TreeLocalsOf(q)
                 /\ UNCHANGED <<row, parent, assigned, raced>>
    <3> DEFINE q == [TreeIdle EXCEPT !.pc = "create", !.target = p]
    <3>1. q \in TreeRequestType /\ TreeLocalsOf(q)
      BY IdleIsTyped DEF TreeIdle, TreeRequestType, TreeLabels, TreeLocalsOf
    <3>2. QED
      BY <2>1, <3>1 DEF CreateRead
  <2>2. ASSUME NEW x \in Roles, NEW p \in Roles, SetStart(r, x, p)
        PROVE  \E q \in TreeRequestType :
                 /\ TreeGoto(r, q) /\ TreeLocalsOf(q)
                 /\ UNCHANGED <<row, parent, assigned, raced>>
    <3> DEFINE q == [TreeIdle EXCEPT !.pc = "set_read", !.role = x, !.target = p]
    <3>1. q \in TreeRequestType /\ TreeLocalsOf(q)
      BY <2>2, IdleIsTyped DEF TreeIdle, TreeRequestType, TreeLabels, TreeLocalsOf, SetStart
    <3>2. QED
      BY <2>2, <3>1 DEF SetStart
  <2>3. ASSUME NEW x \in Roles, DeleteStart(r, x)
        PROVE  \E q \in TreeRequestType :
                 /\ TreeGoto(r, q) /\ TreeLocalsOf(q)
                 /\ UNCHANGED <<row, parent, assigned, raced>>
    <3> DEFINE q == [TreeIdle EXCEPT !.pc = "del_members", !.role = x]
    <3>1. q \in TreeRequestType /\ TreeLocalsOf(q)
      BY <2>3, IdleIsTyped DEF TreeIdle, TreeRequestType, TreeLabels, TreeLocalsOf, DeleteStart
    <3>2. QED
      BY <2>3, <3>1 DEF DeleteStart
  <2>4. QED
    BY <2>1, <2>2, <2>3 DEF TreeStart
<1>2. QED
  BY <1>1, RequestMoves
     DEF Inv, TreeTypeOK, BuiltinsPresent, ParentsExist, Present

LEMMA SimpleWritesKeepInv ==
  ASSUME Inv, NEW x \in Roles,
         \/ CreateRole(x) \/ ClearParent(x)
         \/ x \in Assignable /\ (Assign(x) \/ Unassign(x))
  PROVE  Inv'
<1>1. TreeTypeOK'
  BY DEF Inv, TreeTypeOK, CreateRole, Insert, ClearParent, Assign, Unassign,
         WriteBeside
<1>2. UNCHANGED treeReq
  BY DEF CreateRole, ClearParent, Assign, Unassign
<1>3. TreeLocals'
  BY <1>2 DEF Inv, TreeLocals, TreeLocalsOf
<1>4. BuiltinsPresent' /\ ParentsExist'
  BY BuiltinAssumption
     DEF Inv, TreeTypeOK, BuiltinsPresent, ParentsExist, Present, CreateRole,
         Insert, ClearParent, Assign, Unassign
<1>5. QED
  BY <1>1, <1>3, <1>4 DEF Inv

LEMMA ContinueKeepsInv ==
  ASSUME Inv, NEW r \in TreeRequests, TreeContinue(r)
  PROVE  Inv'
<1> DEFINE q == treeReq[r]
<1>0. q \in TreeRequestType /\ TreeLocalsOf(q)
  BY DEF Inv, TreeTypeOK, TreeLocals
<1>1. ASSUME NEW x \in Roles, CreateInsert(r, x)
      PROVE  Inv'
  <2> DEFINE w == [q EXCEPT !.pc = "set_read", !.role = x]
  <2>1. x \notin Builtin
    BY <1>1 DEF CreateInsert, Insert, Inv, BuiltinsPresent, Present
  <2>2. w \in TreeRequestType /\ TreeLocalsOf(w)
    BY <1>0, <1>1, <2>1 DEF TreeRequestType, TreeLabels, TreeLocalsOf, CreateInsert, TreeAt
  <2>3. TreeGoto(r, w) /\ row' = [row EXCEPT ![x] = "present"]
        /\ UNCHANGED <<parent, assigned>> /\ raced' \in BOOLEAN
    BY <1>1 DEF CreateInsert, Insert, WriteBeside, Inv, TreeTypeOK
  <2> HIDE DEF w, q
  <2>4. treeReq' \in [TreeRequests -> TreeRequestType] /\ TreeLocals'
    BY <2>2, <2>3, RequestMoves
  <2>5. QED
    BY <2>3, <2>4, BuiltinAssumption
       DEF Inv, TreeTypeOK, BuiltinsPresent, ParentsExist, Present
<1>2. ASSUME SetRead(r) \/ WalkNext(r) \/ DeleteCheckMembers(r)
             \/ DeleteCheckChildren(r) \/ TreeFail(r)
      PROVE  Inv'
  <2>1. PICK w \in TreeRequestType :
          /\ TreeGoto(r, w) /\ TreeLocalsOf(w)
          /\ UNCHANGED <<row, parent, assigned, raced>>
    <3>1. CASE SetRead(r)
      <4>1. q.target \in Roles /\ q.role \in Roles \ Builtin
        BY <1>0, <3>1 DEF SetRead, TreeAt, TreeLocalsOf
      <4>2. FirstDepth \in 0..MaxRoleDepth
        BY DepthAssumption DEF FirstDepth
      <4>3. /\ Walked(q, q.target, FirstDepth) \in TreeRequestType
            /\ TreeLocalsOf(Walked(q, q.target, FirstDepth))
        BY <1>0, <4>1, <4>2, WalkedIsTyped
      <4>4. QED
        BY <3>1, <4>3, IdleIsTyped DEF SetRead
    <3>2. CASE WalkNext(r)
      <4>1. /\ q.target \in Roles /\ q.role \in Roles \ Builtin
            /\ q.up \in Roles /\ q.cur \in Roles
            /\ q.depth \in 0..MaxRoleDepth /\ q.depth < MaxRoleDepth
        BY <1>0, <3>2 DEF WalkNext, TreeAt, TreeLocalsOf, TreeRequestType
      <4>2. CASE Present(q.up)
        <5>1. q.depth + 1 \in 0..MaxRoleDepth
          BY <4>1, DepthAssumption
        <5>2. /\ Walked(q, q.up, q.depth + 1) \in TreeRequestType
              /\ TreeLocalsOf(Walked(q, q.up, q.depth + 1))
          BY <1>0, <4>1, <5>1, WalkedIsTyped
        <5>3. QED
          BY <3>2, <4>2, <5>2 DEF WalkNext
      <4>3. CASE ~Present(q.up)
        <5> DEFINE w == [q EXCEPT !.pc = "set_write"]
        <5>1. w \in TreeRequestType /\ TreeLocalsOf(w)
          BY <1>0, <4>1 DEF TreeRequestType, TreeLabels, TreeLocalsOf
        <5>2. QED
          BY <3>2, <4>3, <5>1 DEF WalkNext
      <4>4. QED
        BY <4>2, <4>3
    <3>3. CASE DeleteCheckMembers(r)
      <4> DEFINE w == [q EXCEPT !.pc = "del_children"]
      <4>1. w \in TreeRequestType /\ TreeLocalsOf(w)
        BY <1>0, <3>3
           DEF TreeRequestType, TreeLabels, TreeLocalsOf, DeleteCheckMembers, TreeAt
      <4>2. QED
        BY <3>3, <4>1, IdleIsTyped DEF DeleteCheckMembers
    <3>4. CASE DeleteCheckChildren(r)
      <4> DEFINE w == [q EXCEPT !.pc = "del_write"]
      <4>1. w \in TreeRequestType /\ TreeLocalsOf(w)
        BY <1>0, <3>4
           DEF TreeRequestType, TreeLabels, TreeLocalsOf, DeleteCheckChildren, TreeAt
      <4>2. QED
        BY <3>4, <4>1, IdleIsTyped DEF DeleteCheckChildren
    <3>5. CASE TreeFail(r)
      BY <3>5, IdleIsTyped DEF TreeFail
    <3>6. QED
      BY <1>2, <3>1, <3>2, <3>3, <3>4, <3>5
  <2>2. QED
    BY <2>1, RequestMoves
       DEF Inv, TreeTypeOK, BuiltinsPresent, ParentsExist, Present
<1>3. CASE SetWrite(r)
  <2>1. q.target \in Roles /\ q.role \in Roles \ Builtin
    BY <1>0, <1>3 DEF SetWrite, TreeAt, TreeLocalsOf
  <2>2. TreeGoto(r, TreeIdle) /\ UNCHANGED <<row, assigned>> /\ raced' \in BOOLEAN
    BY <1>3 DEF SetWrite, WriteBeside, Inv, TreeTypeOK
  <2>3. treeReq' \in [TreeRequests -> TreeRequestType] /\ TreeLocals'
    BY <2>2, IdleIsTyped, RequestMoves
  <2>4. \/ UNCHANGED parent
        \/ /\ Present(q.role) /\ Present(q.target)
           /\ parent' = [parent EXCEPT ![q.role] = q.target]
    BY <1>3 DEF SetWrite
  <2> HIDE DEF q
  <2>5. QED
    BY <2>1, <2>2, <2>3, <2>4
       DEF Inv, TreeTypeOK, BuiltinsPresent, ParentsExist, Present
<1>4. CASE DeleteWrite(r)
  <2> DEFINE x == q.role
  <2>1. x \in Roles \ Builtin
    BY <1>0, <1>4 DEF DeleteWrite, TreeAt, TreeLocalsOf
  <2>2. /\ TreeGoto(r, TreeIdle) /\ raced' \in BOOLEAN
        /\ row' = [row EXCEPT ![x] = "deleted"]
        /\ parent' = [y \in Roles |-> IF y = x \/ parent[y] = x THEN NoParent
                                      ELSE parent[y]]
        /\ assigned' = assigned \ {x}
    BY <1>4 DEF DeleteWrite, WriteBeside, Inv, TreeTypeOK
  <2>3. treeReq' \in [TreeRequests -> TreeRequestType] /\ TreeLocals'
    BY <2>2, IdleIsTyped, RequestMoves
  <2> HIDE DEF x, q
  <2>4. QED
    BY <2>1, <2>2, <2>3
       DEF Inv, TreeTypeOK, BuiltinsPresent, ParentsExist, Present
<1>5. QED
  BY <1>1, <1>2, <1>3, <1>4 DEF TreeContinue

LEMMA StepKeepsInv == Inv /\ [TreeNext]_treeVars => Inv'
<1> SUFFICES ASSUME Inv, [TreeNext]_treeVars
             PROVE  Inv'
  OBVIOUS
<1>1. CASE UNCHANGED treeVars
  BY <1>1 DEF treeVars, Inv, TreeTypeOK, TreeLocals, TreeLocalsOf, BuiltinsPresent,
              ParentsExist, Present
<1>2. QED
  BY <1>1, StartKeepsInv, ContinueKeepsInv, SimpleWritesKeepInv,
     AssignableAssumption DEF TreeNext

LEMMA InvHolds == TreeSpec => []Inv
<1>1. QED
  BY InitInv, StepKeepsInv, PTL DEF TreeSpec

(* Every column and every request's locals keep their types.               *)
THEOREM TypeCorrect == TreeSpec => []TreeTypeOK
<1>1. Inv => TreeTypeOK
  BY DEF Inv
<1>2. QED
  BY <1>1, InvHolds, PTL

(* However requests overlap, parent_role_id joins rows that exist and      *)
(* builtin roles are roots.                                                *)
THEOREM ParentsAlwaysExist == TreeSpec => []ParentsExist
<1>1. Inv => ParentsExist
  BY DEF Inv
<1>2. QED
  BY <1>1, InvHolds, PTL

-----------------------------------------------------------------------------
(* No cycle arises without a race.  The rows a request has walked are      *)
(* closed under parent up to the row read last, and do not hold the role   *)
(* being reparented; so when the walk ends, a cycle through the new edge   *)
(* would have to lie within them, and the old edges have none.             *)
IInv == Inv /\ Snapshots /\ AcyclicUnlessRaced

LEMMA NewEdgeKeepsAcyclic ==
  ASSUME TreeTypeOK, Acyclic, NEW x \in Roles, NEW p \in Roles,
         NEW W \in SUBSET Roles, x \notin W, p \in W,
         \A y \in W : parent[y] \in W \cup {NoParent},
         parent' = [parent EXCEPT ![x] = p]
  PROVE  Acyclic'
<1> SUFFICES ASSUME NEW S \in SUBSET Roles, \A y \in S : parent'[y] \in S
             PROVE  S = {}
  BY DEF Acyclic
<1>1. \A y \in Roles : y # x => parent'[y] = parent[y]
  BY DEF TreeTypeOK
<1>2. CASE x \notin S
  BY <1>1, <1>2 DEF Acyclic
<1>3. CASE x \in S
  <2>1. p \in S
    BY <1>3 DEF TreeTypeOK
  <2>2. \A y \in S \cap W : parent[y] \in S \cap W
    BY <1>1, NoneAssumption
  <2>3. S \cap W = {}
    BY <2>2 DEF Acyclic
  <2>4. QED
    BY <2>1, <2>3
<1>4. QED
  BY <1>2, <1>3

(* Taking edges away creates no cycle.                                     *)
LEMMA FewerEdgesKeepAcyclic ==
  ASSUME Acyclic, \A y \in Roles : parent'[y] \in {parent[y], NoParent}
  PROVE  Acyclic'
<1> SUFFICES ASSUME NEW S \in SUBSET Roles, \A y \in S : parent'[y] \in S
             PROVE  S = {}
  BY DEF Acyclic
<1>1. \A y \in S : parent[y] \in S
  BY NoneAssumption
<1>2. QED
  BY <1>1 DEF Acyclic

LEMMA WalkedKeepsSnapshot ==
  ASSUME Inv, NEW q \in TreeRequestType, NEW c \in Roles, NEW d \in Nat,
         NEW W \in SUBSET Roles, q.role \notin W, q.target \in W \cup {c},
         \A y \in W : parent[y] \in W \cup {c},
         IsFiniteSet(W), Cardinality(W) + 1 < d
  PROVE  SnapshotOf(Walked(q, c, d))
<1> DEFINE w == Walked(q, c, d)
<1>1. CASE c = q.role \/ (parent[c] # NoParent /\ TooDeep(d + 1))
  BY <1>1, IdleIsTyped DEF Walked
<1>2. CASE c # q.role /\ (parent[c] = NoParent \/ ~TooDeep(d + 1))
  <2>1. /\ w.pc = IF parent[c] = NoParent THEN "set_write" ELSE "walk"
        /\ w.role = q.role /\ w.target = q.target
        /\ w.cur = c /\ w.up = parent[c] /\ w.depth = d
    BY <1>2 DEF Walked, TreeRequestType
  <2> HIDE DEF w
  <2>2. WalkedRows(w, W \cup {c})
    <3>1. Cardinality(W) \in Nat
      BY FS_CardinalityType
    <3>2. /\ IsFiniteSet(W \cup {c})
          /\ Cardinality(W \cup {c}) = Cardinality(W) \/ Cardinality(W \cup {c}) = Cardinality(W) + 1
      BY FS_AddElement
    <3>3. Cardinality(W \cup {c}) < d
      BY <3>1, <3>2
    <3>4. QED
      BY <1>2, <2>1, <3>2, <3>3 DEF WalkedRows
  <2>3. SnapshotOf(w)
    BY <2>1, <2>2 DEF SnapshotOf
  <2>4. QED
    BY <2>3 DEF w
<1>3. QED
  BY <1>1, <1>2

(* A step that only reads disturbs no other request's snapshot.            *)
LEMMA ReadsKeepSnapshots ==
  ASSUME TreeTypeOK, Snapshots, NEW r \in TreeRequests, NEW q \in TreeRequestType,
         TreeGoto(r, q), UNCHANGED <<row, parent, assigned, raced>>,
         ~raced => SnapshotOf(q)
  PROVE  Snapshots'
<1> SUFFICES ASSUME ~raced', NEW s \in TreeRequests
             PROVE  SnapshotOf(treeReq[s])'
  BY DEF Snapshots
<1>1. CASE s = r
  <2>1. treeReq'[s] = q
    BY <1>1 DEF TreeGoto, TreeTypeOK
  <2>2. QED
    BY <2>1 DEF SnapshotOf, WalkedRows, Children, Present
<1>2. CASE s # r
  <2>1. treeReq'[s] = treeReq[s]
    BY <1>2 DEF TreeGoto, TreeTypeOK
  <2>2. QED
    BY <2>1 DEF Snapshots, SnapshotOf, WalkedRows, Children, Present
<1>3. QED
  BY <1>1, <1>2

(* A write either races or finds every other request idle.                 *)
LEMMA WritesKeepSnapshots ==
  ASSUME NEW S, WriteBeside(S),
         \A s \in TreeRequests \ S : treeReq'[s] = treeReq[s],
         \A s \in TreeRequests \cap S : treeReq'[s].pc \in {"idle", "set_read"}
  PROVE  Snapshots'
BY DEF WriteBeside, Snapshots, SnapshotOf, TreeAt

LEMMA StepKeepsIInv == IInv /\ [TreeNext]_treeVars => IInv'
<1> SUFFICES ASSUME IInv, [TreeNext]_treeVars
             PROVE  Snapshots' /\ AcyclicUnlessRaced'
  BY StepKeepsInv DEF IInv
<1> USE DEF IInv
<1>0. TreeTypeOK /\ Inv /\ Snapshots /\ (~raced => Acyclic)
  BY DEF Inv, AcyclicUnlessRaced
<1>1. ASSUME NEW x \in Roles,
             \/ CreateRole(x) \/ ClearParent(x) \/ Assign(x) \/ Unassign(x)
      PROVE  Snapshots' /\ AcyclicUnlessRaced'
  <2>1. WriteBeside({}) /\ UNCHANGED treeReq
    BY <1>1 DEF CreateRole, ClearParent, Assign, Unassign
  <2>2. Snapshots'
    BY <2>1, WritesKeepSnapshots
  <2>3. \A y \in Roles : parent'[y] \in {parent[y], NoParent}
    BY <1>0, <1>1 DEF CreateRole, ClearParent, Assign, Unassign, TreeTypeOK
  <2>4. ~raced' => ~raced
    BY <2>1 DEF WriteBeside
  <2>5. QED
    BY <1>0, <2>2, <2>3, <2>4, FewerEdgesKeepAcyclic DEF AcyclicUnlessRaced
<1>2. ASSUME NEW r \in TreeRequests, TreeStart(r)
      PROVE  Snapshots' /\ AcyclicUnlessRaced'
  <2>1. UNCHANGED <<row, parent, assigned, raced>>
    BY <1>2 DEF TreeStart, CreateRead, SetStart, DeleteStart
  <2>2. PICK q \in TreeRequestType :
          TreeGoto(r, q) /\ q.pc \in {"create", "set_read", "del_members"}
    <3>1. ASSUME NEW p \in Roles, CreateRead(r, p)
          PROVE  \E q \in TreeRequestType :
                   TreeGoto(r, q) /\ q.pc \in {"create", "set_read", "del_members"}
      <4> DEFINE q == [TreeIdle EXCEPT !.pc = "create", !.target = p]
      <4>1. q \in TreeRequestType /\ q.pc = "create"
        BY IdleIsTyped DEF TreeIdle, TreeRequestType, TreeLabels
      <4>2. QED
        BY <3>1, <4>1 DEF CreateRead
    <3>2. ASSUME NEW x \in Roles, NEW p \in Roles, SetStart(r, x, p)
          PROVE  \E q \in TreeRequestType :
                   TreeGoto(r, q) /\ q.pc \in {"create", "set_read", "del_members"}
      <4> DEFINE q == [TreeIdle EXCEPT !.pc = "set_read", !.role = x, !.target = p]
      <4>1. q \in TreeRequestType /\ q.pc = "set_read"
        BY IdleIsTyped DEF TreeIdle, TreeRequestType, TreeLabels
      <4>2. QED
        BY <3>2, <4>1 DEF SetStart
    <3>3. ASSUME NEW x \in Roles, DeleteStart(r, x)
          PROVE  \E q \in TreeRequestType :
                   TreeGoto(r, q) /\ q.pc \in {"create", "set_read", "del_members"}
      <4> DEFINE q == [TreeIdle EXCEPT !.pc = "del_members", !.role = x]
      <4>1. q \in TreeRequestType /\ q.pc = "del_members"
        BY IdleIsTyped DEF TreeIdle, TreeRequestType, TreeLabels
      <4>2. QED
        BY <3>3, <4>1 DEF DeleteStart
    <3>4. QED
      BY <1>2, <3>1, <3>2, <3>3 DEF TreeStart
  <2>3. SnapshotOf(q)
    BY <2>2 DEF SnapshotOf
  <2>4. Snapshots'
    BY <1>0, <2>1, <2>2, <2>3, ReadsKeepSnapshots
  <2>5. QED
    BY <1>0, <2>1, <2>4 DEF AcyclicUnlessRaced, Acyclic
<1>3. ASSUME NEW r \in TreeRequests, TreeContinue(r)
      PROVE  Snapshots' /\ AcyclicUnlessRaced'
  <2> DEFINE q == treeReq[r]
  <2>0. q \in TreeRequestType /\ TreeLocalsOf(q) /\ (~raced => SnapshotOf(q))
    BY <1>0 DEF Inv, TreeTypeOK, TreeLocals, Snapshots
  <2>1. ASSUME NEW x \in Roles, CreateInsert(r, x)
        PROVE  Snapshots' /\ AcyclicUnlessRaced'
    <3> DEFINE w == [q EXCEPT !.pc = "set_read", !.role = x]
    <3>1. /\ TreeGoto(r, w) /\ w.pc = "set_read"
          /\ WriteBeside({r}) /\ UNCHANGED parent
      BY <2>0, <2>1 DEF CreateInsert, TreeRequestType
    <3>2. Snapshots'
      BY <1>0, <3>1, WritesKeepSnapshots DEF TreeGoto, TreeTypeOK
    <3>3. QED
      BY <1>0, <3>1, <3>2 DEF AcyclicUnlessRaced, Acyclic, WriteBeside
  <2>2. ASSUME NEW w \in TreeRequestType, TreeGoto(r, w),
               UNCHANGED <<row, parent, assigned, raced>>,
               ~raced => SnapshotOf(w)
        PROVE  Snapshots' /\ AcyclicUnlessRaced'
    <3>1. Snapshots'
      BY <1>0, <2>2, ReadsKeepSnapshots
    <3>2. QED
      BY <1>0, <2>2, <3>1 DEF AcyclicUnlessRaced, Acyclic
  <2>3. CASE SetRead(r)
    <3>1. q.target \in Roles /\ q.role \in Roles \ Builtin
      BY <2>0, <2>3 DEF SetRead, TreeAt, TreeLocalsOf
    <3>2. FirstDepth \in 0..MaxRoleDepth
      BY DepthAssumption DEF FirstDepth
    <3> DEFINE w == IF Present(q.target)
                    THEN Walked(q, q.target, FirstDepth) ELSE TreeIdle
    <3>3. w \in TreeRequestType
      BY <1>0, <2>0, <3>1, <3>2, WalkedIsTyped, IdleIsTyped
    <3>4. SnapshotOf(Walked(q, q.target, FirstDepth))
      <4> DEFINE W == {}
      <4>1. /\ W \in SUBSET Roles /\ q.role \notin W
            /\ q.target \in W \cup {q.target}
            /\ \A y \in W : parent[y] \in W \cup {q.target}
        OBVIOUS
      <4>2. FirstDepth \in Nat /\ IsFiniteSet(W) /\ Cardinality(W) + 1 < FirstDepth
        <5>1. IsFiniteSet(W) /\ Cardinality(W) = 0
          BY FS_EmptySet
        <5>2. QED
          BY <5>1 DEF FirstDepth
      <4> HIDE DEF W, q
      <4>3. QED
        BY <1>0, <2>0, <3>1, <4>1, <4>2, WalkedKeepsSnapshot
    <3>5. TreeGoto(r, w) /\ UNCHANGED <<row, parent, assigned, raced>>
      BY <2>3 DEF SetRead
    <3>6. SnapshotOf(w)
      BY <3>4, IdleIsTyped
    <3> HIDE DEF w
    <3>7. QED
      BY <2>2, <3>3, <3>5, <3>6
  <2>4. CASE WalkNext(r)
    <3>1. /\ q.target \in Roles /\ q.role \in Roles \ Builtin
          /\ q.up \in Roles /\ q.cur \in Roles
          /\ q.depth \in 0..MaxRoleDepth /\ q.depth + 1 \in 0..MaxRoleDepth
          /\ q.pc = "walk"
      BY <2>0, <2>4, DepthAssumption
         DEF WalkNext, TreeAt, TreeLocalsOf, TreeRequestType
    <3> DEFINE w == IF Present(q.up)
                    THEN Walked(q, q.up, q.depth + 1)
                    ELSE [q EXCEPT !.pc = "set_write"]
    <3>2. w \in TreeRequestType
      <4>1. Walked(q, q.up, q.depth + 1) \in TreeRequestType
        BY <1>0, <2>0, <3>1, WalkedIsTyped
      <4>2. [q EXCEPT !.pc = "set_write"] \in TreeRequestType
        BY <2>0 DEF TreeRequestType, TreeLabels
      <4>3. QED
        BY <4>1, <4>2
    <3>3. TreeGoto(r, w) /\ UNCHANGED <<row, parent, assigned, raced>>
      BY <2>4 DEF WalkNext
    <3>4. ASSUME ~raced PROVE SnapshotOf(w)
      <4>1. parent[q.cur] = q.up
        BY <2>0, <3>1, <3>4 DEF SnapshotOf
      <4>2. Present(q.up)
        BY <1>0, <3>1, <4>1, NoneAssumption DEF Inv, ParentsExist
      <4>3. PICK W \in SUBSET Roles : WalkedRows(q, W)
        BY <2>0, <3>1, <3>4 DEF SnapshotOf
      <4>4. /\ q.role \notin W /\ q.target \in W \cup {q.up}
            /\ \A y \in W : parent[y] \in W \cup {q.up}
            /\ IsFiniteSet(W) /\ Cardinality(W) + 1 < q.depth + 1
        <5>1. IsFiniteSet(W) /\ Cardinality(W) \in Nat /\ Cardinality(W) < q.depth
          BY <4>3, FS_CardinalityType DEF WalkedRows
        <5>2. QED
          BY <3>1, <4>1, <4>3, <5>1 DEF WalkedRows
      <4>5. SnapshotOf(Walked(q, q.up, q.depth + 1))
        BY <1>0, <2>0, <3>1, <4>4, WalkedKeepsSnapshot
      <4>6. QED
        BY <4>2, <4>5
    <3> HIDE DEF w
    <3>5. QED
      BY <2>2, <3>2, <3>3, <3>4
  <2>5. CASE SetWrite(r)
    <3>1. /\ q.target \in Roles /\ q.role \in Roles \ Builtin
          /\ q.pc = "set_write"
      BY <2>0, <2>5 DEF SetWrite, TreeAt, TreeLocalsOf
    <3>2. TreeGoto(r, TreeIdle)
      BY <2>5 DEF SetWrite
    <3>3. CASE UNCHANGED <<parent, raced>>
      BY <2>2, <2>5, <3>2, <3>3, IdleIsTyped DEF SetWrite
    <3>4. CASE /\ parent' = [parent EXCEPT ![q.role] = q.target]
               /\ WriteBeside({r})
      <4>1. Snapshots'
        BY <1>0, <3>2, <3>4, IdleIsTyped, WritesKeepSnapshots
           DEF TreeGoto, TreeTypeOK
      <4>2. ASSUME ~raced' PROVE Acyclic'
        <5>1. ~raced
          BY <3>4, <4>2 DEF WriteBeside
        <5>2. PICK W \in SUBSET Roles : WalkedRows(q, W)
          BY <2>0, <3>1, <5>1 DEF SnapshotOf
        <5>3. parent[q.cur] = NoParent
          BY <2>0, <3>1, <5>1 DEF SnapshotOf
        <5>4. /\ q.role \notin W /\ q.target \in W
              /\ \A y \in W : parent[y] \in W \cup {NoParent}
          BY <5>2, <5>3 DEF WalkedRows
        <5>5. QED
          BY <1>0, <3>1, <3>4, <5>1, <5>4, NewEdgeKeepsAcyclic
      <4>3. QED
        BY <4>1, <4>2 DEF AcyclicUnlessRaced
    <3>5. QED
      BY <2>5, <3>3, <3>4 DEF SetWrite
  <2>6. CASE DeleteCheckMembers(r)
    <3> DEFINE w == IF q.role \in assigned THEN TreeIdle
                    ELSE [q EXCEPT !.pc = "del_children"]
    <3>1. TreeGoto(r, w) /\ UNCHANGED <<row, parent, assigned, raced>>
      BY <2>6 DEF DeleteCheckMembers
    <3>2. w \in TreeRequestType /\ SnapshotOf(w)
      BY <2>0, IdleIsTyped DEF TreeRequestType, TreeLabels, SnapshotOf
    <3> HIDE DEF w
    <3>3. QED
      BY <2>2, <3>1, <3>2
  <2>7. CASE DeleteCheckChildren(r)
    <3> DEFINE w == IF Children(q.role) # {} THEN TreeIdle
                    ELSE [q EXCEPT !.pc = "del_write"]
    <3>1. /\ TreeGoto(r, w) /\ UNCHANGED <<row, parent, assigned, raced>>
          /\ q.pc = "del_children"
      BY <2>7 DEF DeleteCheckChildren, TreeAt
    <3>2. w \in TreeRequestType
      BY <2>0, IdleIsTyped DEF TreeRequestType, TreeLabels
    <3>3. ~raced => SnapshotOf(w)
      BY <2>0, <3>1, IdleIsTyped DEF TreeRequestType, SnapshotOf
    <3> HIDE DEF w
    <3>4. QED
      BY <2>2, <3>1, <3>2, <3>3
  <2>8. CASE DeleteWrite(r)
    <3>1. TreeGoto(r, TreeIdle) /\ WriteBeside({r})
      BY <2>8 DEF DeleteWrite
    <3>2. \A y \in Roles : parent'[y] \in {parent[y], NoParent}
      BY <2>8 DEF DeleteWrite
    <3>3. Snapshots'
      BY <1>0, <3>1, IdleIsTyped, WritesKeepSnapshots DEF TreeGoto, TreeTypeOK
    <3>4. QED
      BY <1>0, <3>1, <3>2, <3>3, FewerEdgesKeepAcyclic
         DEF AcyclicUnlessRaced, WriteBeside
  <2>9. CASE TreeFail(r)
    BY <2>2, <2>9, IdleIsTyped DEF TreeFail
  <2>10. QED
    BY <1>3, <2>1, <2>3, <2>4, <2>5, <2>6, <2>7, <2>8, <2>9 DEF TreeContinue
<1>4. CASE UNCHANGED treeVars
  BY <1>0, <1>4 DEF treeVars, Snapshots, SnapshotOf, WalkedRows, Children,
                    Present, AcyclicUnlessRaced, Acyclic
<1>5. QED
  BY <1>1, <1>2, <1>3, <1>4, AssignableAssumption DEF TreeNext

LEMMA IInvHolds == TreeSpec => []IInv
<1>1. TreeInit => IInv
  <2> SUFFICES ASSUME TreeInit PROVE Snapshots /\ Acyclic
    BY InitInv DEF IInv, AcyclicUnlessRaced
  <2>1. Snapshots
    BY IdleIsTyped DEF TreeInit, Snapshots
  <2>2. Acyclic
    BY NoneAssumption DEF TreeInit, Acyclic
  <2>3. QED
    BY <2>1, <2>2
<1>2. QED
  BY <1>1, StepKeepsIInv, PTL DEF TreeSpec

(* As long as no write falls into another request, the walk of             *)
(* SetRoleParent keeps the role tree free of cycles.                       *)
THEOREM NoCycleWithoutRace == TreeSpec => []AcyclicUnlessRaced
<1>1. IInv => AcyclicUnlessRaced
  BY DEF IInv
<1>2. QED
  BY <1>1, IInvHolds, PTL

(* And the two checks before a deletion still hold when it happens.        *)
LEMMA DeletionStep ==
  IInv /\ [TreeNext]_treeVars =>
    \A x \in Roles :
      Present(x) /\ ~Present(x)' /\ ~raced'
      => Children(x) = {} /\ x \notin assigned
<1> SUFFICES ASSUME IInv, [TreeNext]_treeVars, NEW x \in Roles,
                    Present(x), ~Present(x)', ~raced'
             PROVE  Children(x) = {} /\ x \notin assigned
  OBVIOUS
<1>0. TreeTypeOK
  BY DEF IInv, Inv
<1>1. PICK r \in TreeRequests : DeleteWrite(r)
  BY <1>0, AssignableAssumption
     DEF TreeNext, treeVars, Present, TreeTypeOK, CreateRole, Insert, ClearParent, Assign,
         Unassign, TreeStart, CreateRead, SetStart, DeleteStart, TreeContinue,
         CreateInsert, SetRead, WalkNext, SetWrite, DeleteCheckMembers,
         DeleteCheckChildren, TreeFail
<1>2. x = treeReq[r].role /\ ~raced
  BY <1>0, <1>1 DEF DeleteWrite, Present, TreeTypeOK, WriteBeside
<1>3. SnapshotOf(treeReq[r]) /\ treeReq[r].pc = "del_write"
  BY <1>1, <1>2 DEF IInv, Snapshots, DeleteWrite, TreeAt
<1>4. QED
  BY <1>2, <1>3 DEF SnapshotOf

(* Without a race a deletion orphans no child and no identity.             *)
THEOREM NothingOrphaned == TreeSpec => DeletionOrphansNobody
<1>1. QED
  BY DeletionStep, IInvHolds, PTL DEF TreeSpec, DeletionOrphansNobody

-----------------------------------------------------------------------------
(* The walk counts what it walks: the role and the rows up to the root are *)
(* a closed set that the new lineage cannot leave.                         *)
LEMMA NewLineageIsCounted ==
  ASSUME TreeTypeOK, NEW x \in Roles, NEW p \in Roles, NEW W \in SUBSET Roles,
         IsFiniteSet(W), x \notin W, p \in W,
         \A y \in W : parent[y] \in W \cup {NoParent},
         parent' = [parent EXCEPT ![x] = p]
  PROVE  /\ IsFiniteSet(Lineage(x)')
         /\ Depth(x)' \in Nat /\ Depth(x)' <= Cardinality(W) + 1
<1> DEFINE L == W \cup {x}
<1>1. IsFiniteSet(L) /\ Cardinality(L) = Cardinality(W) + 1
  BY FS_AddElement
<1>2. UpwardClosed(L)'
  BY DEF UpwardClosed, TreeTypeOK
<1>3. Lineage(x)' \subseteq L
  BY <1>2 DEF Lineage
<1> HIDE DEF L
<1>4. /\ IsFiniteSet(Lineage(x)')
      /\ Cardinality(Lineage(x)') \in Nat /\ Cardinality(Lineage(x)') <= Cardinality(L)
  BY <1>1, <1>3, FS_Subset, FS_CardinalityType
<1>5. QED
  BY <1>1, <1>4 DEF Depth

(* Only the write of SetRoleParent gives a role a parent.                  *)
LEMMA GivenParentStep ==
  IInv /\ [TreeNext]_treeVars =>
    \A x \in Roles :
      parent'[x] \notin {NoParent, parent[x]} /\ ~raced'
      => IsFiniteSet(Lineage(x)') /\ Depth(x)' <= MaxRoleDepth
<1> SUFFICES ASSUME IInv, [TreeNext]_treeVars, NEW x \in Roles,
                    parent'[x] \notin {NoParent, parent[x]}, ~raced'
             PROVE  IsFiniteSet(Lineage(x)') /\ Depth(x)' <= MaxRoleDepth
  OBVIOUS
<1>0. TreeTypeOK
  BY DEF IInv, Inv
<1>1. PICK r \in TreeRequests : SetWrite(r)
  BY <1>0, AssignableAssumption
     DEF TreeNext, treeVars, TreeTypeOK, CreateRole, ClearParent, Assign,
         Unassign, TreeStart, CreateRead, SetStart, DeleteStart, TreeContinue,
         CreateInsert, SetRead, WalkNext, DeleteWrite, DeleteCheckMembers,
         DeleteCheckChildren, TreeFail
<1> DEFINE q == treeReq[r]
<1>2. /\ q \in TreeRequestType /\ q.pc = "set_write" /\ TreeLocalsOf(q)
      /\ x = q.role /\ parent' = [parent EXCEPT ![x] = q.target] /\ ~raced
  BY <1>0, <1>1 DEF IInv, Inv, TreeLocals, SetWrite, TreeAt, TreeTypeOK, WriteBeside
<1> HIDE DEF q
<1>3. SnapshotOf(q)
  BY <1>2 DEF IInv, Snapshots, q
<1>4. PICK W \in SUBSET Roles : WalkedRows(q, W)
  BY <1>2, <1>3 DEF SnapshotOf
<1>5. /\ q.target \in Roles /\ q.depth \in 0..MaxRoleDepth /\ parent[q.cur] = NoParent
  BY <1>2, <1>3 DEF SnapshotOf, TreeLocalsOf, TreeRequestType
<1>6. /\ IsFiniteSet(W) /\ x \notin W /\ q.target \in W
      /\ \A y \in W : parent[y] \in W \cup {NoParent}
  BY <1>2, <1>4, <1>5 DEF WalkedRows
<1>7. IsFiniteSet(Lineage(x)') /\ Depth(x)' \in Nat /\ Depth(x)' <= Cardinality(W) + 1
  BY <1>0, <1>2, <1>5, <1>6, NewLineageIsCounted
<1>8. Cardinality(W) \in Nat /\ Cardinality(W) < q.depth
  BY <1>4, <1>6, FS_CardinalityType DEF WalkedRows
<1>9. QED
  BY <1>5, <1>7, <1>8, DepthAssumption

(* Without a race a role that is given a parent ends up within             *)
(* MaxRoleDepth, counted with all its ancestors; for any depth.            *)
THEOREM GivenParentsWithinDepth == TreeSpec => GivenParentWithinDepth
<1>1. IInv /\ [TreeNext]_treeVars =>
        \A x \in Roles :
          parent'[x] \notin {NoParent, parent[x]} /\ ~raced'
          => Depth(x)' <= MaxRoleDepth
  BY GivenParentStep
<1>2. QED
  BY <1>1, IInvHolds, PTL DEF TreeSpec, GivenParentWithinDepth

-----------------------------------------------------------------------------
(* Why a chain gets too long.  ChainsWithinDepth is violated without any   *)
(* race: SetRoleParent counts the ancestors of the role it moves and not   *)
(* the descendants that move with it.  Nothing else does it: as long as    *)
(* only roles without children are given a parent, no chain is longer than *)
(* ResolveRoleMatrix walks, unless a write falls into another request.     *)
OnlyLeavesMove ==
  \A x \in Roles : parent'[x] \notin {NoParent, parent[x]} => Children(x) = {}

WithinDepth ==
  ~raced => \A x \in Roles : IsFiniteSet(Lineage(x)) /\ Depth(x) <= MaxRoleDepth

(* Taking edges away makes no lineage longer.                              *)
LEMMA FewerEdgesShorten ==
  ASSUME NEW x \in Roles, \A y \in Roles : parent'[y] \in {parent[y], NoParent}
  PROVE  Lineage(x)' \subseteq Lineage(x)
<1>1. \A S \in SUBSET Roles : UpwardClosed(S) => UpwardClosed(S)'
  BY DEF UpwardClosed
<1>2. QED
  BY <1>1 DEF Lineage

(* Giving a childless role a parent lengthens no lineage but its own.      *)
LEMMA LeavesLengthenOnlyThemselves ==
  ASSUME NEW x \in Roles, NEW y \in Roles, y # x,
         \A z \in Roles : parent[z] # x,
         \A z \in Roles \ {x} : parent'[z] = parent[z]
  PROVE  Lineage(y)' \subseteq Lineage(y)
<1> SUFFICES ASSUME NEW z \in Lineage(y)', NEW S \in SUBSET Roles,
                    y \in S, UpwardClosed(S)
             PROVE  z \in S
  BY DEF Lineage
<1>1. UpwardClosed(S \ {x})'
  BY DEF UpwardClosed
<1>2. z \in S \ {x}
  BY <1>1 DEF Lineage
<1>3. QED
  BY <1>2

LEMMA StepKeepsWithinDepth ==
  ASSUME IInv, WithinDepth, [TreeNext]_treeVars, OnlyLeavesMove
  PROVE  WithinDepth'
<1> SUFFICES ASSUME ~raced', NEW x \in Roles
             PROVE  IsFiniteSet(Lineage(x)') /\ Depth(x)' <= MaxRoleDepth
  BY DEF WithinDepth
<1>0. TreeTypeOK /\ ParentsExist
  BY DEF IInv, Inv
<1>1. ~raced
  BY <1>0, AssignableAssumption
     DEF TreeNext, treeVars, TreeTypeOK, WriteBeside, CreateRole, ClearParent, Assign,
         Unassign, TreeStart, CreateRead, SetStart, DeleteStart, TreeContinue,
         CreateInsert, SetRead, WalkNext, SetWrite, DeleteWrite, DeleteCheckMembers,
         DeleteCheckChildren, TreeFail
<1>2. IsFiniteSet(Lineage(x)) /\ Cardinality(Lineage(x)) <= MaxRoleDepth
  BY <1>1 DEF WithinDepth, Depth
<1>3. ASSUME Lineage(x)' \subseteq Lineage(x)
      PROVE  IsFiniteSet(Lineage(x)') /\ Depth(x)' <= MaxRoleDepth
  <2>1. /\ IsFiniteSet(Lineage(x)')
        /\ Cardinality(Lineage(x)') <= Cardinality(Lineage(x))
        /\ Cardinality(Lineage(x)') \in Nat /\ Cardinality(Lineage(x)) \in Nat
    BY <1>2, <1>3, FS_Subset, FS_CardinalityType
  <2>2. QED
    BY <1>2, <2>1, DepthAssumption DEF Depth
<1>4. CASE \A y \in Roles : parent'[y] \in {parent[y], NoParent}
  BY <1>3, <1>4, FewerEdgesShorten
<1>5. ASSUME NEW y \in Roles, parent'[y] \notin {parent[y], NoParent}
      PROVE  IsFiniteSet(Lineage(x)') /\ Depth(x)' <= MaxRoleDepth
  <2>1. CASE y = x
    BY <1>5, <2>1, GivenParentStep
  <2>2. CASE y # x
    <3>1. \A z \in Roles : parent[z] # y
      BY <1>0, <1>5, NoneAssumption DEF OnlyLeavesMove, Children, ParentsExist
    <3>2. PICK r \in TreeRequests : SetWrite(r)
      BY <1>0, <1>5, AssignableAssumption
         DEF TreeNext, treeVars, TreeTypeOK, CreateRole, ClearParent, Assign,
             Unassign, TreeStart, CreateRead, SetStart, DeleteStart, TreeContinue,
             CreateInsert, SetRead, WalkNext, DeleteWrite, DeleteCheckMembers,
             DeleteCheckChildren, TreeFail
    <3>3. \A z \in Roles \ {y} : parent'[z] = parent[z]
      BY <1>0, <1>5, <3>2 DEF SetWrite, TreeTypeOK
    <3>4. QED
      BY <1>3, <2>2, <3>1, <3>3, LeavesLengthenOnlyThemselves
  <2>3. QED
    BY <2>1, <2>2
<1>6. QED
  BY <1>4, <1>5

(* Without a race and as long as only childless roles are given a parent,  *)
(* every chain is within MaxRoleDepth.                                     *)
THEOREM OnlyFamiliesExceedDepth ==
  TreeSpec /\ [][OnlyLeavesMove]_treeVars => []ChainsWithinDepth
<1>1. TreeInit => WithinDepth
  <2> SUFFICES ASSUME TreeInit, NEW x \in Roles
               PROVE  IsFiniteSet(Lineage(x)) /\ Depth(x) <= MaxRoleDepth
    BY DEF WithinDepth
  <2>1. UpwardClosed({x})
    BY DEF TreeInit, UpwardClosed
  <2>2. Lineage(x) \subseteq {x}
    BY <2>1 DEF Lineage
  <2>3. IsFiniteSet({x}) /\ Cardinality({x}) = 1
    BY FS_Singleton
  <2>4. /\ IsFiniteSet(Lineage(x)) /\ Cardinality(Lineage(x)) \in Nat
        /\ Cardinality(Lineage(x)) <= 1
    BY <2>2, <2>3, FS_Subset, FS_CardinalityType
  <2>5. QED
    BY <2>4, DepthAssumption DEF Depth
<1>2. UNCHANGED treeVars => OnlyLeavesMove
  BY DEF treeVars, OnlyLeavesMove
<1>3. IInv /\ WithinDepth /\ [TreeNext]_treeVars /\ [OnlyLeavesMove]_treeVars
      => WithinDepth'
  BY <1>2, StepKeepsWithinDepth
<1>4. WithinDepth => ChainsWithinDepth
  BY DEF WithinDepth, ChainsWithinDepth
<1>5. QED
  BY <1>1, <1>3, <1>4, IInvHolds, PTL DEF TreeSpec

-----------------------------------------------------------------------------
(* How long a request takes.  That it ends is left to TLC, which has the   *)
(* fairness for it; that it cannot go on is a matter of counting: every    *)
(* statement leaves fewer for its request, whatever the others have done   *)
(* to the tree in between.                                                 *)
StatementsLeft(q) ==
  CASE q.pc = "create" -> MaxRoleDepth + 1
    [] q.pc = "set_read" -> MaxRoleDepth
    [] q.pc = "walk" -> MaxRoleDepth - q.depth + 1
    [] q.pc = "del_members" -> 3
    [] q.pc = "del_children" -> 2
    [] q.pc \in {"set_write", "del_write"} -> 1
    [] q.pc = "idle" -> 0

(* The walk reads a row below MaxRoleDepth, goes on to the write, or gives *)
(* up.                                                                     *)
LEMMA WalkedLeavesLess ==
  ASSUME NEW q \in TreeRequestType, NEW c \in Roles, NEW d \in 0..MaxRoleDepth,
         NEW n \in Nat, n > 1, n > MaxRoleDepth - d + 1
  PROVE  StatementsLeft(Walked(q, c, d)) \in 0 .. n - 1
<1>0. MaxRoleDepth \in Nat
  BY DepthAssumption
<1>1. StatementsLeft(TreeIdle) = 0
  BY DEF StatementsLeft, TreeIdle
<1> DEFINE w == [q EXCEPT !.pc = "set_write", !.cur = c, !.up = parent[c], !.depth = d]
           g == [q EXCEPT !.pc = "walk", !.cur = c, !.up = parent[c], !.depth = d]
<1>2. w.pc = "set_write" /\ g.pc = "walk" /\ g.depth = d
  BY DEF TreeRequestType
<1>3. StatementsLeft(w) = 1 /\ StatementsLeft(g) = MaxRoleDepth - d + 1
  BY <1>2 DEF StatementsLeft
<1>4. Walked(q, c, d) \in {TreeIdle, w, g}
  BY DEF Walked
<1> HIDE DEF w, g
<1>5. QED
  BY <1>0, <1>1, <1>3, <1>4

LEMMA ContinueLeavesLess ==
  ASSUME Inv, NEW r \in TreeRequests, TreeContinue(r)
  PROVE  /\ StatementsLeft(treeReq[r]) \in 1 .. MaxRoleDepth + 2
         /\ StatementsLeft(treeReq'[r]) \in 0 .. StatementsLeft(treeReq[r]) - 1
<1> DEFINE q == treeReq[r]
           n == StatementsLeft(q)
           Less == n \in 1 .. MaxRoleDepth + 2 /\ StatementsLeft(treeReq'[r]) \in 0 .. n - 1
<1> SUFFICES Less
  OBVIOUS
<1>0. /\ MaxRoleDepth \in Nat /\ MaxRoleDepth >= 2
      /\ treeReq \in [TreeRequests -> TreeRequestType]
      /\ q \in TreeRequestType /\ TreeLocalsOf(q)
  BY DepthAssumption DEF Inv, TreeTypeOK, TreeLocals
<1>1. TreeIdle.pc = "idle" /\ StatementsLeft(TreeIdle) = 0
  BY DEF StatementsLeft, TreeIdle
<1> HIDE DEF q
<1>2. ASSUME NEW x \in Roles, CreateInsert(r, x) PROVE Less
  <2>1. q.pc = "create" /\ treeReq'[r].pc = "set_read"
    BY <1>0, <1>2 DEF CreateInsert, TreeAt, TreeGoto, TreeRequestType, q
  <2>2. QED
    BY <1>0, <2>1 DEF StatementsLeft
<1>3. CASE SetRead(r)
  <2>1. q.pc = "set_read" /\ n = MaxRoleDepth
    BY <1>3 DEF SetRead, TreeAt, StatementsLeft, q
  <2>2. treeReq'[r] \in {Walked(q, q.target, 2), TreeIdle}
    BY <1>0, <1>3 DEF SetRead, TreeGoto, FirstDepth, q
  <2>3. q.target \in Roles
    BY <1>0, <2>1 DEF TreeLocalsOf
  <2>4. StatementsLeft(Walked(q, q.target, 2)) \in 0 .. n - 1
    BY <1>0, <2>1, <2>3, WalkedLeavesLess
  <2>5. QED
    BY <1>0, <1>1, <2>1, <2>2, <2>4
<1>4. CASE WalkNext(r)
  <2>1. q.pc = "walk" /\ q.depth \in Nat /\ q.depth < MaxRoleDepth /\ q.up \in Roles
    BY <1>0, <1>4 DEF WalkNext, TreeAt, TreeLocalsOf, TreeRequestType, q
  <2>2. n = MaxRoleDepth - q.depth + 1 /\ n \in Nat /\ n > 1
    BY <1>0, <2>1 DEF StatementsLeft
  <2>3. treeReq'[r] \in {Walked(q, q.up, q.depth + 1), [q EXCEPT !.pc = "set_write"]}
    BY <1>0, <1>4 DEF WalkNext, TreeGoto, q
  <2>4. StatementsLeft(Walked(q, q.up, q.depth + 1)) \in 0 .. n - 1
    BY <1>0, <2>1, <2>2, WalkedLeavesLess
  <2>5. [q EXCEPT !.pc = "set_write"].pc = "set_write"
    BY <1>0 DEF TreeRequestType
  <2>6. StatementsLeft([q EXCEPT !.pc = "set_write"]) = 1
    BY <2>5 DEF StatementsLeft
  <2>7. QED
    BY <1>0, <2>1, <2>2, <2>3, <2>4, <2>6
<1>5. CASE SetWrite(r) \/ DeleteWrite(r)
  <2>1. q.pc \in {"set_write", "del_write"} /\ treeReq'[r] = TreeIdle
    BY <1>0, <1>5 DEF SetWrite, DeleteWrite, TreeAt, TreeGoto, q
  <2>2. QED
    BY <1>0, <1>1, <2>1 DEF StatementsLeft
<1>6. CASE DeleteCheckMembers(r) \/ DeleteCheckChildren(r)
  <2>1. \/ q.pc = "del_members" /\ treeReq'[r].pc \in {"idle", "del_children"}
        \/ q.pc = "del_children" /\ treeReq'[r].pc \in {"idle", "del_write"}
    BY <1>0, <1>1, <1>6
       DEF DeleteCheckMembers, DeleteCheckChildren, TreeAt, TreeGoto, TreeRequestType, q
  <2>2. QED
    BY <1>0, <2>1 DEF StatementsLeft
<1>7. CASE TreeFail(r)
  <2>1. q.pc # "idle" /\ treeReq'[r] = TreeIdle
    BY <1>0, <1>7 DEF TreeFail, TreeAt, TreeGoto, q
  <2>2. n \in 1 .. MaxRoleDepth + 2
    BY <1>0, <2>1 DEF StatementsLeft, TreeRequestType, TreeLabels, TreeLocalsOf
  <2>3. QED
    BY <1>0, <1>1, <2>1, <2>2
<1>8. QED
  BY <1>2, <1>3, <1>4, <1>5, <1>6, <1>7 DEF TreeContinue, q

(* A request under way ends within MaxRoleDepth + 2 statements of its own: *)
(* each leaves it fewer, and no statement of another request touches that. *)
(* It needs neither Acyclic nor the absence of a race: the walk of         *)
(* SetRoleParent stops in a cycle too.                                     *)
THEOREM RequestsAreShort ==
  TreeSpec =>
    [][\A r \in TreeRequests :
         ~TreeAt(r, "idle") /\ treeReq'[r] # treeReq[r] =>
           /\ TreeContinue(r)
           /\ StatementsLeft(treeReq[r]) \in 1 .. MaxRoleDepth + 2
           /\ StatementsLeft(treeReq'[r]) \in 0 .. StatementsLeft(treeReq[r]) - 1
      ]_treeVars
<1> DEFINE Short(r) ==
      ~TreeAt(r, "idle") /\ treeReq'[r] # treeReq[r] =>
        /\ TreeContinue(r)
        /\ StatementsLeft(treeReq[r]) \in 1 .. MaxRoleDepth + 2
        /\ StatementsLeft(treeReq'[r]) \in 0 .. StatementsLeft(treeReq[r]) - 1
<1>1. ASSUME Inv, [TreeNext]_treeVars, NEW r \in TreeRequests,
             ~TreeAt(r, "idle"), treeReq'[r] # treeReq[r]
      PROVE  TreeContinue(r)
  <2>0. treeReq \in [TreeRequests -> TreeRequestType]
    BY <1>1 DEF Inv, TreeTypeOK
  <2>1. ASSUME NEW s \in TreeRequests, TreeStart(s) \/ TreeContinue(s)
        PROVE  s = r
    <3>1. PICK q : TreeGoto(s, q)
      BY <2>1 DEF TreeStart, CreateRead, SetStart, DeleteStart, TreeContinue,
                  CreateInsert, SetRead, WalkNext, SetWrite, DeleteCheckMembers,
                  DeleteCheckChildren, DeleteWrite, TreeFail
    <3>2. QED
      BY <1>1, <2>0, <3>1 DEF TreeGoto
  <2>2. ~TreeStart(r)
    BY <1>1 DEF TreeStart, CreateRead, SetStart, DeleteStart
  <2>3. QED
    BY <1>1, <2>1, <2>2
       DEF TreeNext, treeVars, CreateRole, ClearParent, Assign, Unassign
<1>2. ASSUME Inv, [TreeNext]_treeVars, NEW r \in TreeRequests PROVE Short(r)
  BY <1>1, <1>2, ContinueLeavesLess
<1>3. Inv /\ [TreeNext]_treeVars => [\A r \in TreeRequests : Short(r)]_treeVars
  BY <1>2
<1>4. QED
  BY <1>3, InvHolds, PTL DEF TreeSpec

=============================================================================
