------------------------ MODULE ModuleVersions_proofs ------------------------
(***************************************************************************)
(* Proofs about ModuleVersions for any modules, versions, rows, contents   *)
(* and requests.                                                           *)
(***************************************************************************)
EXTENDS ModuleVersions, Naturals, TLAPS

Lifecycle == INSTANCE VersionLifecycle_proofs

Inv == TypeOK /\ Locals /\ Transaction

LEMMA IdleIsTyped ==
  Idle \in RequestType /\ LocalsOf(Idle) /\ Idle.pc = "idle"
<1>1. Idle.pc = "idle"
  BY DEF Idle
<1>2. Idle \in RequestType
  BY DEF Idle, Labels, NoParts, RequestType
<1>3. LocalsOf(Idle)
  BY <1>1 DEF LocalsOf
<1>4. QED
  BY <1>1, <1>2, <1>3


LEMMA InitInv == Init => Inv
<1> SUFFICES ASSUME Init PROVE Inv
  OBVIOUS
<1>1. \A r \in Requests : req[r] = Idle
  BY DEF Init
<1>2. TypeOK
  BY IdleIsTyped DEF Init, TypeOK, Promise!VersionStates, NoParts
<1>3. Locals
  BY <1>1, IdleIsTyped DEF Locals
<1>4. Transaction
  BY <1>1, IdleIsTyped, NoneIsNothing DEF Init, Transaction
<1>5. QED
  BY <1>2, <1>3, <1>4 DEF Inv

(* No statement of a request may run while a transaction is open, and the  *)
(* transaction's view is the committed state plus its own writes: one step *)
(* per action.                                                             *)
LEMMA EditKeepsTypes ==
  ASSUME Inv, NEW v \in Versions, Edit(v)
  PROVE  TypeOK'
<1>1. ASSUME NEW m \in Modules, NEW t \in Texts \cup {None},
             CreateDraft(v, m, t)
      PROVE  TypeOK'
  BY <1>1 DEF Inv, TypeOK, CreateDraft, InsertDraft, Statement, NoParts,
              Promise!VersionStates, Parts
<1>2. ASSUME NEW t \in Texts, NEW m \in Texts \cup {None}, UpdateDraft(v, t, m)
      PROVE  TypeOK'
  <2>1. parts[v] \in [Parts -> Texts \cup {None}]
    BY DEF Inv, TypeOK
  <2>2. [parts[v] EXCEPT ![Fields] = t, ![Manifest] = m] \in [Parts -> Texts \cup {None}]
    BY <2>1 DEF Parts
  <2>3. QED
    BY <1>2, <2>2 DEF Inv, TypeOK, UpdateDraft, Statement
<1>3. ASSUME NEW n \in Rows, NEW t \in Texts, UpsertScript(v, n, t)
      PROVE  TypeOK'
  BY <1>3 DEF Inv, TypeOK, UpsertScript, WritePart, Statement, Parts
<1>4. ASSUME NEW n \in Rows, DeleteScript(v, n)
      PROVE  TypeOK'
  BY <1>4 DEF Inv, TypeOK, DeleteScript, WritePart, Statement, Parts
<1>5. ASSUME NEW old \in Rows, NEW new \in Rows, RenameScript(v, old, new)
      PROVE  TypeOK'
  <2>1. parts[v] \in [Parts -> Texts \cup {None}]
    BY DEF Inv, TypeOK
  <2>2. [parts[v] EXCEPT ![new] = parts[v][old], ![old] = None]
          \in [Parts -> Texts \cup {None}]
    BY <2>1 DEF Parts
  <2>3. QED
    BY <1>5, <2>2 DEF Inv, TypeOK, RenameScript, Statement
<1>6. CASE DeleteDraftVersion(v)
  BY <1>6 DEF Inv, TypeOK, DeleteDraftVersion, Statement, NoParts,
              Promise!VersionStates
<1>7. CASE Revoke(v)
  BY <1>7 DEF Inv, TypeOK, Revoke, Statement, Promise!VersionStates
<1>8. ASSUME NEW t \in Texts, CacheVersionManifest(v, t)
      PROVE  TypeOK'
  BY <1>8 DEF Inv, TypeOK, CacheVersionManifest, Statement, Parts
<1>9. QED
  BY <1>1, <1>2, <1>3, <1>4, <1>5, <1>6, <1>7, <1>8 DEF Edit

LEMMA EditKeepsRequests ==
  ASSUME Inv, NEW v \in Versions, Edit(v)
  PROVE  Locals' /\ Transaction'
<1>1. conn = None /\ UNCHANGED <<conn, work, req>>
  BY DEF Edit, CreateDraft, UpdateDraft, CacheVersionManifest, UpsertScript,
         DeleteScript, RenameScript, DeleteDraftVersion, Revoke, Statement
<1>2. Locals'
  BY <1>1 DEF Inv, Locals, LocalsOf
<1>3. \A r \in Requests : conn # r
  BY <1>1, NoneIsNothing
<1>4. Transaction'
  BY <1>1, <1>3 DEF Inv, Transaction
<1>5. QED
  BY <1>2, <1>4

LEMMA DeleteModuleKeepsInv ==
  ASSUME Inv, NEW m \in Modules, DeletePolicyModule(m)
  PROVE  Inv'
<1>1. TypeOK'
  BY DEF Inv, TypeOK, DeletePolicyModule, Statement, NoParts,
         Promise!VersionStates
<1>2. conn = None /\ UNCHANGED <<conn, work, req>>
  BY DEF DeletePolicyModule, Statement
<1>3. Locals'
  BY <1>2 DEF Inv, Locals, LocalsOf
<1>4. \A r \in Requests : conn # r
  BY <1>2, NoneIsNothing
<1>5. Transaction'
  BY <1>2, <1>4 DEF Inv, Transaction
<1>6. QED
  BY <1>1, <1>3, <1>5 DEF Inv

(* A request that moves on outside its transaction.                        *)
LEMMA RequestMoves ==
  ASSUME Inv, NEW r \in Requests, Statement,
         NEW q \in RequestType, Goto(r, q), LocalsOf(q),
         q.pc \notin {"pub_supersede", "pub_commit"}
  PROVE  /\ req' \in [Requests -> RequestType]
         /\ Locals'
         /\ Transaction'
         /\ conn' = None
<1>1. req' = [req EXCEPT ![r] = q] /\ req \in [Requests -> RequestType]
  BY DEF Goto, Inv, TypeOK
<1>2. req' \in [Requests -> RequestType]
  BY <1>1
<1>3. Locals'
  BY <1>1 DEF Inv, Locals, LocalsOf
<1>4. \A s \in Requests :
        /\ conn' # s
        /\ req'[s].pc \notin {"pub_supersede", "pub_commit"}
  BY <1>1, NoneIsNothing DEF Inv, Transaction, Statement
<1>5. Transaction'
  BY <1>4 DEF Transaction
<1>6. QED
  BY <1>2, <1>3, <1>5 DEF Statement

LEMMA StartKeepsInv ==
  ASSUME Inv, NEW r \in Requests, Start(r)
  PROVE  Inv'
<1>1. ASSUME NEW v \in Versions, PublishRead(r, v)
      PROVE  Inv'
  <2> DEFINE q == [Idle EXCEPT !.pc = "pub_check", !.ver = v]
  <2>1. q \in RequestType /\ LocalsOf(q) /\ q.pc = "pub_check"
    BY IdleIsTyped DEF Labels, Idle, RequestType, LocalsOf
  <2>2. /\ Goto(r, q) /\ Statement
        /\ UNCHANGED <<vstate, vmodule, live, parts, by>>
    BY <1>1 DEF PublishRead
  <2> HIDE DEF q
  <2>3. QED
    BY <2>1, <2>2, RequestMoves DEF Inv, TypeOK
<1>2. ASSUME NEW v \in Versions, ForkRead(r, v)
      PROVE  Inv'
  <2> DEFINE q == [Idle EXCEPT !.pc = "fork_create", !.src = v,
                       !.copy = [NoParts EXCEPT ![Fields] = parts[v][Fields],
                                                ![Manifest] = parts[v][Manifest]]]
  <2>1. q \in RequestType /\ LocalsOf(q) /\ q.pc = "fork_create"
    <3>1. /\ parts[v][Fields] \in Texts \cup {None}
          /\ parts[v][Manifest] \in Texts \cup {None}
      BY DEF Inv, TypeOK, Parts
    <3>2. [NoParts EXCEPT ![Fields] = parts[v][Fields],
                          ![Manifest] = parts[v][Manifest]]
            \in [Parts -> Texts \cup {None}]
      BY <3>1 DEF NoParts
    <3>3. QED
      BY <3>2 DEF Labels, Idle, RequestType, LocalsOf
  <2>2. /\ Goto(r, q) /\ Statement
        /\ UNCHANGED <<vstate, vmodule, live, parts, by>>
    BY <1>2 DEF ForkRead
  <2> HIDE DEF q
  <2>3. QED
    BY <2>1, <2>2, RequestMoves DEF Inv, TypeOK
<1>3. ASSUME NEW m \in Modules, RevokeList(r, m)
      PROVE  Inv'
  <2> DEFINE q == [Idle EXCEPT !.pc = "revoke_next",
                       !.revs = {v \in Versions : vmodule[v] = m
                                                   /\ RevokeGuard(v)}]
  <2>1. q \in RequestType /\ LocalsOf(q) /\ q.pc = "revoke_next"
    BY DEF Labels, Idle, NoParts, RequestType, LocalsOf
  <2>2. /\ Goto(r, q) /\ Statement
        /\ UNCHANGED <<vstate, vmodule, live, parts, by>>
    BY <1>3 DEF RevokeList
  <2> HIDE DEF q
  <2>3. QED
    BY <2>1, <2>2, RequestMoves DEF Inv, TypeOK
<1>4. ASSUME NEW v \in Versions, FullReset(r, v)
      PROVE  Inv'
  <2> DEFINE q == [Idle EXCEPT !.pc = "reset_scripts", !.ver = v]
  <2>1. q \in RequestType /\ LocalsOf(q) /\ q.pc = "reset_scripts"
    BY IdleIsTyped DEF Labels, Idle, RequestType, LocalsOf
  <2>2. /\ Goto(r, q) /\ Statement
        /\ UNCHANGED <<vstate, vmodule, live, parts, by>>
    BY <1>4 DEF FullReset
  <2> HIDE DEF q
  <2>3. QED
    BY <2>1, <2>2, RequestMoves DEF Inv, TypeOK
<1>5. QED
  BY <1>1, <1>2, <1>3, <1>4 DEF Start

LEMMA PublishKeepsInv ==
  ASSUME Inv, NEW r \in Requests,
         \/ PublishCheck(r) \/ PublishMark(r)
         \/ PublishSupersede(r) \/ PublishCommit(r)
  PROVE  Inv'
<1> DEFINE v == req[r].ver
<1>0. req[r] \in RequestType /\ LocalsOf(req[r])
  BY DEF Inv, TypeOK, Locals
<1>1. CASE PublishCheck(r)
  <2> DEFINE q == IF parts[v][Apply] # None
                  THEN [req[r] EXCEPT !.pc = "pub_mark"] ELSE Idle
  <2>1. q \in RequestType /\ LocalsOf(q) /\ q.pc \in {"pub_mark", "idle"}
    BY <1>0, <1>1, IdleIsTyped DEF Labels, RequestType, LocalsOf, PublishCheck, At
  <2>2. /\ Goto(r, q) /\ Statement
        /\ UNCHANGED <<vstate, vmodule, live, parts, by>>
    BY <1>1 DEF PublishCheck
  <2> HIDE DEF q
  <2>3. QED
    BY <2>1, <2>2, RequestMoves DEF Inv, TypeOK
<1>2. CASE PublishMark(r) /\ vstate[v] # "draft"
  <2>1. /\ Goto(r, Idle) /\ Statement
        /\ UNCHANGED <<vstate, vmodule, live, parts, by>>
    BY <1>2 DEF PublishMark, Statement
  <2>2. QED
    BY <2>1, IdleIsTyped, RequestMoves DEF Inv, TypeOK
<1>3. CASE PublishMark(r) /\ vstate[v] = "draft"
  <2> DEFINE q == [req[r] EXCEPT !.pc = "pub_supersede"]
  <2>1. /\ q \in RequestType /\ LocalsOf(q)
        /\ q.pc = "pub_supersede" /\ q.ver = v /\ v \in Versions
    BY <1>0, <1>3 DEF Labels, RequestType, LocalsOf, PublishMark, At
  <2>2. /\ req' = [req EXCEPT ![r] = q]
        /\ conn = None /\ conn' = r
        /\ work' = [state |-> MarkPublished(v, vstate), by |-> by]
        /\ UNCHANGED <<vstate, vmodule, live, parts, by>>
    BY <1>3 DEF PublishMark, Goto
  <2> HIDE DEF q
  <2>3. MarkPublished(v, vstate) \in [Versions -> Promise!VersionStates]
    BY <2>1 DEF Inv, TypeOK, MarkPublished, Promise!VersionStates
  <2>4. TypeOK'
    BY <2>1, <2>2, <2>3 DEF Inv, TypeOK
  <2>5. Locals'
    BY <2>1, <2>2 DEF Inv, TypeOK, Locals, LocalsOf
  <2>6. \A s \in Requests : s # r =>
          conn' # s /\ req'[s].pc \notin {"pub_supersede", "pub_commit"}
    BY <2>2, NoneIsNothing DEF Inv, TypeOK, Transaction
  <2>7. req'[r] = q
    BY <2>2 DEF Inv, TypeOK
  <2>9. Transaction'
    BY <1>3, <2>1, <2>2, <2>6, <2>7 DEF Transaction, MarkPublished
  <2>10. QED
    BY <2>4, <2>5, <2>9 DEF Inv
<1>4. CASE PublishSupersede(r)
  <2> DEFINE q == [req[r] EXCEPT !.pc = "pub_commit"]
             S == [x \in Versions |->
                     IF SupersedeGuard(x, v, work.state)
                     THEN "superseded" ELSE work.state[x]]
             B == [x \in Versions |->
                     IF SupersedeGuard(x, v, work.state)
                     THEN v ELSE work.by[x]]
  <2>1. /\ q \in RequestType /\ LocalsOf(q)
        /\ q.pc = "pub_commit" /\ q.ver = v /\ v \in Versions
    BY <1>0, <1>4 DEF Labels, RequestType, LocalsOf, PublishSupersede, At
  <2>2. /\ req' = [req EXCEPT ![r] = q]
        /\ conn = r /\ conn' = r
        /\ work' = [state |-> S, by |-> B]
        /\ UNCHANGED <<vstate, vmodule, live, parts, by>>
    BY <1>4 DEF PublishSupersede, Goto
  <2>3. work = [state |-> MarkPublished(v, vstate), by |-> by]
    BY <1>4 DEF PublishSupersede, At, Inv, Transaction
  <2>4. vstate[v] = "draft"
    BY <2>2 DEF Inv, Transaction
  (* Inside the transaction the module's other published versions are the  *)
  (* ones published outside it.                                            *)
  <2>5. \A x \in Versions : SupersedeGuard(x, v, work.state)
                             <=> SupersedeGuard(x, v, vstate)
    BY <2>1, <2>3, <2>4 DEF SupersedeGuard, MarkPublished, Inv, TypeOK
  <2>6. S = Promise!AfterPublish(v)
    BY <2>1, <2>3, <2>4, <2>5
       DEF SupersedeGuard, MarkPublished, Promise!AfterPublish, Inv, TypeOK
  <2>7. B = [x \in Versions |-> IF SupersedeGuard(x, v, vstate)
                                THEN v ELSE by[x]]
    BY <2>3, <2>5
  <2>8. /\ S \in [Versions -> Promise!VersionStates]
        /\ B \in [Versions -> Versions \cup {None}]
    BY <2>1, <2>6, <2>7
       DEF Promise!AfterPublish, Promise!VersionStates, Inv, TypeOK
  <2> HIDE DEF q, S, B
  <2>9. TypeOK'
    BY <2>1, <2>2, <2>8 DEF Inv, TypeOK
  <2>10. Locals'
    BY <2>1, <2>2 DEF Inv, TypeOK, Locals, LocalsOf
  <2>11. \A s \in Requests : s # r =>
           conn' # s /\ req'[s].pc \notin {"pub_supersede", "pub_commit"}
    BY <2>2 DEF Inv, TypeOK, Transaction
  <2>12. req'[r] = q
    BY <2>2 DEF Inv, TypeOK
  <2>13. Transaction'
    BY <2>1, <2>2, <2>4, <2>6, <2>7, <2>11, <2>12
       DEF Transaction, Promise!AfterPublish, SupersedeGuard
  <2>14. QED
    BY <2>9, <2>10, <2>13 DEF Inv
<1>5. CASE PublishCommit(r)
  <2>1. /\ req' = [req EXCEPT ![r] = Idle]
        /\ conn = r /\ conn' = None
        /\ vstate' = work.state /\ by' = work.by
        /\ UNCHANGED <<vmodule, live, parts>>
    BY <1>5 DEF PublishCommit, Goto
  <2>2. TypeOK'
    BY <2>1, IdleIsTyped, NoneIsNothing DEF Inv, TypeOK
  <2>3. Locals'
    BY <2>1, IdleIsTyped DEF Inv, TypeOK, Locals, LocalsOf
  <2>4. \A s \in Requests :
          conn' # s /\ req'[s].pc \notin {"pub_supersede", "pub_commit"}
    BY <2>1, IdleIsTyped, NoneIsNothing DEF Inv, TypeOK, Transaction
  <2>5. Transaction'
    BY <2>4 DEF Transaction
  <2>6. QED
    BY <2>2, <2>3, <2>5 DEF Inv
<1>6. QED
  BY <1>1, <1>2, <1>3, <1>4, <1>5

LEMMA ForkAndRevokeKeepInv ==
  ASSUME Inv, NEW r \in Requests,
         \/ \E v \in Versions : ForkCreate(r, v)
         \/ ForkList(r)
         \/ \E n \in Rows : ForkCopy(r, n)
         \/ ForkDone(r)
         \/ \E v \in Versions : RevokeNext(r, v)
  PROVE  Inv'
<1>0. req[r] \in RequestType /\ LocalsOf(req[r])
  BY DEF Inv, TypeOK, Locals
<1>1. ASSUME NEW v \in Versions, ForkCreate(r, v)
      PROVE  Inv'
  <2> DEFINE q == [req[r] EXCEPT !.pc = "fork_list", !.ver = v,
                                 !.copy = NoParts]
  <2>1. q \in RequestType /\ LocalsOf(q) /\ q.pc = "fork_list"
    BY <1>0, <1>1 DEF Labels, RequestType, LocalsOf, NoParts, ForkCreate, At
  <2>2. Goto(r, q) /\ Statement
    BY <1>1 DEF ForkCreate
  <2>3. /\ vstate' = [vstate EXCEPT ![v] = "draft"]
        /\ vmodule' = [vmodule EXCEPT ![v] = vmodule[req[r].src]]
        /\ vmodule[req[r].src] \in live
        /\ parts' = [parts EXCEPT ![v] = req[r].copy]
        /\ UNCHANGED <<live, by>>
    BY <1>1 DEF ForkCreate, InsertDraft
  <2> HIDE DEF q
  <2>4. /\ vstate' \in [Versions -> Promise!VersionStates]
        /\ vmodule' \in [Versions -> Modules \cup {None}]
        /\ parts' \in [Versions -> [Parts -> Texts \cup {None}]]
    BY <1>0, <2>3 DEF Inv, TypeOK, RequestType, Promise!VersionStates
  <2>5. QED
    BY <2>1, <2>2, <2>3, <2>4, RequestMoves DEF Inv, TypeOK
<1>2. CASE ForkList(r)
  <2> DEFINE q == [req[r] EXCEPT !.pc = "fork_copy",
                     !.copy = [p \in Parts |-> IF p \in Rows \ Actions
                                               THEN parts[req[r].src][p] ELSE None]]
  <2>1. q \in RequestType /\ LocalsOf(q) /\ q.pc = "fork_copy"
    <3>1. req[r].src \in Versions /\ req[r].ver \in Versions
      BY <1>0, <1>2 DEF LocalsOf, ForkList, At
    <3>2. [p \in Parts |-> IF p \in Rows \ Actions THEN parts[req[r].src][p] ELSE None]
            \in [Parts -> Texts \cup {None}]
      BY <3>1 DEF Inv, TypeOK, Parts
    <3>3. QED
      BY <1>0, <3>1, <3>2 DEF Labels, RequestType, LocalsOf
  <2>2. /\ Goto(r, q) /\ Statement
        /\ UNCHANGED <<vstate, vmodule, live, parts, by>>
    BY <1>2 DEF ForkList
  <2> HIDE DEF q
  <2>3. QED
    BY <2>1, <2>2, RequestMoves DEF Inv, TypeOK
<1>3. ASSUME NEW n \in Rows, ForkCopy(r, n), DraftGuard(req[r].ver)
      PROVE  Inv'
  <2> DEFINE q == [req[r] EXCEPT !.copy[n] = None]
  <2>1. q \in RequestType /\ LocalsOf(q) /\ q.pc = "fork_copy"
    <3>1. [req[r].copy EXCEPT ![n] = None] \in [Parts -> Texts \cup {None}]
      BY <1>0 DEF RequestType, Parts
    <3>2. q = [req[r] EXCEPT !.copy = [req[r].copy EXCEPT ![n] = None]]
      BY <1>0 DEF RequestType
    <3> HIDE DEF q
    <3>3. QED
      BY <1>0, <1>3, <3>1, <3>2 DEF Labels, RequestType, LocalsOf, ForkCopy, At
  <2>2. Goto(r, q) /\ Statement
        /\ parts' = [parts EXCEPT ![req[r].ver][n] = req[r].copy[n]]
        /\ UNCHANGED <<vstate, vmodule, live, by>>
    BY <1>3 DEF ForkCopy, WritePart
  <2> HIDE DEF q
  <2>3. parts' \in [Versions -> [Parts -> Texts \cup {None}]]
    BY <1>0, <2>2 DEF Inv, TypeOK, RequestType, Parts
  <2>4. QED
    BY <2>1, <2>2, <2>3, RequestMoves DEF Inv, TypeOK
<1>4. ASSUME NEW n \in Rows, ForkCopy(r, n), ~DraftGuard(req[r].ver)
      PROVE  Inv'
  <2>1. /\ Goto(r, Idle) /\ Statement
        /\ UNCHANGED <<vstate, vmodule, live, parts, by>>
    BY <1>4 DEF ForkCopy
  <2>2. QED
    BY <2>1, IdleIsTyped, RequestMoves DEF Inv, TypeOK
<1>5. CASE ForkDone(r)
  (* No statement: the transaction of another request may be open.         *)
  <2>1. /\ req' = [req EXCEPT ![r] = Idle]
        /\ UNCHANGED <<vstate, vmodule, live, parts, by, conn, work>>
    BY <1>5 DEF ForkDone, Goto
  <2>2. TypeOK'
    BY <2>1, IdleIsTyped DEF Inv, TypeOK
  <2>3. Locals'
    BY <2>1, IdleIsTyped DEF Inv, TypeOK, Locals
  <2>4. req'[r] = Idle /\ conn # r
    BY <1>5, <2>1 DEF ForkDone, At, Inv, TypeOK, Transaction
  <2>5. \A s \in Requests : s # r => req'[s] = req[s]
    BY <2>1 DEF Inv, TypeOK
  <2>6. Transaction'
    <3> SUFFICES ASSUME NEW s \in Requests
                 PROVE  Transaction!(s)'
      BY DEF Transaction
    <3>1. CASE s = r
      BY <2>1, <2>4, <3>1, IdleIsTyped
    <3>2. CASE s # r
      BY <2>1, <2>5, <3>2 DEF Inv, Transaction, Promise!AfterPublish,
                              SupersedeGuard, MarkPublished
    <3>3. QED
      BY <3>1, <3>2
  <2>7. QED
    BY <2>2, <2>3, <2>6 DEF Inv
<1>6. ASSUME NEW v \in Versions, RevokeNext(r, v)
      PROVE  Inv'
  <2> DEFINE q == [req[r] EXCEPT !.revs = @ \ {v}]
  <2>1. q \in RequestType /\ LocalsOf(q) /\ q.pc = "revoke_next"
    BY <1>0, <1>6 DEF Labels, RequestType, LocalsOf, RevokeNext, At
  <2>2. /\ Goto(r, q) \/ Goto(r, Idle)
        /\ Statement
        /\ UNCHANGED <<vmodule, live, parts, by>>
    BY <1>6 DEF RevokeNext
  <2>3. vstate' \in [Versions -> Promise!VersionStates]
    BY <1>6 DEF RevokeNext, Inv, TypeOK, Promise!VersionStates
  <2> HIDE DEF q
  <2>4. QED
    BY <2>1, <2>2, <2>3, IdleIsTyped, RequestMoves DEF Inv, TypeOK
<1>7. QED
  BY <1>1, <1>2, <1>3, <1>4, <1>5, <1>6

LEMMA ResetKeepsInv ==
  ASSUME Inv, NEW r \in Requests, ResetDelete(r)
  PROVE  Inv'
<1>0. req[r] \in RequestType /\ req[r].ver \in Versions
  BY DEF Inv, TypeOK, Locals, LocalsOf, ResetDelete, DeleteCustomScripts,
         DeleteCustomActions, At
<1>1. PICK gone : DeleteRows(req[r].ver, gone)
  BY DEF ResetDelete, DeleteCustomScripts, DeleteCustomActions
<1>2. parts' \in [Versions -> [Parts -> Texts \cup {None}]]
  <2>1. parts[req[r].ver] \in [Parts -> Texts \cup {None}]
    BY <1>0 DEF Inv, TypeOK
  <2>2. [p \in Parts |-> IF p \in gone THEN None ELSE parts[req[r].ver][p]]
          \in [Parts -> Texts \cup {None}]
    BY <2>1
  <2>3. QED
    BY <1>0, <1>1, <2>2 DEF Inv, TypeOK, DeleteRows
<1> DEFINE q == [req[r] EXCEPT !.pc = "reset_actions"]
<1>3. q \in RequestType /\ LocalsOf(q) /\ q.pc = "reset_actions"
  BY <1>0 DEF Labels, RequestType, LocalsOf
<1>4. /\ Goto(r, q) \/ Goto(r, Idle)
      /\ Statement
      /\ UNCHANGED <<vstate, vmodule, live, by>>
  BY DEF ResetDelete, DeleteCustomScripts, DeleteCustomActions
<1> HIDE DEF q
<1>5. QED
  BY <1>2, <1>3, <1>4, IdleIsTyped, RequestMoves DEF Inv, TypeOK

LEMMA FailKeepsInv ==
  ASSUME Inv, NEW r \in Requests, Fail(r)
  PROVE  Inv'
<1>1. /\ req' = [req EXCEPT ![r] = Idle]
      /\ conn \in {None, r} /\ conn' = None
      /\ UNCHANGED <<vstate, vmodule, live, parts, by>>
  BY DEF Fail, Goto
<1>2. TypeOK'
  BY <1>1, IdleIsTyped DEF Inv, TypeOK
<1>3. Locals'
  BY <1>1, IdleIsTyped DEF Inv, TypeOK, Locals
<1>4. \A s \in Requests :
        conn' # s /\ req'[s].pc \notin {"pub_supersede", "pub_commit"}
  BY <1>1, IdleIsTyped, NoneIsNothing DEF Inv, TypeOK, Transaction
<1>5. Transaction'
  BY <1>4 DEF Transaction
<1>6. QED
  BY <1>2, <1>3, <1>5 DEF Inv

LEMMA CrashKeepsInv ==
  ASSUME Inv, Crash
  PROVE  Inv'
<1>1. /\ req' = [r \in Requests |-> Idle]
      /\ conn' = None
      /\ UNCHANGED <<vstate, vmodule, live, parts, by>>
  BY DEF Crash
<1>2. \A r \in Requests : req'[r] = Idle
  BY <1>1
<1>3. TypeOK'
  BY <1>1, IdleIsTyped DEF Inv, TypeOK
<1>4. Locals'
  BY <1>2, IdleIsTyped DEF Locals
<1>5. Transaction'
  BY <1>1, <1>2, IdleIsTyped, NoneIsNothing DEF Transaction
<1>6. QED
  BY <1>3, <1>4, <1>5 DEF Inv

LEMMA StepKeepsInv == Inv /\ [Next]_vars => Inv'
<1> SUFFICES ASSUME Inv, [Next]_vars
             PROVE  Inv'
  OBVIOUS
<1>1. ASSUME NEW v \in Versions, Edit(v)
      PROVE  Inv'
  BY <1>1, EditKeepsTypes, EditKeepsRequests DEF Inv
<1>2. ASSUME NEW m \in Modules, DeletePolicyModule(m)
      PROVE  Inv'
  BY <1>2, DeleteModuleKeepsInv
<1>3. ASSUME NEW r \in Requests, Start(r)
      PROVE  Inv'
  BY <1>3, StartKeepsInv
<1>4. ASSUME NEW r \in Requests, Continue(r)
      PROVE  Inv'
  BY <1>4, PublishKeepsInv, ForkAndRevokeKeepInv, ResetKeepsInv, FailKeepsInv
     DEF Continue
<1>5. CASE Crash
  BY <1>5, CrashKeepsInv
<1>6. CASE UNCHANGED vars
  BY <1>6 DEF vars, Inv, TypeOK, Locals, LocalsOf, Transaction,
              Promise!AfterPublish, SupersedeGuard, MarkPublished
<1>7. QED
  BY <1>1, <1>2, <1>3, <1>4, <1>5, <1>6 DEF Next

LEMMA InvHolds == Spec => []Inv
<1>1. QED
  BY InitInv, StepKeepsInv, PTL DEF Spec

(* Type correctness: whatever requests interleave, fail or are cut off by  *)
(* a crash, every column and every request's locals keep their types.      *)
THEOREM TypeCorrect == Spec => []TypeOK
<1>1. Inv => TypeOK
  BY DEF Inv
<1>2. QED
  BY <1>1, InvHolds, PTL

-----------------------------------------------------------------------------
(* ModuleVersions implements VersionLifecycle: each action is a step of it *)
(* or leaves its variables alone.                                          *)
LEMMA EditImplements ==
  ASSUME NEW v \in Versions, Edit(v)
  PROVE  Promise!Next \/ UNCHANGED <<vstate, vmodule, live>>
<1>1. ASSUME NEW m \in Modules, NEW t \in Texts \cup {None},
             CreateDraft(v, m, t)
      PROVE  Promise!Create(v, m)
  BY <1>1 DEF CreateDraft, InsertDraft, Promise!Create
<1>2. CASE DeleteDraftVersion(v)
  BY <1>2 DEF DeleteDraftVersion, DraftGuard, Promise!Discard, Promise!Next
<1>3. CASE Revoke(v)
  BY <1>3 DEF Revoke, RevokeGuard, Promise!Revoke, Promise!Deployable,
              Promise!Next
<1>4. QED
  BY <1>1, <1>2, <1>3
     DEF Edit, UpdateDraft, CacheVersionManifest, UpsertScript, DeleteScript,
         RenameScript, Promise!Next

LEMMA RequestImplements ==
  ASSUME Inv, NEW r \in Requests, Start(r) \/ Continue(r)
  PROVE  Promise!Next \/ UNCHANGED <<vstate, vmodule, live>>
<1> DEFINE Stutters == UNCHANGED <<vstate, vmodule, live>>
<1>0. req[r] \in RequestType /\ LocalsOf(req[r])
  BY DEF Inv, TypeOK, Locals
<1>1. CASE PublishCommit(r)
  (* The commit makes visible what the transaction wrote: all of Publish.  *)
  <2>1. /\ req[r].ver \in Versions
        /\ vstate[req[r].ver] = "draft"
        /\ work.state = Promise!AfterPublish(req[r].ver)
    BY <1>0, <1>1 DEF PublishCommit, At, LocalsOf, Inv, Transaction
  <2>2. Promise!Publish(req[r].ver)
    BY <1>1, <2>1 DEF PublishCommit, Promise!Publish
  <2>3. QED
    BY <2>1, <2>2 DEF Promise!Next
<1>2. ASSUME NEW v \in Versions, ForkCreate(r, v)
      PROVE  Promise!Next
  <2>1. Promise!Create(v, vmodule[req[r].src])
    BY <1>2 DEF ForkCreate, InsertDraft, Promise!Create
  <2>2. vmodule[req[r].src] \in Modules
    BY <1>2 DEF ForkCreate, InsertDraft, Inv, TypeOK
  <2>3. QED
    BY <2>1, <2>2 DEF Promise!Next
<1>3. ASSUME NEW v \in Versions, RevokeNext(r, v)
      PROVE  Promise!Next \/ Stutters
  BY <1>3 DEF RevokeNext, RevokeGuard, Promise!Revoke, Promise!Deployable,
              Promise!Next
<1>4. Start(r) => Stutters
  BY DEF Start, PublishRead, ForkRead, RevokeList, FullReset
<1>5. PublishCheck(r) \/ PublishMark(r) \/ PublishSupersede(r) => Stutters
  BY DEF PublishCheck, PublishMark, PublishSupersede
<1>6. /\ ForkList(r) \/ ForkDone(r) \/ Fail(r) \/ ResetDelete(r) => Stutters
      /\ \A n \in Rows : ForkCopy(r, n) => Stutters
  BY DEF ForkList, ForkCopy, ForkDone, Fail, ResetDelete, DeleteCustomScripts,
         DeleteCustomActions
<1>7. QED
  BY <1>1, <1>2, <1>3, <1>4, <1>5, <1>6 DEF Continue

LEMMA StepImplements ==
  Inv /\ [Next]_vars => [Promise!Next]_<<vstate, vmodule, live>>
<1> SUFFICES ASSUME Inv, [Next]_vars
             PROVE  Promise!Next \/ UNCHANGED <<vstate, vmodule, live>>
  OBVIOUS
<1>1. ASSUME NEW m \in Modules, DeletePolicyModule(m)
      PROVE  Promise!Next
  BY <1>1 DEF DeletePolicyModule, Promise!Remove, Promise!Next
<1>2. Crash \/ UNCHANGED vars => UNCHANGED <<vstate, vmodule, live>>
  BY DEF Crash, vars
<1>3. QED
  BY <1>1, <1>2, EditImplements, RequestImplements DEF Next

(* Refinement: although a publish takes four statements, and a fork or a   *)
(* bulk revocation many, other requests only ever see the one-step         *)
(* lifecycle.                                                              *)
THEOREM Implements == Spec => KeepsPromise
<1>1. Init => Promise!Init
  BY DEF Init, Promise!Init
<1>2. QED
  BY <1>1, InvHolds, StepImplements, PTL
     DEF Spec, KeepsPromise, Promise!Spec, Promise!vars

(* So it inherits what the lifecycle promises: no interleaving of          *)
(* publishes, forks, revocations and crashes leaves a module with two      *)
(* published versions.                                                     *)
THEOREM OnePublished == Spec => []AtMostOnePublished
<1>1. Promise!Init => Lifecycle!Init
  BY DEF Promise!Init, Lifecycle!Init
<1>2. [Promise!Next]_(Promise!vars) => [Lifecycle!Next]_(Lifecycle!vars)
  BY DEF Promise!Next, Promise!vars, Promise!Create, Promise!Publish,
         Promise!AfterPublish, Promise!Revoke, Promise!Deployable,
         Promise!Discard, Promise!Remove,
         Lifecycle!Next, Lifecycle!vars, Lifecycle!Create,
         Lifecycle!Publish, Lifecycle!AfterPublish, Lifecycle!Revoke,
         Lifecycle!Deployable, Lifecycle!Discard, Lifecycle!Remove
<1>3. KeepsPromise => Lifecycle!Spec
  BY <1>1, <1>2, PTL DEF KeepsPromise, Promise!Spec, Lifecycle!Spec
<1>4. Lifecycle!Promises => AtMostOnePublished
  BY DEF Lifecycle!Promises, Lifecycle!AtMostOnePublished,
         AtMostOnePublished, Promise!AtMostOnePublished
<1>5. QED
  BY <1>3, <1>4, Implements, Lifecycle!LifecyclePromises, PTL

-----------------------------------------------------------------------------
(* Frozen content: a version that has left "draft" keeps its scripts,      *)
(* actions, tests and fields until its module is deleted, however late a   *)
(* statement of an edit or of a fork arrives; only a late reset deletes.   *)
ResetsStayInDrafts ==
  \A r \in Requests : ResetDelete(r) => vstate[req[r].ver] = "draft"

FrozenStep ==
  \A v \in Versions :
    FrozenIn(v) => ContentKept(v) \/ vstate'[v] = "deleted"

LEMMA WritesOnlyDrafts ==
  ASSUME Inv, NEW v \in Versions, DraftGuard(v), NEW c, parts' = [parts EXCEPT ![v] = c]
  PROVE  FrozenStep
BY DEF DraftGuard, FrozenIn, FrozenStep, ContentKept, Inv, TypeOK

LEMMA InsertsOnlyDrafts ==
  ASSUME Inv, NEW v \in Versions, NEW m, NEW c, InsertDraft(v, m, c)
  PROVE  FrozenStep
BY DEF InsertDraft, FrozenIn, FrozenStep, ContentKept, Inv, TypeOK

LEMMA EditKeepsFrozen ==
  ASSUME Inv, NEW v \in Versions, Edit(v)
  PROVE  FrozenStep
<1>1. CASE \E m \in Modules, t \in Texts \cup {None} : CreateDraft(v, m, t)
  BY <1>1, InsertsOnlyDrafts DEF CreateDraft
<1>2. CASE \/ \E t \in Texts, m \in Texts \cup {None} : UpdateDraft(v, t, m)
           \/ \E n \in Rows, t \in Texts : UpsertScript(v, n, t)
           \/ \E n \in Rows : DeleteScript(v, n)
           \/ \E old, new \in Rows : RenameScript(v, old, new)
           \/ DeleteDraftVersion(v)
  <2>1. DraftGuard(v) /\ \E c : parts' = [parts EXCEPT ![v] = c]
    BY <1>2 DEF UpdateDraft, UpsertScript, DeleteScript, WritePart, RenameScript,
                DeleteDraftVersion
  <2>2. QED
    BY <2>1, WritesOnlyDrafts
<1>3. ASSUME NEW t \in Texts, CacheVersionManifest(v, t)
      PROVE  FrozenStep
  BY <1>3, ColumnsAreNoRows
     DEF CacheVersionManifest, FrozenStep, ContentKept, Content, Inv, TypeOK
<1>4. CASE Revoke(v)
  BY <1>4 DEF Revoke, FrozenStep, ContentKept
<1>5. QED
  BY <1>1, <1>2, <1>3, <1>4 DEF Edit

LEMMA RequestKeepsFrozen ==
  ASSUME Inv, NEW r \in Requests, Start(r) \/ Continue(r), ResetsStayInDrafts
  PROVE  FrozenStep
<1>0. req[r].pc \in {"fork_copy", "reset_scripts", "reset_actions"}
        => req[r].ver \in Versions
  BY DEF Inv, Locals, LocalsOf
<1>1. ASSUME NEW v \in Versions, ForkCreate(r, v)
      PROVE  FrozenStep
  BY <1>1, InsertsOnlyDrafts DEF ForkCreate
<1>2. ASSUME NEW n \in Rows, ForkCopy(r, n)
      PROVE  FrozenStep
  <2>1. CASE DraftGuard(req[r].ver)
    BY <1>0, <1>2, <2>1, WritesOnlyDrafts DEF ForkCopy, At, WritePart
  <2>2. CASE ~DraftGuard(req[r].ver)
    BY <1>2, <2>2 DEF ForkCopy, FrozenStep, ContentKept
  <2>3. QED
    BY <2>1, <2>2
<1>3. CASE ResetDelete(r)
  <2>1. DraftGuard(req[r].ver) /\ req[r].ver \in Versions
    BY <1>0, <1>3 DEF ResetsStayInDrafts, DraftGuard, ResetDelete,
                      DeleteCustomScripts, DeleteCustomActions, At
  <2>2. \E c : parts' = [parts EXCEPT ![req[r].ver] = c]
    BY <1>3 DEF ResetDelete, DeleteCustomScripts, DeleteCustomActions, DeleteRows
  <2>3. QED
    BY <2>1, <2>2, WritesOnlyDrafts
<1>4. \/ PublishCheck(r) \/ PublishMark(r)
      \/ PublishSupersede(r) \/ PublishCommit(r)
      \/ ForkList(r) \/ ForkDone(r) \/ Fail(r) \/ Start(r)
      \/ \E v \in Versions : RevokeNext(r, v)
      => UNCHANGED parts
  BY DEF PublishCheck, PublishMark, PublishSupersede, PublishCommit, ForkList,
         ForkDone, Fail, Start, PublishRead, ForkRead, RevokeList, FullReset, RevokeNext
<1>5. UNCHANGED parts => FrozenStep
  BY DEF FrozenStep, ContentKept
<1>6. QED
  BY <1>1, <1>2, <1>3, <1>4, <1>5 DEF Continue

LEMMA StepKeepsFrozen ==
  Inv /\ [Next]_vars /\ ResetsStayInDrafts => FrozenStep
<1> SUFFICES ASSUME Inv, [Next]_vars, ResetsStayInDrafts
             PROVE  FrozenStep
  OBVIOUS
<1>1. ASSUME NEW m \in Modules, DeletePolicyModule(m)
      PROVE  FrozenStep
  BY <1>1 DEF DeletePolicyModule, FrozenStep, ContentKept, Inv, TypeOK
<1>2. CASE Crash \/ UNCHANGED vars
  BY <1>2 DEF Crash, vars, FrozenStep, ContentKept
<1>3. QED
  BY <1>1, <1>2, EditKeepsFrozen, RequestKeepsFrozen DEF Next

(* The other side: what a late reset does to a version it had read as a    *)
(* draft.                                                                  *)
LEMMA ResetsOnlyDelete ==
  ASSUME Inv, NEW r \in Requests, ResetDelete(r)
  PROVE  /\ req[r].pc \in {"reset_scripts", "reset_actions"}
         /\ \A v \in Versions \ {req[r].ver} : ContentKept(v)
         /\ \A p \in Content :
              \/ parts'[req[r].ver][p] = parts[req[r].ver][p]
              \/ p \in Scripts \cup Actions /\ parts'[req[r].ver][p] = None
<1>1. req[r].pc \in {"reset_scripts", "reset_actions"} /\ req[r].ver \in Versions
  BY DEF ResetDelete, DeleteCustomScripts, DeleteCustomActions, At, Inv, Locals, LocalsOf
<1>2. PICK gone \in SUBSET (Scripts \cup Actions) : DeleteRows(req[r].ver, gone)
  BY DEF ResetDelete, DeleteCustomScripts, DeleteCustomActions
<1>3. Content \subseteq Parts
  BY DEF Content, Parts
<1>4. parts' = [parts EXCEPT ![req[r].ver] =
                  [p \in Parts |-> IF p \in gone THEN None ELSE parts[req[r].ver][p]]]
  BY <1>2 DEF DeleteRows
<1>5. QED
  BY <1>1, <1>3, <1>4 DEF ContentKept, Inv, TypeOK

(* The parts of a version that has left "draft" stay what they were until  *)
(* it is deleted, whoever writes late and whatever fails, but for scripts  *)
(* and actions deleted by a reset that had found the version a draft.      *)
THEOREM Frozen == Spec => FrozenButByResets
<1> DEFINE Kept == \A v \in Versions : FrozenIn(v) =>
                     \/ ContentKept(v)
                     \/ vstate'[v] = "deleted"
                     \/ /\ \E r \in Requests :
                             req[r].pc \in {"reset_scripts", "reset_actions"} /\ req[r].ver = v
                        /\ \A p \in Content :
                              \/ parts'[v][p] = parts[v][p]
                              \/ p \in Scripts \cup Actions /\ parts'[v][p] = None
<1>1. Inv /\ [Next]_vars => Kept
  <2> SUFFICES ASSUME Inv, [Next]_vars PROVE Kept
    OBVIOUS
  <2>1. CASE ResetsStayInDrafts
    BY <2>1, StepKeepsFrozen DEF FrozenStep
  <2>2. CASE ~ResetsStayInDrafts
    <3>1. PICK r \in Requests : ResetDelete(r)
      BY <2>2 DEF ResetsStayInDrafts
    <3>2. QED
      BY <3>1, ResetsOnlyDelete
  <2>3. QED
    BY <2>1, <2>2
<1>2. QED
  BY <1>1, InvHolds, PTL DEF Spec, FrozenButByResets

(* ADR-007 holds of every run in which no full reset deletes from a        *)
(* version that has been published since the reset looked at it.           *)
THEOREM OnlyLateResetsBreakFrozen ==
  Spec /\ [][ResetsStayInDrafts]_vars => FrozenContent
<1>1. /\ Inv /\ [Next]_vars /\ [ResetsStayInDrafts]_vars
      => [\A v \in Versions :
            FrozenIn(v) => ContentKept(v) \/ vstate'[v] = "deleted"]_vars
  BY StepKeepsFrozen DEF FrozenStep
<1>2. QED
  BY <1>1, InvHolds, PTL DEF Spec, FrozenContent

(* A module that has a published version loses it only to a revocation or  *)
(* to its own deletion; publishing another one is a single step from one   *)
(* published version to the next.                                          *)
PublishedStep ==
  \A v \in Versions :
    vstate[v] = "published" =>
      \/ vstate'[v] \in {"revoked", "deleted"}
      \/ \E w \in Versions : /\ vmodule[w] = vmodule[v]
                             /\ vstate'[w] = "published"

LEMMA PromiseKeepsPublished ==
  TypeOK /\ [Promise!Next]_<<vstate, vmodule, live>> => PublishedStep
<1> SUFFICES ASSUME TypeOK, [Promise!Next]_<<vstate, vmodule, live>>
             PROVE  PublishedStep
  OBVIOUS
<1>1. ASSUME NEW v \in Versions, NEW m \in Modules, Promise!Create(v, m)
      PROVE  PublishedStep
  BY <1>1 DEF Promise!Create, PublishedStep, TypeOK
<1>2. ASSUME NEW v \in Versions, Promise!Publish(v)
      PROVE  PublishedStep
  <2>1. vstate'[v] = "published"
    BY <1>2 DEF Promise!Publish, Promise!AfterPublish
  <2>2. ASSUME NEW x \in Versions, vstate[x] = "published",
               vmodule[x] # vmodule[v]
        PROVE  vstate'[x] = "published"
    BY <1>2, <2>1, <2>2 DEF Promise!Publish, Promise!AfterPublish
  <2>3. QED
    BY <2>1, <2>2 DEF PublishedStep
<1>3. ASSUME NEW v \in Versions, Promise!Revoke(v) \/ Promise!Discard(v)
      PROVE  PublishedStep
  BY <1>3 DEF Promise!Revoke, Promise!Discard, PublishedStep, TypeOK
<1>4. ASSUME NEW m \in Modules, Promise!Remove(m)
      PROVE  PublishedStep
  BY <1>4 DEF Promise!Remove, PublishedStep, TypeOK
<1>5. CASE UNCHANGED <<vstate, vmodule, live>>
  BY <1>5 DEF PublishedStep
<1>6. QED
  BY <1>1, <1>2, <1>3, <1>4, <1>5 DEF Promise!Next

(* Every step of the requests keeps a module's published version, or passes *)
(* to another one, unless it revokes or deletes it.                        *)
THEOREM StaysPublished == Spec => NeverUnpublished
<1>1. Inv /\ [Next]_vars =>
        \A v \in Versions :
          vstate[v] = "published" =>
            \/ vstate'[v] \in {"revoked", "deleted"}
            \/ \E w \in Versions : /\ vmodule[w] = vmodule[v]
                                   /\ vstate'[w] = "published"
  BY StepImplements, PromiseKeepsPublished DEF PublishedStep, Inv
<1>2. QED
  BY <1>1, InvHolds, PTL DEF Spec, NeverUnpublished

-----------------------------------------------------------------------------
(* superseded_by_version: only a publish sets it, and only to the version  *)
(* being published, to which nothing points yet.                           *)
Superseded == {v \in Versions : vstate[v] = "superseded"}

Pointers ==
  \A v \in Versions :
    /\ vstate[v] = "superseded" =>
         /\ by[v] \in Versions
         /\ vmodule[by[v]] = vmodule[v]
         /\ vstate[by[v]] \in {"published", "superseded", "revoked"}
    /\ vstate[v] \in {"unused", "draft", "published"} => by[v] = None

NoCircle ==
  \A S \in SUBSET Superseded : (\A v \in S : by[v] \in S) => S = {}

(* A closed set of superseded versions cannot hold the version published,  *)
(* nor then any it supersedes, so it was closed before.                    *)
LEMMA CommitKeepsPointers ==
  ASSUME Inv, Pointers, NoCircle, NEW r \in Requests, PublishCommit(r)
  PROVE  Pointers' /\ NoCircle'
<1> DEFINE w == req[r].ver
<1>1. /\ w \in Versions
      /\ vstate[w] = "draft"
      /\ vstate' = Promise!AfterPublish(w)
      /\ by' = [x \in Versions |-> IF SupersedeGuard(x, w, vstate)
                                   THEN w ELSE by[x]]
      /\ vmodule' = vmodule
  BY DEF PublishCommit, At, Inv, TypeOK, Locals, LocalsOf, Transaction
<1> HIDE DEF w
<1>2. \A x \in Versions :
        /\ SupersedeGuard(x, w, vstate) =>
             vstate'[x] = "superseded" /\ by'[x] = w
        /\ x # w /\ ~SupersedeGuard(x, w, vstate) =>
             vstate'[x] = vstate[x] /\ by'[x] = by[x]
  BY <1>1 DEF SupersedeGuard, Promise!AfterPublish
<1>3. vstate'[w] = "published" /\ by'[w] = None
  BY <1>1 DEF SupersedeGuard, Promise!AfterPublish, Pointers
<1>4. Pointers'
  <2> SUFFICES ASSUME NEW x \in Versions
               PROVE  /\ vstate'[x] = "superseded" =>
                           /\ by'[x] \in Versions
                           /\ vmodule'[by'[x]] = vmodule'[x]
                           /\ vstate'[by'[x]]
                                \in {"published", "superseded", "revoked"}
                      /\ vstate'[x] \in {"unused", "draft", "published"}
                           => by'[x] = None
    BY DEF Pointers
  <2>1. CASE x = w
    BY <1>3, <2>1
  <2>2. CASE SupersedeGuard(x, w, vstate)
    BY <1>1, <1>2, <1>3, <2>2 DEF SupersedeGuard
  <2>3. CASE x # w /\ ~SupersedeGuard(x, w, vstate)
    <3>1. vstate'[x] = vstate[x] /\ by'[x] = by[x]
      BY <1>2, <2>3
    <3>2. \A y \in Versions :
            vstate[y] \in {"published", "superseded", "revoked"}
            => vstate'[y] \in {"published", "superseded", "revoked"}
      BY <1>1, <1>2, <1>3
    <3>3. QED
      BY <1>1, <3>1, <3>2 DEF Pointers
  <2>4. QED
    BY <2>1, <2>2, <2>3
<1>5. NoCircle'
  <2> SUFFICES ASSUME NEW S, S \subseteq Superseded',
                      \A v \in S : by'[v] \in S
               PROVE  S = {}
    BY DEF NoCircle
  <2>1. \A v \in S : v \in Versions /\ vstate'[v] = "superseded"
    BY DEF Superseded
  <2>2. w \notin S
    BY <1>3, <2>1
  <2>3. \A v \in S : v # w /\ ~SupersedeGuard(v, w, vstate)
    BY <1>2, <2>1, <2>2
  <2>4. \A v \in S : vstate[v] = "superseded" /\ by[v] \in S
    BY <1>2, <2>1, <2>3
  <2>5. QED
    BY <2>1, <2>4 DEF NoCircle, Superseded
<1>6. QED
  BY <1>4, <1>5

(* A step that supersedes nothing and sets no pointer keeps the pointers.  *)
LEMMA OtherStepsKeepPointers ==
  ASSUME TypeOK, Pointers, NoCircle, UNCHANGED by,
         \/ \E v \in Versions, m \in Modules : Promise!Create(v, m)
         \/ \E v \in Versions : Promise!Revoke(v) \/ Promise!Discard(v)
         \/ \E m \in Modules : Promise!Remove(m)
         \/ UNCHANGED <<vstate, vmodule>>
  PROVE  Pointers' /\ NoCircle'
<1>1. ASSUME NEW v \in Versions, NEW m \in Modules, Promise!Create(v, m)
      PROVE  Pointers'
  <2>1. /\ vstate[v] = "unused" /\ vstate'[v] = "draft"
        /\ \A x \in Versions \ {v} : vstate'[x] = vstate[x] /\ vmodule'[x] = vmodule[x]
    BY <1>1 DEF Promise!Create, TypeOK
  <2>2. ASSUME NEW x \in Versions
        PROVE  /\ vstate'[x] = "superseded" =>
                    /\ by'[x] \in Versions
                    /\ vmodule'[by'[x]] = vmodule'[x]
                    /\ vstate'[by'[x]] \in {"published", "superseded", "revoked"}
               /\ vstate'[x] \in {"unused", "draft", "published"} => by'[x] = None
    <3>1. CASE x = v
      BY <2>1, <3>1 DEF Pointers
    <3>2. CASE x # v
      BY <2>1, <3>2 DEF Pointers
    <3> QED BY <3>1, <3>2
  <2> QED BY <2>2 DEF Pointers
<1>2. ASSUME NEW v \in Versions, Promise!Revoke(v) \/ Promise!Discard(v)
      PROVE  Pointers'
  <2>1. /\ vmodule' = vmodule
        /\ \/ vstate[v] \in {"published", "superseded"} /\ vstate'[v] = "revoked"
           \/ vstate[v] = "draft" /\ vstate'[v] = "deleted"
        /\ \A x \in Versions \ {v} : vstate'[x] = vstate[x]
    BY <1>2 DEF Promise!Revoke, Promise!Discard, Promise!Deployable, TypeOK
  <2>2. ASSUME NEW x \in Versions, vstate'[x] = "superseded"
        PROVE  /\ by'[x] \in Versions
               /\ vmodule'[by'[x]] = vmodule'[x]
               /\ vstate'[by'[x]] \in {"published", "superseded", "revoked"}
    <3>1. vstate[x] = "superseded" /\ by' = by
      BY <2>1, <2>2
    <3>2. /\ by[x] \in Versions /\ vmodule[by[x]] = vmodule[x]
          /\ vstate[by[x]] \in {"published", "superseded", "revoked"}
      BY <3>1 DEF Pointers
    <3> QED BY <2>1, <3>1, <3>2
  <2>3. ASSUME NEW x \in Versions, vstate'[x] \in {"unused", "draft", "published"}
        PROVE  by'[x] = None
    BY <2>1, <2>3 DEF Pointers
  <2> QED BY <2>2, <2>3 DEF Pointers
<1>3. ASSUME NEW m \in Modules, Promise!Remove(m)
      PROVE  Pointers'
  BY <1>3 DEF Promise!Remove, Pointers, TypeOK
<1>4. UNCHANGED <<vstate, vmodule>> => Pointers'
  BY DEF Pointers
<1>5. Superseded' \subseteq Superseded
  BY DEF Superseded, Promise!Create, Promise!Revoke, Promise!Discard,
         Promise!Remove, TypeOK
<1>6. NoCircle'
  BY <1>5 DEF NoCircle
<1>7. QED
  BY <1>1, <1>2, <1>3, <1>4, <1>6

LEMMA StepKeepsPointers ==
  Inv /\ Pointers /\ NoCircle /\ [Next]_vars => Pointers' /\ NoCircle'
<1> SUFFICES ASSUME Inv, Pointers, NoCircle, [Next]_vars
             PROVE  Pointers' /\ NoCircle'
  OBVIOUS
<1>0. TypeOK
  BY DEF Inv
<1> DEFINE Quiet == UNCHANGED <<vstate, vmodule, by>>
<1>1. ASSUME NEW v \in Versions, Edit(v)
      PROVE  Pointers' /\ NoCircle'
  <2>1. ASSUME NEW m \in Modules, NEW t \in Texts \cup {None},
               CreateDraft(v, m, t)
        PROVE  Promise!Create(v, m) /\ UNCHANGED by
    BY <2>1 DEF CreateDraft, InsertDraft, Promise!Create
  <2>2. DeleteDraftVersion(v) => Promise!Discard(v) /\ UNCHANGED by
    BY DEF DeleteDraftVersion, DraftGuard, Promise!Discard
  <2>3. Revoke(v) => Promise!Revoke(v) /\ UNCHANGED by
    BY DEF Revoke, RevokeGuard, Promise!Revoke, Promise!Deployable
  <2>4. \/ \E t \in Texts, m \in Texts \cup {None} : UpdateDraft(v, t, m)
        \/ \E t \in Texts : CacheVersionManifest(v, t)
        \/ \E n \in Rows, t \in Texts : UpsertScript(v, n, t)
        \/ \E n \in Rows : DeleteScript(v, n)
        \/ \E old, new \in Rows : RenameScript(v, old, new)
        => Quiet
    BY DEF UpdateDraft, CacheVersionManifest, UpsertScript, DeleteScript, RenameScript
  <2>5. QED
    BY <1>0, <1>1, <2>1, <2>2, <2>3, <2>4, OtherStepsKeepPointers DEF Edit
<1>2. ASSUME NEW m \in Modules, DeletePolicyModule(m)
      PROVE  Pointers' /\ NoCircle'
  <2>1. Promise!Remove(m) /\ UNCHANGED by
    BY <1>2 DEF DeletePolicyModule, Promise!Remove
  <2>2. QED
    BY <1>0, <2>1, OtherStepsKeepPointers
<1>3. ASSUME NEW r \in Requests, NEW v \in Versions,
             ForkCreate(r, v) \/ RevokeNext(r, v)
      PROVE  Pointers' /\ NoCircle'
  <2>1. ForkCreate(r, v) =>
          \E m \in Modules : Promise!Create(v, m) /\ UNCHANGED by
    BY DEF ForkCreate, InsertDraft, Promise!Create, Inv, TypeOK
  <2>2. RevokeNext(r, v) => (Promise!Revoke(v) /\ UNCHANGED by) \/ Quiet
    BY DEF RevokeNext, RevokeGuard, Promise!Revoke, Promise!Deployable
  <2>3. QED
    BY <1>0, <1>3, <2>1, <2>2, OtherStepsKeepPointers
<1>4. ASSUME NEW r \in Requests,
             \/ Start(r) \/ PublishCheck(r) \/ PublishMark(r)
             \/ PublishSupersede(r) \/ ForkList(r) \/ ForkDone(r) \/ Fail(r)
             \/ ResetDelete(r)
             \/ \E n \in Rows : ForkCopy(r, n)
      PROVE  Pointers' /\ NoCircle'
  <2>1. Quiet
    BY <1>4 DEF Start, PublishRead, ForkRead, RevokeList, FullReset, PublishCheck,
                PublishMark, PublishSupersede, ForkList, ForkDone, Fail, ForkCopy,
                ResetDelete, DeleteCustomScripts, DeleteCustomActions
  <2>2. QED
    BY <1>0, <2>1, OtherStepsKeepPointers
<1>5. CASE Crash \/ UNCHANGED vars
  <2>1. Quiet
    BY <1>5 DEF Crash, vars
  <2>2. QED
    BY <1>0, <2>1, OtherStepsKeepPointers
<1>6. QED
  BY <1>1, <1>2, <1>3, <1>4, <1>5, CommitKeepsPointers DEF Next, Continue

(* What superseded_by_version says is true of every superseded version,    *)
(* and following it ends.                                                  *)
THEOREM SupersededByHolds == Spec => []SupersededByIsSound
<1>1. Init => Pointers /\ NoCircle
  BY DEF Init, Pointers, NoCircle, Superseded
<1>2. Inv /\ Pointers /\ NoCircle => SupersededByIsSound
  BY NoneIsNothing
     DEF Pointers, NoCircle, Superseded, SupersededByIsSound
<1>3. QED
  BY <1>1, <1>2, InvHolds, StepKeepsPointers, PTL DEF Spec

-----------------------------------------------------------------------------
(* INV-M3 and the gap it falls through.  DeployableHasApply is violated:   *)
(* PublishCheck reads the apply script before BEGIN and PublishMark guards *)
(* on the state alone.  A late reset (see Frozen) is the only other way to *)
(* lose the script: as long as nobody takes it from a version between the  *)
(* two, and no late reset deletes it, every deployable version has it.     *)
HasApply(v) == parts[v][Apply] # None

Publishing == {"pub_check", "pub_mark", "pub_supersede", "pub_commit"}

ApplyStaysOnceChecked ==
  \A r \in Requests :
    At(r, "pub_mark") /\ HasApply(req[r].ver) =>
      \/ parts'[req[r].ver][Apply] # None
      \/ vstate'[req[r].ver] = "deleted"

Checked ==
  \A r \in Requests :
    req[r].pc \in Publishing =>
      /\ vstate[req[r].ver] # "unused"
      /\ ~At(r, "pub_check") /\ vstate[req[r].ver] = "draft"
           => HasApply(req[r].ver)

(* How the states of versions move in a step of the requests.              *)
LEMMA StatesMove ==
  ASSUME Inv, [Next]_vars, NEW v \in Versions
  PROVE  /\ vstate'[v] = "unused" => vstate[v] = "unused"
         /\ vstate'[v] = "draft" => vstate[v] \in {"draft", "unused"}
<1>0. TypeOK /\ [Promise!Next]_<<vstate, vmodule, live>>
  BY StepImplements DEF Inv
<1>1. ASSUME NEW x \in Versions, NEW m \in Modules, Promise!Create(x, m)
      PROVE  vstate'[v] = vstate[v] \/ (vstate[v] = "unused" /\ vstate'[v] = "draft")
  BY <1>0, <1>1 DEF Promise!Create, TypeOK
<1>2. ASSUME NEW x \in Versions, Promise!Publish(x)
      PROVE  vstate'[v] = vstate[v] \/ vstate'[v] \in {"published", "superseded"}
  BY <1>0, <1>2 DEF Promise!Publish, Promise!AfterPublish, TypeOK
<1>3. ASSUME NEW x \in Versions, Promise!Revoke(x) \/ Promise!Discard(x)
      PROVE  vstate'[v] = vstate[v] \/ vstate'[v] \in {"revoked", "deleted"}
  BY <1>0, <1>3 DEF Promise!Revoke, Promise!Discard, TypeOK
<1>4. ASSUME NEW m \in Modules, Promise!Remove(m)
      PROVE  vstate'[v] = vstate[v] \/ vstate'[v] = "deleted"
  BY <1>0, <1>4 DEF Promise!Remove, TypeOK
<1> QED BY <1>0, <1>1, <1>2, <1>3, <1>4 DEF Promise!Next

(* Only the end of a publish makes a version deployable; while its         *)
(* transaction is open no part is written.                                 *)
LEMMA OnlyCommitPublishes ==
  ASSUME Inv, [Next]_vars, NEW v \in Versions,
         vstate'[v] = "published", vstate[v] # "published"
  PROVE  \E r \in Requests : At(r, "pub_commit") /\ req[r].ver = v
<1>1. ASSUME NEW x \in Versions, Edit(x) PROVE FALSE
  BY <1>1 DEF Inv, TypeOK, Edit, CreateDraft, InsertDraft, UpdateDraft,
              CacheVersionManifest, UpsertScript, DeleteScript, RenameScript, DeleteDraftVersion, Revoke
<1>2. ASSUME NEW m \in Modules, DeletePolicyModule(m) PROVE FALSE
  BY <1>2 DEF DeletePolicyModule
<1>3. ASSUME NEW r \in Requests, PublishCommit(r)
      PROVE  At(r, "pub_commit") /\ req[r].ver = v
  <2>1. At(r, "pub_commit") /\ vstate' = Promise!AfterPublish(req[r].ver)
    BY <1>3 DEF PublishCommit, At, Inv, Transaction
  <2> QED BY <2>1 DEF Promise!AfterPublish
<1>4. ASSUME NEW r \in Requests,
             \/ Start(r) \/ PublishCheck(r) \/ PublishMark(r)
             \/ PublishSupersede(r) \/ ForkList(r) \/ ForkDone(r) \/ Fail(r)
             \/ ResetDelete(r)
             \/ \E n \in Rows : ForkCopy(r, n)
      PROVE  FALSE
  BY <1>4 DEF Start, PublishRead, ForkRead, RevokeList, FullReset, PublishCheck,
              PublishMark, PublishSupersede, ForkList, ForkDone, Fail, ForkCopy,
              ResetDelete, DeleteCustomScripts, DeleteCustomActions
<1>5. ASSUME NEW r \in Requests, NEW x \in Versions,
             ForkCreate(r, x) \/ RevokeNext(r, x)
      PROVE  FALSE
  BY <1>5 DEF ForkCreate, InsertDraft, RevokeNext, Inv, TypeOK
<1>6. CASE Crash \/ UNCHANGED vars
  BY <1>6 DEF Crash, vars
<1> QED BY <1>1, <1>2, <1>3, <1>4, <1>5, <1>6 DEF Next, Continue

LEMMA TransactionHoldsParts ==
  ASSUME Inv, [Next]_vars, NEW r \in Requests,
         req[r].pc \in {"pub_supersede", "pub_commit"}
  PROVE  UNCHANGED parts
<1>1. conn # None
  BY NoneIsNothing DEF Inv, Transaction
<1>2. \A x \in Versions : ~Edit(x)
  BY <1>1 DEF Edit, CreateDraft, UpdateDraft, CacheVersionManifest, UpsertScript,
              DeleteScript, RenameScript, DeleteDraftVersion, Revoke, Statement
<1>3. \A m \in Modules : ~DeletePolicyModule(m)
  BY <1>1 DEF DeletePolicyModule, Statement
<1>4. \A s \in Requests :
        /\ \A n \in Rows : ~ForkCopy(s, n)
        /\ \A x \in Versions : ~ForkCreate(s, x) /\ ~RevokeNext(s, x)
        /\ ~ResetDelete(s)
  BY <1>1 DEF ForkCopy, ForkCreate, RevokeNext, ResetDelete, DeleteCustomScripts,
              DeleteCustomActions, Statement
<1>5. ASSUME NEW s \in Requests,
             \/ Start(s) \/ PublishCheck(s) \/ PublishMark(s)
             \/ PublishSupersede(s) \/ PublishCommit(s)
             \/ ForkList(s) \/ ForkDone(s) \/ Fail(s)
      PROVE  UNCHANGED parts
  BY <1>5 DEF Start, PublishRead, ForkRead, RevokeList, FullReset, PublishCheck, PublishMark,
              PublishSupersede, PublishCommit, ForkList, ForkDone, Fail
<1>6. Crash \/ UNCHANGED vars => UNCHANGED parts
  BY DEF Crash, vars
<1> QED BY <1>2, <1>3, <1>4, <1>5, <1>6 DEF Next, Continue

(* A publish under way after a step was under way before, or has just read *)
(* a draft; it gets past its check only over an apply script.              *)
LEMMA PublishesMove ==
  ASSUME Inv, [Next]_vars, NEW r \in Requests, req'[r].pc \in Publishing
  PROVE  \/ req'[r] = req[r]
         \/ /\ req[r].pc \in Publishing
            /\ req'[r].ver = req[r].ver
            /\ UNCHANGED <<vstate, parts>>
            /\ At(r, "pub_check") => HasApply(req[r].ver)
         \/ /\ req'[r].pc = "pub_check"
            /\ UNCHANGED vstate
            /\ vstate[req'[r].ver] = "draft"
<1>0. req \in [Requests -> RequestType] /\ Idle.pc = "idle"
  BY IdleIsTyped DEF Inv, TypeOK
<1> DEFINE Moved == \/ req'[r] = req[r]
                    \/ /\ req[r].pc \in Publishing
                       /\ req'[r].ver = req[r].ver
                       /\ UNCHANGED <<vstate, parts>>
                       /\ At(r, "pub_check") => HasApply(req[r].ver)
                    \/ /\ req'[r].pc = "pub_check"
                       /\ UNCHANGED vstate
                       /\ vstate[req'[r].ver] = "draft"
<1> SUFFICES Moved
  OBVIOUS
<1>1. ASSUME NEW x \in Versions, Edit(x) PROVE Moved
  BY <1>1 DEF Edit, CreateDraft, UpdateDraft, CacheVersionManifest, UpsertScript,
              DeleteScript, RenameScript, DeleteDraftVersion, Revoke
<1>2. ASSUME NEW m \in Modules, DeletePolicyModule(m) PROVE Moved
  BY <1>2 DEF DeletePolicyModule
<1>3. ASSUME NEW s \in Requests, s # r, Start(s) \/ Continue(s) PROVE Moved
  <2>1. PICK q : Goto(s, q) \/ UNCHANGED req
    BY <1>3 DEF Start, Continue, PublishRead, ForkRead, RevokeList, FullReset,
                PublishCheck, PublishMark, PublishSupersede, PublishCommit,
                ForkCreate, ForkList, ForkCopy, ForkDone, RevokeNext, Fail,
                ResetDelete, DeleteCustomScripts, DeleteCustomActions
  <2> QED BY <1>0, <1>3, <2>1 DEF Goto
<1>4. CASE Start(r)
  <2>1. ASSUME NEW x \in Versions, PublishRead(r, x) PROVE Moved
    BY <1>0, <2>1 DEF PublishRead, Goto, Idle
  <2>2. ASSUME NEW x \in Versions, ForkRead(r, x) PROVE FALSE
    BY <1>0, <2>2 DEF ForkRead, Goto, Idle, Publishing
  <2>3. ASSUME NEW m \in Modules, RevokeList(r, m) PROVE FALSE
    BY <1>0, <2>3 DEF RevokeList, Goto, Idle, Publishing
  <2>4. ASSUME NEW x \in Versions, FullReset(r, x) PROVE FALSE
    BY <1>0, <2>4 DEF FullReset, Goto, Idle, Publishing
  <2> QED BY <1>4, <2>1, <2>2, <2>3, <2>4 DEF Start
<1>5. CASE PublishCheck(r)
  BY <1>0, <1>5 DEF PublishCheck, Goto, At, HasApply, Publishing, RequestType
<1>6. CASE PublishMark(r) \/ PublishSupersede(r)
  BY <1>0, <1>6 DEF PublishMark, PublishSupersede, Goto, At, Publishing, RequestType
<1>7. CASE PublishCommit(r) \/ ForkDone(r) \/ Fail(r) \/ Crash
  BY <1>0, <1>7 DEF PublishCommit, ForkDone, Fail, Crash, Goto, Publishing
<1>8. ASSUME NEW x \in Versions, ForkCreate(r, x) \/ RevokeNext(r, x) PROVE FALSE
  <2>1. ForkCreate(r, x) => req'[r].pc = "fork_list"
    BY <1>0 DEF ForkCreate, Goto, RequestType
  <2>2. RevokeNext(r, x) => req'[r].pc \in {"revoke_next", "idle"}
    BY <1>0 DEF RevokeNext, Goto, At, RequestType
  <2> QED BY <1>8, <2>1, <2>2 DEF Publishing
<1>9. CASE ForkList(r) \/ \E n \in Rows : ForkCopy(r, n)
  <2>1. ForkList(r) => req'[r].pc = "fork_copy"
    BY <1>0 DEF ForkList, Goto, RequestType
  <2>2. ASSUME NEW n \in Rows, ForkCopy(r, n)
        PROVE  req'[r].pc \in {"fork_copy", "idle"}
    BY <1>0, <2>2 DEF ForkCopy, Goto, At, RequestType
  <2> QED BY <1>9, <2>1, <2>2 DEF Publishing
<1>10. CASE UNCHANGED vars
  BY <1>10 DEF vars
<1>11. ResetDelete(r) => req'[r].pc \in {"reset_actions", "idle"}
  BY <1>0 DEF ResetDelete, DeleteCustomScripts, DeleteCustomActions, Goto, RequestType
<1>12. ~ResetDelete(r)
  BY <1>11 DEF Publishing
<1> QED
  BY <1>1, <1>2, <1>3, <1>4, <1>5, <1>6, <1>7, <1>8, <1>9, <1>10, <1>12
     DEF Next, Continue

LEMMA StepKeepsChecked ==
  ASSUME Inv, Checked, DeployableHasApply, [Next]_vars,
         ApplyStaysOnceChecked, ResetsStayInDrafts
  PROVE  Checked' /\ DeployableHasApply'
<1>1. DeployableHasApply'
  <2> SUFFICES ASSUME NEW v \in Versions, vstate'[v] = "published"
               PROVE  HasApply(v)'
    BY DEF DeployableHasApply, HasApply
  <2>1. CASE vstate[v] = "published"
    <3>1. HasApply(v)
      BY <2>1 DEF DeployableHasApply, HasApply
    <3>2. ContentKept(v)
      BY <2>1, StepKeepsFrozen DEF FrozenStep, FrozenIn
    <3>3. Apply \in Content
      BY ApplyIsAScript, ScriptsAndActionsAreRows DEF Content
    <3> QED BY <3>1, <3>2, <3>3 DEF HasApply, ContentKept
  <2>2. CASE vstate[v] # "published"
    <3>1. PICK r \in Requests : At(r, "pub_commit") /\ req[r].ver = v
      BY <2>2, OnlyCommitPublishes
    <3>2. vstate[v] = "draft"
      BY <3>1 DEF Inv, Transaction, At
    <3>3. HasApply(v)
      BY <3>1, <3>2 DEF Checked, Publishing, At
    <3>4. UNCHANGED parts
      BY <3>1, TransactionHoldsParts DEF At
    <3> QED BY <3>3, <3>4 DEF HasApply
  <2> QED BY <2>1, <2>2
<1>2. Checked'
  <2> SUFFICES ASSUME NEW r \in Requests, req'[r].pc \in Publishing
               PROVE  /\ vstate'[req'[r].ver] # "unused"
                      /\ req'[r].pc # "pub_check" /\ vstate'[req'[r].ver] = "draft"
                           => parts'[req'[r].ver][Apply] # None
    BY DEF Checked, HasApply, At
  <2>1. CASE req'[r] = req[r]
    <3> DEFINE v == req[r].ver
    <3>1. v \in Versions /\ vstate[v] # "unused" /\ req[r].pc \in Publishing
      BY <2>1 DEF Inv, Locals, LocalsOf, Checked, Publishing
    <3>2. vstate'[v] # "unused" /\ (vstate'[v] = "draft" => vstate[v] = "draft")
      BY <3>1, StatesMove
    <3>3. ASSUME req[r].pc # "pub_check", vstate'[v] = "draft" 
          PROVE  parts'[v][Apply] # None
      <4>1. parts[v][Apply] # None
        BY <3>1, <3>2, <3>3 DEF Checked, At, HasApply
      <4>2. CASE At(r, "pub_mark")
        BY <3>3, <4>1, <4>2 DEF ApplyStaysOnceChecked, HasApply
      <4>3. CASE req[r].pc \in {"pub_supersede", "pub_commit"}
        BY <4>1, <4>3, TransactionHoldsParts
      <4> QED BY <3>1, <3>3, <4>2, <4>3 DEF Publishing, At
    <3> QED BY <2>1, <3>2, <3>3
  <2>2. CASE /\ req[r].pc \in Publishing
             /\ req'[r].ver = req[r].ver
             /\ UNCHANGED <<vstate, parts>>
             /\ At(r, "pub_check") => HasApply(req[r].ver)
    BY <2>2 DEF Checked, HasApply, At
  <2>3. CASE /\ req'[r].pc = "pub_check"
             /\ UNCHANGED vstate
             /\ vstate[req'[r].ver] = "draft"
    BY <2>3
  <2> QED BY <2>1, <2>2, <2>3, PublishesMove
<1> QED BY <1>1, <1>2

(* INV-M3 holds of every run in which no apply script is taken away from a *)
(* version between the check of a publish and its transaction, and no      *)
(* reset deletes from a version published since it looked.                 *)
THEOREM OnlyTwoGapsBreakInvM3 ==
  Spec /\ [][ApplyStaysOnceChecked]_vars /\ [][ResetsStayInDrafts]_vars
  => []DeployableHasApply
<1>1. Init => Checked /\ DeployableHasApply
  BY IdleIsTyped DEF Init, Checked, DeployableHasApply, Publishing
<1>2. ASSUME UNCHANGED vars
      PROVE  ApplyStaysOnceChecked /\ (Inv => ResetsStayInDrafts)
  <2>1. ApplyStaysOnceChecked
    BY <1>2 DEF vars, ApplyStaysOnceChecked, HasApply
  <2>2. ASSUME Inv, NEW r \in Requests, ResetDelete(r) PROVE FALSE
    <3>1. req \in [Requests -> RequestType] /\ req' = req
      BY <1>2, <2>2 DEF vars, Inv, TypeOK
    <3>2. QED
      BY <2>2, <3>1, IdleIsTyped
         DEF ResetDelete, DeleteCustomScripts, DeleteCustomActions, At, Goto, RequestType
  <2>3. QED
    BY <2>1, <2>2 DEF ResetsStayInDrafts
<1>3. /\ Inv /\ Checked /\ DeployableHasApply
      /\ [Next]_vars /\ [ApplyStaysOnceChecked]_vars /\ [ResetsStayInDrafts]_vars
      => Checked' /\ DeployableHasApply'
  BY <1>2, StepKeepsChecked
<1> QED BY <1>1, <1>3, InvHolds, PTL DEF Spec

-----------------------------------------------------------------------------
(* How long a request takes.  That it ends is left to TLC, which has the   *)
(* fairness for it; here is why it cannot go on for ever: every statement  *)
(* of a request takes it to a later stage, or leaves fewer rows to copy or *)
(* fewer versions to revoke, and nothing others do adds to those.          *)
Stage(q) ==
  CASE q.pc \in {"pub_check", "fork_create", "revoke_next", "reset_scripts"} -> 1
    [] q.pc \in {"pub_mark", "fork_list", "reset_actions"} -> 2
    [] q.pc \in {"pub_supersede", "fork_copy"} -> 3
    [] q.pc = "pub_commit" -> 4
    [] q.pc = "idle" -> 5

RowsLeft(q) == {n \in Parts : q.copy[n] # None}

(* S is what is left of T.                                                 *)
Fewer(S, T) == S \subseteq T /\ S # T

Forward(q, p) ==
  \/ Stage(p) > Stage(q)
  \/ q.pc = "fork_copy" /\ p.pc = q.pc /\ Fewer(RowsLeft(p), RowsLeft(q))
  \/ q.pc = "revoke_next" /\ p.pc = q.pc /\ Fewer(p.revs, q.revs)

LEMMA EndingIsForward ==
  ASSUME NEW q \in RequestType, q.pc # "idle"
  PROVE  Forward(q, Idle)
<1>1. Stage(Idle) = 5
  BY IdleIsTyped DEF Stage
<1>2. Stage(q) \in 1..4
  BY DEF Stage, RequestType, Labels
<1>3. QED
  BY <1>1, <1>2 DEF Forward

LEMMA ContinueIsForward ==
  ASSUME Inv, NEW r \in Requests, Continue(r)
  PROVE  Forward(req[r], req'[r])
<1> DEFINE q == req[r]
<1>0. req \in [Requests -> RequestType] /\ q \in RequestType
  BY DEF Inv, TypeOK
<1>1. q.pc # "idle" => Forward(q, Idle)
  BY <1>0, EndingIsForward
<1>2. CASE PublishCheck(r) \/ PublishMark(r) \/ PublishSupersede(r)
  <2>1. /\ q.pc \in {"pub_check", "pub_mark", "pub_supersede"}
        /\ \/ req'[r] = Idle
           \/ q.pc = "pub_check" /\ req'[r].pc = "pub_mark"
           \/ q.pc = "pub_mark" /\ req'[r].pc = "pub_supersede"
           \/ q.pc = "pub_supersede" /\ req'[r].pc = "pub_commit"
    BY <1>0, <1>2
       DEF PublishCheck, PublishMark, PublishSupersede, At, Goto, RequestType
  <2>2. CASE req'[r] = Idle
    BY <1>1, <2>1, <2>2
  <2>3. CASE req'[r] # Idle
    <3>1. Stage(req'[r]) > Stage(q)
      BY <2>1, <2>3 DEF Stage
    <3>2. QED
      BY <3>1 DEF Forward
  <2>4. QED
    BY <2>2, <2>3
<1>3. CASE PublishCommit(r) \/ ForkDone(r) \/ Fail(r)
  <2>1. q.pc # "idle" /\ req'[r] = Idle
    BY <1>0, <1>3 DEF PublishCommit, ForkDone, Fail, At, Goto
  <2>2. QED
    BY <1>1, <2>1
<1>4. ASSUME NEW v \in Versions, ForkCreate(r, v) PROVE Forward(q, req'[r])
  <2>1. q.pc = "fork_create" /\ req'[r].pc = "fork_list"
    BY <1>0, <1>4 DEF ForkCreate, At, Goto, RequestType
  <2>2. QED
    BY <2>1 DEF Forward, Stage
<1>5. CASE ForkList(r)
  <2>1. q.pc = "fork_list" /\ req'[r].pc = "fork_copy"
    BY <1>0, <1>5 DEF ForkList, At, Goto, RequestType
  <2>2. QED
    BY <2>1 DEF Forward, Stage
<1>6. ASSUME NEW n \in Rows, ForkCopy(r, n) PROVE Forward(q, req'[r])
  <2>1. q.pc = "fork_copy" /\ q.copy[n] # None /\ n \in Parts
    BY <1>6 DEF ForkCopy, At, Parts
  <2>2. CASE req'[r] = Idle
    BY <1>1, <2>1, <2>2
  <2>3. CASE req'[r] # Idle
    <3>1. req'[r] = [q EXCEPT !.copy[n] = None]
      BY <1>0, <1>6, <2>3 DEF ForkCopy, Goto
    <3>2. q.copy \in [Parts -> Texts \cup {None}]
      BY <1>0 DEF RequestType
    <3>3. req'[r].pc = q.pc /\ req'[r].copy = [q.copy EXCEPT ![n] = None]
      BY <1>0, <3>1 DEF RequestType
    <3>4. n \in RowsLeft(q) /\ n \notin RowsLeft(req'[r])
      BY <2>1, <3>2, <3>3 DEF RowsLeft
    <3>5. RowsLeft(req'[r]) \subseteq RowsLeft(q)
      BY <3>2, <3>3 DEF RowsLeft
    <3>6. QED
      BY <2>1, <3>3, <3>4, <3>5 DEF Forward, Fewer
  <2>4. QED
    BY <2>2, <2>3
<1>7. ASSUME NEW v \in Versions, RevokeNext(r, v) PROVE Forward(q, req'[r])
  <2>1. q.pc = "revoke_next" /\ v \in q.revs
    BY <1>7 DEF RevokeNext, At
  <2>2. CASE req'[r] = Idle
    BY <1>1, <2>1, <2>2
  <2>3. CASE req'[r] # Idle
    <3>1. req'[r] = [q EXCEPT !.revs = @ \ {v}]
      BY <1>0, <1>7, <2>3 DEF RevokeNext, Goto
    <3>2. req'[r].pc = q.pc /\ req'[r].revs = q.revs \ {v}
      BY <1>0, <3>1 DEF RequestType
    <3>3. QED
      BY <2>1, <3>2 DEF Forward, Fewer
  <2>4. QED
    BY <2>2, <2>3
<1>8. CASE ResetDelete(r)
  <2>1. CASE req'[r] = Idle
    BY <1>1, <1>8, <2>1 DEF ResetDelete, DeleteCustomScripts, DeleteCustomActions, At
  <2>2. CASE req'[r] # Idle
    <3>1. q.pc = "reset_scripts" /\ req'[r].pc = "reset_actions"
      BY <1>0, <1>8, <2>2
         DEF ResetDelete, DeleteCustomScripts, DeleteCustomActions, At, Goto, RequestType
    <3>2. QED
      BY <3>1 DEF Forward, Stage
  <2>3. QED
    BY <2>1, <2>2
<1>9. QED
  BY <1>2, <1>3, <1>4, <1>5, <1>6, <1>7, <1>8 DEF Continue

(* A publish, a fork and a bulk revocation only go forward, whatever other *)
(* requests do to the versions they are about.                             *)
THEOREM RequestsGoForward ==
  Spec =>
    [][\A r \in Requests :
         ~At(r, "idle") /\ req'[r] # req[r] => Forward(req[r], req'[r])]_vars
<1> DEFINE Goes(r) ==
      ~At(r, "idle") /\ req'[r] # req[r] => Forward(req[r], req'[r])
<1>1. ASSUME Inv, [Next]_vars, NEW r \in Requests, ~At(r, "idle"),
             req'[r] # req[r]
      PROVE  Forward(req[r], req'[r])
  <2>0. req \in [Requests -> RequestType]
    BY <1>1 DEF Inv, TypeOK
  <2>1. ASSUME NEW s \in Requests, Start(s) \/ Continue(s)
        PROVE  s = r
    <3>1. PICK q : Goto(s, q) \/ UNCHANGED req
      BY <2>1 DEF Start, Continue, PublishRead, ForkRead, RevokeList, FullReset,
                  PublishCheck, PublishMark, PublishSupersede, PublishCommit,
                  ForkCreate, ForkList, ForkCopy, ForkDone, RevokeNext, Fail,
                  ResetDelete, DeleteCustomScripts, DeleteCustomActions
    <3>2. QED
      BY <1>1, <2>0, <3>1 DEF Goto
  <2>2. ~Start(r)
    BY <1>1 DEF Start, PublishRead, ForkRead, RevokeList, FullReset
  <2>3. \A v \in Versions : ~Edit(v)
    BY <1>1 DEF Edit, CreateDraft, UpdateDraft, CacheVersionManifest, UpsertScript,
                DeleteScript, RenameScript, DeleteDraftVersion, Revoke
  <2>4. \A m \in Modules : ~DeletePolicyModule(m)
    BY <1>1 DEF DeletePolicyModule
  <2>5. CASE Crash
    BY <1>1, <2>0, <2>5, EndingIsForward DEF Crash, At
  <2>6. CASE Continue(r)
    BY <1>1, <2>6, ContinueIsForward
  <2>7. QED
    BY <1>1, <2>1, <2>2, <2>3, <2>4, <2>5, <2>6 DEF Next, vars
<1>2. Inv /\ [Next]_vars => [\A r \in Requests : Goes(r)]_vars
  BY <1>1
<1>3. QED
  BY <1>2, InvHolds, PTL DEF Spec

=============================================================================
