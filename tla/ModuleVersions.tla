--------------------------- MODULE ModuleVersions ---------------------------
(***************************************************************************)
(* The version lifecycle of policy modules as PolicyModuleService carries  *)
(* it out (src/pkg/services/policymodules.go and its _scripts and          *)
(* _conditions companions): HTTP requests run concurrently, each is a      *)
(* sequence of SQL statements, and only Publish uses a transaction.        *)
(*                                                                         *)
(* The pool holds one connection (SetMaxOpenConns(1)), so a statement is   *)
(* atomic and an open transaction keeps every other statement waiting:     *)
(* conn names the request whose transaction is open, and work holds what   *)
(* that transaction has written and not committed.                         *)
(*                                                                         *)
(* The content of a version is abstracted to its parts: Fields stands for  *)
(* the columns UpdateDraft writes, Manifest for manifest_yaml, which it    *)
(* writes too and an export caches, and every other part is a row of its   *)
(* own (a script, an action, a test), written by draft-guarded statements  *)
(* and thrown away by two that are not guarded, those of a full reset;     *)
(* Apply is the script publishing requires.  A save over a script of       *)
(* origin "default" first writes a second row that keeps the default: two  *)
(* UpsertScripts.                                                          *)
(*                                                                         *)
(* No handler changes a version's number once the row exists and           *)
(* UNIQUE(module_id, version) keeps numbers apart within a module, so the  *)
(* row's id stands for the number superseded_by_version holds.             *)
(***************************************************************************)

CONSTANTS
    Modules, Versions, None,
    Rows,       \* the script, action and test rows a version may have
    Scripts,    \* which of them are scripts
    Actions,    \* and which are actions
    Apply,      \* the script named "apply"
    Fields,     \* the version row's own editable columns
    Manifest,   \* its manifest_yaml column
    Texts,      \* contents a part can have; None is an absent or blank one
    Requests    \* requests of several statements, in flight or not

Parts == Rows \cup {Fields, Manifest}

(* What ADR-007 freezes; the manifest is an artifact derived from it.      *)
Content == Rows \cup {Fields}

ASSUME ApplyIsAScript == Apply \in Scripts
ASSUME ScriptsAndActionsAreRows == Scripts \cup Actions \subseteq Rows
ASSUME ColumnsAreNoRows ==
    Fields \notin Rows /\ Manifest \notin Rows /\ Fields # Manifest
ASSUME NoneIsNothing ==
    None \notin Modules \cup Versions \cup Texts \cup Requests

VARIABLES
    vstate, vmodule, live,  \* as in VersionLifecycle
    parts,                  \* parts[v][p]: content of part p, None if absent
    by,                     \* by[v]: superseded_by_version
    conn,                   \* request whose transaction is open, or None
    work,                   \* what that transaction sees, or None
    req                     \* req[r]: where request r is and its locals

vars == <<vstate, vmodule, live, parts, by, conn, work, req>>

Promise == INSTANCE VersionLifecycle
    WITH Modules <- Modules, Versions <- Versions, None <- None,
         vstate <- vstate, vmodule <- vmodule, live <- live

NoParts == [p \in Parts |-> None]

Idle == [pc |-> "idle", ver |-> None, src |-> None,
         copy |-> NoParts, revs |-> {}]

Labels == {"idle", "pub_check", "pub_mark", "pub_supersede", "pub_commit",
           "fork_create", "fork_list", "fork_copy", "revoke_next",
           "reset_scripts", "reset_actions"}

RequestType ==
    [pc   : Labels,
     ver  : Versions \cup {None},           \* version published, filled, reset
     src  : Versions \cup {None},           \* version forked from
     copy : [Parts -> Texts \cup {None}],   \* parts still to be copied
     revs : SUBSET Versions]                \* versions still to be revoked

TypeOK ==
    /\ vstate \in [Versions -> Promise!VersionStates]
    /\ vmodule \in [Versions -> Modules \cup {None}]
    /\ live \subseteq Modules
    /\ parts \in [Versions -> [Parts -> Texts \cup {None}]]
    /\ by \in [Versions -> Versions \cup {None}]
    /\ conn \in Requests \cup {None}
    /\ req \in [Requests -> RequestType]
    /\ conn # None =>
         work \in [state : [Versions -> Promise!VersionStates],
                   by : [Versions -> Versions \cup {None}]]

Init ==
    /\ vstate = [v \in Versions |-> "unused"]
    /\ vmodule = [v \in Versions |-> None]
    /\ live = Modules
    /\ parts = [v \in Versions |-> NoParts]
    /\ by = [v \in Versions |-> None]
    /\ conn = None
    /\ work = None
    /\ req = [r \in Requests |-> Idle]

(* A statement outside a transaction gets the connection.                  *)
Statement == conn = None /\ UNCHANGED <<conn, work>>

At(r, label) == req[r].pc = label

Goto(r, rec) == req' = [req EXCEPT ![r] = rec]

-----------------------------------------------------------------------------
(* Requests of one statement that changes state.                           *)

(* INSERT of a draft row whose columns are given and whose rows are not    *)
(* written yet.  The foreign key rejects a module that is gone.            *)
InsertDraft(v, m, content) ==
    /\ vstate[v] = "unused"
    /\ m \in live
    /\ vstate' = [vstate EXCEPT ![v] = "draft"]
    /\ vmodule' = [vmodule EXCEPT ![v] = m]
    /\ parts' = [parts EXCEPT ![v] = content]

CreateDraft(v, m, t) ==
    /\ Statement
    /\ InsertDraft(v, m, [NoParts EXCEPT ![Fields] = t])
    /\ UNCHANGED <<live, by, req>>

(* The WHERE state = 'draft' every statement that writes a part carries.   *)
DraftGuard(v) == vstate[v] = "draft"

WritePart(v, p, t) ==
    /\ DraftGuard(v)
    /\ parts' = [parts EXCEPT ![v][p] = t]

(* The manifest goes back as some earlier read found it.                   *)
UpdateDraft(v, t, manifest) ==
    /\ Statement
    /\ DraftGuard(v)
    /\ parts' = [parts EXCEPT ![v] = [@ EXCEPT ![Fields] = t,
                                               ![Manifest] = manifest]]
    /\ UNCHANGED <<vstate, vmodule, live, by, req>>

(* An export caches the manifest it has built, whatever the version's      *)
(* state; the row may be gone by then.                                     *)
CacheVersionManifest(v, t) ==
    /\ Statement
    /\ vstate[v] \notin {"unused", "deleted"}
    /\ parts' = [parts EXCEPT ![v][Manifest] = t]
    /\ UNCHANGED <<vstate, vmodule, live, by, req>>

UpsertScript(v, n, t) ==
    /\ Statement
    /\ WritePart(v, n, t)
    /\ UNCHANGED <<vstate, vmodule, live, by, req>>

DeleteScript(v, n) ==
    /\ Statement
    /\ parts[v][n] # None
    /\ WritePart(v, n, None)
    /\ UNCHANGED <<vstate, vmodule, live, by, req>>

(* UNIQUE(version_id, name) rejects a name that is taken.                  *)
RenameScript(v, old, new) ==
    /\ Statement
    /\ DraftGuard(v)
    /\ parts[v][old] # None
    /\ parts[v][new] = None
    /\ parts' = [parts EXCEPT ![v] = [@ EXCEPT ![new] = parts[v][old],
                                               ![old] = None]]
    /\ UNCHANGED <<vstate, vmodule, live, by, req>>

(* Scripts and tests go with the row (ON DELETE CASCADE).                  *)
DeleteDraftVersion(v) ==
    /\ Statement
    /\ DraftGuard(v)
    /\ vstate' = [vstate EXCEPT ![v] = "deleted"]
    /\ parts' = [parts EXCEPT ![v] = NoParts]
    /\ UNCHANGED <<vmodule, live, by, req>>

RevokeGuard(v) == vstate[v] \in {"published", "superseded"}

Revoke(v) ==
    /\ Statement
    /\ RevokeGuard(v)
    /\ vstate' = [vstate EXCEPT ![v] = "revoked"]
    /\ UNCHANGED <<vmodule, live, parts, by, req>>

(* DELETE of the module row, by whichever path (a delete in immediate      *)
(* mode, a bulk purge, the purge cycle); its versions and their rows       *)
(* cascade.  The reference guards before it are not part of this module.   *)
DeletePolicyModule(m) ==
    /\ Statement
    /\ m \in live
    /\ live' = live \ {m}
    /\ vstate' = [v \in Versions |->
                    IF vmodule[v] = m THEN "deleted" ELSE vstate[v]]
    /\ parts' = [v \in Versions |->
                    IF vmodule[v] = m THEN NoParts ELSE parts[v]]
    /\ UNCHANGED <<vmodule, by, req>>

-----------------------------------------------------------------------------
(* Publish: two reads, then a transaction of two guarded updates.          *)

(* GetPolicyModuleVersion; anything but a draft is refused at once.        *)
PublishRead(r, v) ==
    /\ Statement
    /\ At(r, "idle")
    /\ vstate[v] = "draft"
    /\ Goto(r, [Idle EXCEPT !.pc = "pub_check", !.ver = v])
    /\ UNCHANGED <<vstate, vmodule, live, parts, by>>

(* ListScriptsForVersion: INV-M3's check, made before the transaction.     *)
PublishCheck(r) ==
    /\ Statement
    /\ At(r, "pub_check")
    /\ Goto(r, IF parts[req[r].ver][Apply] # None
               THEN [req[r] EXCEPT !.pc = "pub_mark"]
               ELSE Idle)
    /\ UNCHANGED <<vstate, vmodule, live, parts, by>>

(* Mutant: a state the CHECK constraint of the column does not know.       *)
MarkActive(v, state) == [state EXCEPT ![v] = "active"]

MarkPublished(v, state) == [state EXCEPT ![v] = "published"]

(* Mutant: the UPDATE trusts the state read before the transaction.        *)
PublishMarkUnchecked(r) ==
    LET v == req[r].ver IN
    /\ conn = None
    /\ At(r, "pub_mark")
    /\ conn' = r
    /\ work' = [state |-> MarkPublished(v, vstate), by |-> by]
    /\ Goto(r, [req[r] EXCEPT !.pc = "pub_supersede"])
    /\ UNCHANGED <<vstate, vmodule, live, parts, by>>

(* Mutant: the old version is superseded before BEGIN.                     *)
PublishMarkAfterSupersede(r) ==
    LET v == req[r].ver
        old == {x \in Versions : vmodule[x] = vmodule[v] /\ vstate[x] = "published"}
    IN
    /\ conn = None
    /\ At(r, "pub_mark")
    /\ vstate[v] = "draft"
    /\ vstate' = [x \in Versions |-> IF x \in old THEN "superseded" ELSE vstate[x]]
    /\ by' = [x \in Versions |-> IF x \in old THEN v ELSE by[x]]
    /\ conn' = r
    /\ work' = [state |-> MarkPublished(v, vstate'), by |-> by']
    /\ Goto(r, [req[r] EXCEPT !.pc = "pub_supersede"])
    /\ UNCHANGED <<vmodule, live, parts>>

(* BEGIN and PublishModuleVersion; no row means another request won, and   *)
(* the transaction is rolled back.                                         *)
PublishMark(r) ==
    LET v == req[r].ver IN
    /\ conn = None
    /\ At(r, "pub_mark")
    /\ IF vstate[v] = "draft"
       THEN /\ conn' = r
            /\ work' = [state |-> MarkPublished(v, vstate), by |-> by]
            /\ Goto(r, [req[r] EXCEPT !.pc = "pub_supersede"])
       ELSE /\ Goto(r, Idle)
            /\ UNCHANGED <<conn, work>>
    /\ UNCHANGED <<vstate, vmodule, live, parts, by>>

(* Mutants: the supersede statement left out, and without its module_id    *)
(* filter.                                                                 *)
SupersedeNothing(x, v, state) == FALSE

SupersedeAnyModule(x, v, state) == state[x] = "published" /\ x # v

(* The WHERE of SupersedeCurrentPublishedVersion when v is published.      *)
SupersedeGuard(x, v, state) ==
    vmodule[x] = vmodule[v] /\ state[x] = "published" /\ x # v

PublishSupersede(r) ==
    LET v == req[r].ver IN
    /\ conn = r
    /\ At(r, "pub_supersede")
    /\ work' = [state |-> [x \in Versions |->
                             IF SupersedeGuard(x, v, work.state)
                             THEN "superseded" ELSE work.state[x]],
                by    |-> [x \in Versions |->
                             IF SupersedeGuard(x, v, work.state)
                             THEN v ELSE work.by[x]]]
    /\ Goto(r, [req[r] EXCEPT !.pc = "pub_commit"])
    /\ UNCHANGED <<vstate, vmodule, live, parts, by, conn>>

PublishCommit(r) ==
    /\ conn = r
    /\ At(r, "pub_commit")
    /\ vstate' = work.state
    /\ by' = work.by
    /\ conn' = None
    /\ work' = None
    /\ Goto(r, Idle)
    /\ UNCHANGED <<vmodule, live, parts>>

-----------------------------------------------------------------------------
(* ForkLatestPublished: a draft copied from the published version, one     *)
(* statement per row and no transaction.                                   *)

ForkRead(r, v) ==
    /\ Statement
    /\ At(r, "idle")
    /\ vstate[v] = "published"
    /\ Goto(r, [Idle EXCEPT !.pc = "fork_create", !.src = v,
                            !.copy = [NoParts EXCEPT
                                        ![Fields] = parts[v][Fields],
                                        ![Manifest] = parts[v][Manifest]]])
    /\ UNCHANGED <<vstate, vmodule, live, parts, by>>

ForkCreate(r, v) ==
    /\ Statement
    /\ At(r, "fork_create")
    /\ InsertDraft(v, vmodule[req[r].src], req[r].copy)
    /\ Goto(r, [req[r] EXCEPT !.pc = "fork_list", !.ver = v,
                              !.copy = NoParts])
    /\ UNCHANGED <<live, by>>

(* The scripts and the tests are listed after the draft exists; a fork     *)
(* leaves the actions behind.  Tests are listed by a second query after    *)
(* the scripts are copied; no statement changes the tests of a version     *)
(* that has been published, so one list stands for both.                   *)
ForkList(r) ==
    /\ Statement
    /\ At(r, "fork_list")
    /\ Goto(r, [req[r] EXCEPT !.pc = "fork_copy",
                              !.copy = [p \in Parts |->
                                          IF p \in Rows \ Actions
                                          THEN parts[req[r].src][p]
                                          ELSE None]])
    /\ UNCHANGED <<vstate, vmodule, live, parts, by>>

(* Mutants: a copy that relies on the draft having just been created, and  *)
(* one that does not move on to the next row.                              *)
ForkCopyUnguarded(r, n) ==
    /\ Statement
    /\ At(r, "fork_copy")
    /\ req[r].copy[n] # None
    /\ vstate[req[r].ver] # "deleted"
    /\ parts' = [parts EXCEPT ![req[r].ver][n] = req[r].copy[n]]
    /\ Goto(r, [req[r] EXCEPT !.copy[n] = None])
    /\ UNCHANGED <<vstate, vmodule, live, by>>

ForkCopyForever(r, n) ==
    /\ Statement
    /\ At(r, "fork_copy")
    /\ req[r].copy[n] # None
    /\ parts' = IF DraftGuard(req[r].ver)
                THEN [parts EXCEPT ![req[r].ver][n] = req[r].copy[n]]
                ELSE parts
    /\ UNCHANGED <<vstate, vmodule, live, by, req>>

(* One guarded insert; a draft that is no draft any more ends the fork.    *)
ForkCopy(r, n) ==
    LET v == req[r].ver IN
    /\ Statement
    /\ At(r, "fork_copy")
    /\ req[r].copy[n] # None
    /\ IF DraftGuard(v)
       THEN /\ WritePart(v, n, req[r].copy[n])
            /\ Goto(r, [req[r] EXCEPT !.copy[n] = None])
       ELSE Goto(r, Idle) /\ UNCHANGED parts
    /\ UNCHANGED <<vstate, vmodule, live, by>>

ForkDone(r) ==
    /\ At(r, "fork_copy")
    /\ req[r].copy = NoParts
    /\ Goto(r, Idle)
    /\ UNCHANGED <<vstate, vmodule, live, parts, by, conn, work>>

-----------------------------------------------------------------------------
(* RevokeVersions: lists a module's versions, then revokes them one by     *)
(* one; the first one whose guard fails ends the request.                  *)

RevokeList(r, m) ==
    LET listed == {v \in Versions : vmodule[v] = m /\ RevokeGuard(v)} IN
    /\ Statement
    /\ At(r, "idle")
    /\ listed # {}
    /\ Goto(r, [Idle EXCEPT !.pc = "revoke_next", !.revs = listed])
    /\ UNCHANGED <<vstate, vmodule, live, parts, by>>

RevokeNext(r, v) ==
    /\ Statement
    /\ At(r, "revoke_next")
    /\ v \in req[r].revs
    /\ IF RevokeGuard(v)
       THEN /\ vstate' = [vstate EXCEPT ![v] = "revoked"]
            /\ Goto(r, IF req[r].revs = {v} THEN Idle
                       ELSE [req[r] EXCEPT !.revs = @ \ {v}])
       ELSE Goto(r, Idle) /\ UNCHANGED vstate
    /\ UNCHANGED <<vmodule, live, parts, by>>

-----------------------------------------------------------------------------
(* FullReset: asks whether the version is a draft, then deletes its custom *)
(* scripts and its custom actions by two statements that do not.  Origins  *)
(* are not kept here, so which rows are custom is a choice.  What it then  *)
(* rebuilds it writes with guarded upserts (UpsertScript).                 *)

FullReset(r, v) ==
    /\ Statement
    /\ At(r, "idle")
    /\ vstate[v] = "draft"
    /\ Goto(r, [Idle EXCEPT !.pc = "reset_scripts", !.ver = v])
    /\ UNCHANGED <<vstate, vmodule, live, parts, by>>

DeleteRows(v, gone) ==
    parts' = [parts EXCEPT ![v] = [p \in Parts |->
                                     IF p \in gone THEN None ELSE @[p]]]

DeleteCustomScripts(r, custom) ==
    /\ Statement
    /\ At(r, "reset_scripts")
    /\ DeleteRows(req[r].ver, custom)
    /\ Goto(r, [req[r] EXCEPT !.pc = "reset_actions"])
    /\ UNCHANGED <<vstate, vmodule, live, by>>

DeleteCustomActions(r, custom) ==
    /\ Statement
    /\ At(r, "reset_actions")
    /\ DeleteRows(req[r].ver, custom)
    /\ Goto(r, Idle)
    /\ UNCHANGED <<vstate, vmodule, live, by>>

ResetDelete(r) ==
    \/ \E custom \in SUBSET Scripts : DeleteCustomScripts(r, custom)
    \/ \E custom \in SUBSET Actions : DeleteCustomActions(r, custom)

-----------------------------------------------------------------------------
(* A request ends early: a statement fails (a database error, a version    *)
(* number that is taken, a client that went away); its transaction, if     *)
(* open, is rolled back.                                                   *)
Fail(r) ==
    /\ ~At(r, "idle")
    /\ conn \in {None, r}
    /\ conn' = None
    /\ work' = None
    /\ Goto(r, Idle)
    /\ UNCHANGED <<vstate, vmodule, live, parts, by>>

(* The process dies: what was committed stays, requests are forgotten.     *)
Crash ==
    /\ \E r \in Requests : ~At(r, "idle")
    /\ conn' = None
    /\ work' = None
    /\ req' = [r \in Requests |-> Idle]
    /\ UNCHANGED <<vstate, vmodule, live, parts, by>>

Edit(v) ==
    \/ \E m \in Modules, t \in Texts \cup {None} : CreateDraft(v, m, t)
    \/ \E t \in Texts, m \in Texts \cup {None} : UpdateDraft(v, t, m)
    \/ \E t \in Texts : CacheVersionManifest(v, t)
    \/ \E n \in Rows, t \in Texts : UpsertScript(v, n, t)
    \/ \E n \in Rows : DeleteScript(v, n)
    \/ \E old, new \in Rows : RenameScript(v, old, new)
    \/ DeleteDraftVersion(v)
    \/ Revoke(v)

Start(r) ==
    \/ \E v \in Versions : PublishRead(r, v) \/ ForkRead(r, v) \/ FullReset(r, v)
    \/ \E m \in Modules : RevokeList(r, m)

Continue(r) ==
    \/ PublishCheck(r) \/ PublishMark(r)
    \/ PublishSupersede(r) \/ PublishCommit(r)
    \/ \E v \in Versions : ForkCreate(r, v)
    \/ ForkList(r)
    \/ \E n \in Rows : ForkCopy(r, n)
    \/ ForkDone(r)
    \/ \E v \in Versions : RevokeNext(r, v)
    \/ ResetDelete(r)
    \/ Fail(r)

Next ==
    \/ \E v \in Versions : Edit(v)
    \/ \E m \in Modules : DeletePolicyModule(m)
    \/ \E r \in Requests : Start(r) \/ Continue(r)
    \/ Crash

Spec == Init /\ [][Next]_vars

-----------------------------------------------------------------------------
(* What a request in flight remembers, and what an open transaction has    *)
(* written: TypeOK, Locals and Transaction together are inductive.         *)
LocalsOf(q) ==
    /\ q.pc \in {"pub_check", "pub_mark", "pub_supersede", "pub_commit",
                "fork_list", "fork_copy", "reset_scripts", "reset_actions"}
         => q.ver \in Versions
    /\ q.pc \in {"fork_create", "fork_list", "fork_copy"}
         => q.src \in Versions

Locals == \A r \in Requests : LocalsOf(req[r])

Transaction ==
    \A r \in Requests :
        /\ conn = r <=> req[r].pc \in {"pub_supersede", "pub_commit"}
        /\ conn = r => vstate[req[r].ver] = "draft"
        /\ req[r].pc = "pub_supersede" =>
             work = [state |-> MarkPublished(req[r].ver, vstate), by |-> by]
        /\ req[r].pc = "pub_commit" =>
             work = [state |-> Promise!AfterPublish(req[r].ver),
                     by |-> [x \in Versions |->
                               IF SupersedeGuard(x, req[r].ver, vstate)
                               THEN req[r].ver ELSE by[x]]]

-----------------------------------------------------------------------------
FrozenIn(v) == vstate[v] \in {"published", "superseded", "revoked"}

ContentKept(v) == \A p \in Content : parts'[v][p] = parts[v][p]

(* Once a version is no draft its content never changes while it exists    *)
(* (ADR-007).  The code does not keep to it: see FrozenButByResets.        *)
FrozenContent ==
    [][\A v \in Versions :
         FrozenIn(v) => ContentKept(v) \/ vstate'[v] = "deleted"]_vars

(* No edit, fork, export or late request writes the content of a           *)
(* published, superseded or revoked version, with one exception: a full    *)
(* reset that found the version a draft still deletes scripts and actions. *)
(* Even then nothing is rewritten and no column or test is touched.        *)
FrozenButByResets ==
    [][\A v \in Versions : FrozenIn(v) =>
         \/ ContentKept(v)
         \/ vstate'[v] = "deleted"
         \/ /\ \E r \in Requests :
                 req[r].pc \in {"reset_scripts", "reset_actions"} /\ req[r].ver = v
            /\ \A p \in Content :
                 \/ parts'[v][p] = parts[v][p]
                 \/ p \in Scripts \cup Actions /\ parts'[v][p] = None]_vars

(* Publishing, losing a race to publish, or dying half way through never   *)
(* leaves a module without a published version where it had one: that      *)
(* takes a revocation or the deletion of the module.                       *)
NeverUnpublished ==
    [][\A v \in Versions :
         vstate[v] = "published" =>
           \/ vstate'[v] \in {"revoked", "deleted"}
           \/ \E w \in Versions : /\ vmodule[w] = vmodule[v]
                                  /\ vstate'[w] = "published"]_vars

(* What superseded_by_version says: a superseded version names a version   *)
(* of its own module that was published, an unsuperseded one names none,   *)
(* and following the names never goes round in a circle, so it ends at the *)
(* published version or at a revoked one.                                  *)
SupersededByIsSound ==
    /\ \A v \in Versions :
         /\ vstate[v] = "superseded" =>
              /\ by[v] # None
              /\ vmodule[by[v]] = vmodule[v]
              /\ vstate[by[v]] \in {"published", "superseded", "revoked"}
         /\ vstate[v] \in {"unused", "draft", "published"} => by[v] = None
    /\ \A S \in SUBSET {v \in Versions : vstate[v] = "superseded"} :
         (\A v \in S : by[v] \in S) => S = {}

(* The state column goes through its life as promised, although a publish  *)
(* takes four statements and a fork or a bulk revocation many.             *)
KeepsPromise == Promise!Spec

AtMostOnePublished == Promise!AtMostOnePublished

(* INV-M3: every deployable module version supplies an apply script.       *)
DeployableHasApply ==
    \A v \in Versions : vstate[v] = "published" => parts[v][Apply] # None

(* The pool hands the connection out in the order it was asked for, so a   *)
(* request whose next statement is possible again and again gets to run    *)
(* it.                                                                     *)
FairSpec == Spec /\ \A r \in Requests : SF_vars(Continue(r))

(* Every request ends: no transaction is left open for ever and no loop    *)
(* over scripts or versions goes on for ever.                              *)
RequestsEnd == \A r \in Requests : ~At(r, "idle") ~> At(r, "idle")

=============================================================================
