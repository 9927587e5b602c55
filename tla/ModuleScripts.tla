----------------------------- MODULE ModuleScripts -----------------------------
(***************************************************************************)
(* The scripts and the enforcement actions of one module version           *)
(* (src/pkg/services/policymodules_scripts.go).  A save over a default     *)
(* script first keeps the default under the name with " (default)" added;  *)
(* the defaults can be seeded, the wiring pointed back at them, and all    *)
(* custom rows thrown away.  Every operation is several statements and     *)
(* none uses a transaction; a publish may come between any two.            *)
(***************************************************************************)
CONSTANTS
    Names,          \* script names and action keys
    ApplyName,      \* "apply"
    Reserved,       \* [name -> the name with " (default)" added], where a
                    \* name has one within Names
    UserNames,      \* names users save under
    Texts,          \* what users write
    Shipped,        \* the text of the default script
    Writers,        \* requests in flight
    NoName

ASSUME ScriptConstants ==
    /\ ApplyName \in UserNames
    /\ UserNames \subseteq DOMAIN Reserved
    /\ DOMAIN Reserved \subseteq Names
    /\ \A n \in DOMAIN Reserved : Reserved[n] \in Names
    /\ NoName \notin Names

VARIABLES
    draft,          \* the version is a draft
    script,         \* script[n]: origin and text of the row, or NoScript
    wiring,         \* wiring[k]: origin of the action row and the script run
    writer          \* writer[r]: the request's next statement and locals

scriptVars == <<draft, script, wiring, writer>>

NoScript == [origin |-> "none", text |-> NoName]
NoAction == [origin |-> "none", runs |-> NoName]

Origins == {"none", "default", "custom"}
ScriptRows == [origin : Origins, text : Texts \cup {Shipped, NoName}]
ActionRows == [origin : Origins, runs : Names \cup {NoName}]

WriterIdle == [next |-> "none", name |-> NoName, row |-> NoScript,
               listed |-> [n \in Names |-> NoScript], restored |-> FALSE]

WriterType ==
    [next : {"none", "fork", "keep", "save", "seed_list", "seed_list_actions", "seed_script", "seed_action",
             "restore_list", "repoint", "reset_scripts", "reset_actions", "reset_list",
             "rebuild", "rewire"},
     name : Names \cup {NoName}, row : ScriptRows,
     listed : [Names -> ScriptRows], restored : BOOLEAN]

ScriptsInit ==
    /\ draft = TRUE
    /\ script = [n \in Names |-> NoScript]
    /\ wiring = [k \in Names |-> NoAction]
    /\ writer = [r \in Writers |-> WriterIdle]

WriterAt(r, next) == writer[r].next = next

WriterGoto(r, rec) == writer' = [writer EXCEPT ![r] = rec]

WriterDone(r) == WriterGoto(r, WriterIdle)

(* Mutant: an upsert that leaves the origin of a row it replaces alone.    *)
KeepOrigin(old, new) ==
    [new EXCEPT !.origin = IF old.origin = "none" THEN new.origin ELSE old.origin]

(* ON CONFLICT DO UPDATE: everything but the position is replaced.         *)
Upserted(old, new) == new

(* The guarded upserts: no row is written unless the version is a draft.   *)
WriteScript(n, row) == draft /\ script' = [script EXCEPT ![n] = Upserted(@, row)]

WriteAction(k, row) == draft /\ wiring' = [wiring EXCEPT ![k] = row]

-----------------------------------------------------------------------------
(* Saving a script: read it, and if it is a default look for the kept copy *)
(* and write one, then write the custom row.                               *)

UpsertScriptRead(r, n, t) ==
    /\ WriterAt(r, "none")
    /\ WriterGoto(r, [WriterIdle EXCEPT !.name = n, !.row = [origin |-> "custom", text |-> t],
         !.listed[n] = script[n],
         !.next = IF script[n].origin = "default" THEN "fork" ELSE "save"])
    /\ UNCHANGED <<draft, script, wiring>>

ForkLookup(r) ==
    /\ WriterAt(r, "fork")
    /\ WriterGoto(r, [writer[r] EXCEPT
         !.next = IF script[Reserved[writer[r].name]] = NoScript THEN "keep" ELSE "save"])
    /\ UNCHANGED <<draft, script, wiring>>

ForkKeep(r) ==
    LET n == writer[r].name IN
    /\ WriterAt(r, "keep")
    /\ WriteScript(Reserved[n], [origin |-> "default", text |-> writer[r].listed[n].text])
    /\ WriterGoto(r, [writer[r] EXCEPT !.next = "save"])
    /\ UNCHANGED <<draft, wiring>>

UpsertModuleScriptGuarded(r) ==
    /\ WriterAt(r, "save")
    /\ WriteScript(writer[r].name, writer[r].row)
    /\ WriterDone(r)
    /\ UNCHANGED <<draft, wiring>>

(* UNIQUE(version_id, name) refuses a name that is taken.                  *)
RenameModuleScript(old, new) ==
    /\ draft
    /\ script[old] # NoScript /\ script[new] = NoScript
    /\ script' = [script EXCEPT ![new] = script[old], ![old] = NoScript]
    /\ UNCHANGED <<draft, wiring, writer>>

DeleteModuleScript(n) ==
    /\ draft
    /\ script' = [script EXCEPT ![n] = NoScript]
    /\ UNCHANGED <<draft, wiring, writer>>

UpsertAction(k, row) ==
    /\ WriteAction(k, row)
    /\ UNCHANGED <<draft, script, writer>>

DeleteAction(k) ==
    /\ WriteAction(k, NoAction)
    /\ UNCHANGED <<draft, script, writer>>

-----------------------------------------------------------------------------
(* Seeding: only a version without any row, as two lists see it.           *)

SeedModuleDefaults(r) ==
    /\ WriterAt(r, "none")
    /\ WriterGoto(r, [WriterIdle EXCEPT !.next = "seed_list"])
    /\ UNCHANGED <<draft, script, wiring>>

SeedListScripts(r) ==
    /\ WriterAt(r, "seed_list")
    /\ WriterGoto(r, IF \A n \in Names : script[n] = NoScript
                       THEN [WriterIdle EXCEPT !.next = "seed_list_actions"] ELSE WriterIdle)
    /\ UNCHANGED <<draft, script, wiring>>

SeedListActions(r) ==
    /\ WriterAt(r, "seed_list_actions")
    /\ WriterGoto(r, IF \A k \in Names : wiring[k] = NoAction
                       THEN [WriterIdle EXCEPT !.next = "seed_script"] ELSE WriterIdle)
    /\ UNCHANGED <<draft, script, wiring>>

SeedScript(r) ==
    /\ WriterAt(r, "seed_script")
    /\ WriteScript(ApplyName, [origin |-> "default", text |-> Shipped])
    /\ WriterGoto(r, [WriterIdle EXCEPT !.next = "seed_action"])
    /\ UNCHANGED <<draft, wiring>>

SeedAction(r) ==
    /\ WriterAt(r, "seed_action")
    /\ WriteAction(ApplyName, [origin |-> "default", runs |-> ApplyName])
    /\ WriterDone(r)
    /\ UNCHANGED <<draft, script>>

-----------------------------------------------------------------------------
(* Restoring and resetting, after a first statement that asks for a draft. *)

DraftAsked(r, next) ==
    /\ WriterAt(r, "none")
    /\ draft
    /\ WriterGoto(r, [WriterIdle EXCEPT !.next = next])
    /\ UNCHANGED <<draft, script, wiring>>

RestoreDefaults(r) == DraftAsked(r, "restore_list")

FullReset(r) == DraftAsked(r, "reset_scripts")

DeleteCustomScripts(r) ==
    /\ WriterAt(r, "reset_scripts")
    /\ script' = [n \in Names |-> IF script[n].origin = "custom" THEN NoScript ELSE script[n]]
    /\ WriterGoto(r, [WriterIdle EXCEPT !.next = "reset_actions"])
    /\ UNCHANGED <<draft, wiring>>

DeleteCustomActions(r) ==
    /\ WriterAt(r, "reset_actions")
    /\ wiring' = [k \in Names |-> IF wiring[k].origin = "custom" THEN NoAction ELSE wiring[k]]
    /\ WriterGoto(r, [WriterIdle EXCEPT !.next = "reset_list"])
    /\ UNCHANGED <<draft, script>>

ListScripts(r) ==
    /\ writer[r].next \in {"restore_list", "reset_list"}
    /\ WriterGoto(r, [WriterIdle EXCEPT !.listed = script,
         !.next = IF WriterAt(r, "restore_list") THEN "repoint" ELSE "rebuild"])
    /\ UNCHANGED <<draft, script, wiring>>

(* The kept defaults that are still to be gone through.                    *)
KeptDefaults(r) ==
    {n \in DOMAIN Reserved : writer[r].listed[Reserved[n]].origin = "default"}

RestoreRepoint(r, n) ==
    /\ WriterAt(r, "repoint") /\ n \in KeptDefaults(r)
    /\ WriteAction(n, [origin |-> "default", runs |-> Reserved[n]])
    /\ WriterGoto(r, [writer[r] EXCEPT !.listed[Reserved[n]] = NoScript])
    /\ UNCHANGED <<draft, script>>

ResetRebuild(r, n) ==
    /\ WriterAt(r, "rebuild") /\ n \in KeptDefaults(r)
    /\ WriteScript(n, [origin |-> "default", text |-> writer[r].listed[Reserved[n]].text])
    /\ WriterGoto(r, [writer[r] EXCEPT !.next = "rewire", !.name = n, !.restored = TRUE])
    /\ UNCHANGED <<draft, wiring>>

ResetRewire(r) ==
    LET n == writer[r].name IN
    /\ WriterAt(r, "rewire")
    /\ WriteAction(n, [origin |-> "default", runs |-> n])
    /\ WriterGoto(r, [writer[r] EXCEPT !.next = "rebuild", !.listed[Reserved[n]] = NoScript])
    /\ UNCHANGED <<draft, script>>

RestoreEnd(r) ==
    /\ WriterAt(r, "repoint") /\ KeptDefaults(r) = {}
    /\ WriterDone(r)
    /\ UNCHANGED <<draft, script, wiring>>

ResetEnd(r) ==
    /\ WriterAt(r, "rebuild") /\ KeptDefaults(r) = {}
    /\ WriterGoto(r, IF writer[r].restored THEN WriterIdle
                                           ELSE [WriterIdle EXCEPT !.next = "seed_list"])
    /\ UNCHANGED <<draft, script, wiring>>

(* A statement that fails, that finds the version frozen, or that never    *)
(* runs because the process has died.                                      *)
WriterFails(r) ==
    /\ ~WriterAt(r, "none")
    /\ WriterDone(r)
    /\ UNCHANGED <<draft, script, wiring>>

(* Publish asks for the apply script before its transaction; only the      *)
(* state is certain when it commits.                                       *)
Publish ==
    /\ draft
    /\ draft' = FALSE
    /\ UNCHANGED <<script, wiring, writer>>

ResetDeletes(r) == DeleteCustomScripts(r) \/ DeleteCustomActions(r)

ScriptStep(r) ==
    \/ \E n \in UserNames, t \in Texts : UpsertScriptRead(r, n, t)
    \/ ForkLookup(r) \/ ForkKeep(r) \/ UpsertModuleScriptGuarded(r)
    \/ SeedModuleDefaults(r) \/ SeedListScripts(r) \/ SeedListActions(r) \/ SeedScript(r) \/ SeedAction(r)
    \/ RestoreDefaults(r) \/ FullReset(r) \/ ResetDeletes(r) \/ ListScripts(r)
    \/ \E n \in DOMAIN Reserved : RestoreRepoint(r, n) \/ ResetRebuild(r, n)
    \/ ResetRewire(r) \/ RestoreEnd(r) \/ ResetEnd(r) \/ WriterFails(r)

ScriptsNext ==
    \/ \E r \in Writers : ScriptStep(r)
    \/ \E old, new \in Names : RenameModuleScript(old, new)
    \/ \E n \in Names : DeleteModuleScript(n) \/ DeleteAction(n)
    \/ \E k \in UserNames, n \in UserNames : UpsertAction(k, [origin |-> "custom", runs |-> n])
    \/ Publish

ScriptsSpec == ScriptsInit /\ [][ScriptsNext]_scriptVars

-----------------------------------------------------------------------------

ScriptsTypeOK ==
    /\ draft \in BOOLEAN
    /\ script \in [Names -> ScriptRows]
    /\ wiring \in [Names -> ActionRows]
    /\ writer \in [Writers -> WriterType]

(* However saves, renames, seeding and resets overlap, a row of origin     *)
(* "default" holds the text the default was shipped with: what a restore   *)
(* points at and what a reset rebuilds is the pristine script.             *)
DefaultsArePristine ==
    \A n \in Names : script[n].origin = "default" => script[n].text = Shipped

=============================================================================
