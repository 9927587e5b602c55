------------------------------ MODULE FieldEdits ------------------------------
(***************************************************************************)
(* The inline editors of assets, identities, configuration groups, policy  *)
(* modules and module versions.  Each reads the whole row, lays the fields *)
(* a request submits over its copy and writes the copy back, with a        *)
(* statement of its own for an asset's JSON payload.  Nothing is locked in *)
(* between.  A submission with an unknown or read-only key, or with a      *)
(* value that does not parse, is refused before the first write, and is    *)
(* left out.  Rows do not touch each other: there is one, of any kind.     *)
(***************************************************************************)
CONSTANTS
    EditedKinds,    \* kinds of row to look at
    Payload,        \* keys of an asset's subtype_payload
    Contents,       \* what a field can hold
    EditRequests,
    NoText          \* no content

(* A key with a column goes to its column, whatever section it is sent in. *)
ASSUME PayloadAssumption == Payload \cap {"name", "text", "upn", "fixed"} = {}

VARIABLES
    edited,         \* the kind of the row
    field,          \* field[f]: what its column, or payload key, holds
    frozen,         \* a version that is a draft no longer
    edit            \* edit[r]: the request's next statement, its copy of the
                    \* row, the keys and the content it submits, and a history
                    \* bit: another edit has written since the copy was made

fieldVars == <<edited, field, frozen, edit>>

Fields == Payload \cup {"name", "text", "upn", "fixed"}

(* The keys each editor takes; "fixed" stands for the columns none does:   *)
(* an asset's owner, an identity's role, a group's scope, a manifest.      *)
Editable(k) ==
    {"name", "text"} \cup (IF k = "asset" THEN Payload ELSE {})
                     \cup (IF k = "identity" THEN {"upn"} ELSE {})

(* The columns a kind's statements write; the group's scope and the        *)
(* manifest are written back as they were read.                            *)
Written(k) ==
    {"name", "text"} \cup (IF k = "asset" THEN Payload ELSE {})
       \cup (IF k \in {"config_group", "version"} THEN {"fixed"} ELSE {})

EditIdle == [next |-> "none", copy |-> [f \in Fields |-> NoText], keys |-> {},
             content |-> NoText, overtaken |-> FALSE]

EditRequestType ==
    [next : {"none", "payload", "row"}, copy : [Fields -> Contents \cup {NoText}],
     keys : SUBSET Fields, content : Contents \cup {NoText}, overtaken : BOOLEAN]

FieldsInit ==
    /\ edited \in EditedKinds
    /\ field = [f \in Fields |-> NoText]
    /\ frozen = FALSE
    /\ edit = [r \in EditRequests |-> EditIdle]

EditStart(r, keys, content, next) ==
    /\ edit[r].next = "none"
    /\ edit' = [edit EXCEPT ![r] =
         [next |-> next, keys |-> keys, content |-> content, overtaken |-> FALSE,
          copy |-> [f \in Fields |-> IF f \in Written(edited) THEN field[f] ELSE NoText]]]
    /\ UNCHANGED <<edited, field, frozen>>

(* Only the statements some key needs; without any key, none.              *)
AssetFieldUpdate(r, keys, content) ==
    /\ edited = "asset"
    /\ keys # {}
    /\ EditStart(r, keys, content, IF keys \cap Payload # {} THEN "payload" ELSE "row")

UserFieldUpdate(r, keys, content) ==
    edited = "identity" /\ EditStart(r, keys, content, "row")

ConfigGroupFieldUpdate(r, keys, content) ==
    edited = "config_group" /\ EditStart(r, keys, content, "row")

PolicyModuleFieldUpdate(r, keys, content) ==
    edited = "module" /\ EditStart(r, keys, content, "row")

PolicyModuleVersionFieldUpdate(r, keys, content) ==
    /\ edited = "version"
    /\ ~frozen
    /\ keys # {}
    /\ EditStart(r, keys, content, "row")

(* The copy of columns fs with the submitted ones laid over it.            *)
Merged(r, fs) ==
    [f \in Fields |->
       IF f \in fs
         THEN IF f \in edit[r].keys THEN edit[r].content ELSE edit[r].copy[f]
         ELSE field[f]]

(* r's statement writes columns fs and r goes on with the next one.        *)
WriteFields(r, fs, next) ==
    /\ field' = Merged(r, fs)
    /\ edit' = [q \in EditRequests |->
                  IF q # r
                    THEN [edit[q] EXCEPT !.overtaken = edit[q].next # "none"]
                    ELSE IF next = "none" THEN EditIdle
                                          ELSE [edit[r] EXCEPT !.next = next]]
    /\ UNCHANGED <<edited, frozen>>

(* Mutant: the columns are written whether or not a key touches them.      *)
AfterPayloadAlways(r) == "row"

AfterPayload(r) == IF edit[r].keys \subseteq Payload THEN "none" ELSE "row"

UpdateAssetPayload(r) ==
    edit[r].next = "payload" /\ WriteFields(r, Payload, AfterPayload(r))

UpdateAssetEditableColumns(r) ==
    edited = "asset" /\ edit[r].next = "row" /\ WriteFields(r, Written("asset") \ Payload, "none")

(* Neither the role nor the user principal name is among its columns.      *)
UpdateIdentity(r) ==
    edited = "identity" /\ edit[r].next = "row" /\ WriteFields(r, Written("identity"), "none")

UpdateConfigurationGroup(r) ==
    /\ edited = "config_group" /\ edit[r].next = "row"
    /\ WriteFields(r, Written("config_group"), "none")

UpdatePolicyModule(r) ==
    edited = "module" /\ edit[r].next = "row" /\ WriteFields(r, Written("module"), "none")

UpdateDraftColumns(r) ==
    /\ edited = "version" /\ edit[r].next = "row" /\ ~frozen
    /\ WriteFields(r, Written("version"), "none")

(* A statement that fails, matches a version that is frozen by now, or     *)
(* never runs because the process has died.                                *)
EditFail(r) ==
    /\ edit[r].next # "none"
    /\ edit' = [edit EXCEPT ![r] = EditIdle]
    /\ UNCHANGED <<edited, field, frozen>>

(* The owner and the role cache have statements of their own.              *)
SetFixed(content) ==
    /\ edited \in {"asset", "identity"}
    /\ field' = [field EXCEPT !["fixed"] = content]
    /\ UNCHANGED <<edited, frozen, edit>>

FreezeVersion ==
    /\ edited = "version" /\ ~frozen
    /\ frozen' = TRUE
    /\ UNCHANGED <<edited, field, edit>>

FieldUpdates(r, keys, content) ==
    \/ AssetFieldUpdate(r, keys, content) \/ UserFieldUpdate(r, keys, content)
    \/ ConfigGroupFieldUpdate(r, keys, content)
    \/ PolicyModuleFieldUpdate(r, keys, content)
    \/ PolicyModuleVersionFieldUpdate(r, keys, content)

FieldWrites(r) ==
    \/ UpdateAssetPayload(r) \/ UpdateAssetEditableColumns(r) \/ UpdateIdentity(r)
    \/ UpdateConfigurationGroup(r) \/ UpdatePolicyModule(r) \/ UpdateDraftColumns(r)

FieldsNext ==
    \/ \E r \in EditRequests, keys \in SUBSET Editable(edited), content \in Contents :
         FieldUpdates(r, keys, content)
    \/ \E r \in EditRequests : FieldWrites(r) \/ EditFail(r)
    \/ \E content \in Contents : SetFixed(content)
    \/ FreezeVersion

FieldsSpec == FieldsInit /\ [][FieldsNext]_fieldVars

-----------------------------------------------------------------------------

FieldsTypeOK ==
    /\ edited \in EditedKinds
    /\ field \in [Fields -> Contents \cup {NoText}]
    /\ frozen \in BOOLEAN
    /\ edit \in [EditRequests -> EditRequestType]

Half(f) == IF f \in Payload THEN Payload ELSE Fields \ Payload

(* However edits of one row overlap, a write leaves every field alone that *)
(* its request has not submitted, unless the request has submitted a field *)
(* of the same half (payload or columns) and another edit has written the  *)
(* row since it was read, and then the older content comes back.           *)
EditsKeepTheRest ==
    [][\A r \in EditRequests, f \in Fields :
         FieldWrites(r) /\ field'[f] # field[f] =>
           \/ f \in edit[r].keys /\ field'[f] = edit[r].content
           \/ edit[r].overtaken /\ f # "fixed" /\ field'[f] = edit[r].copy[f]
                /\ (edited = "asset" => Half(f) \cap edit[r].keys # {})
      ]_fieldVars

=============================================================================
