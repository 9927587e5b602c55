---------------------------- MODULE AssetEnrolment ----------------------------
(***************************************************************************)
(* The life of asset rows of one tenant and subtype: the enrolment form    *)
(* (src/console/handlers/asset_new.go), the bulk delete, restore and purge *)
(* (asset_bulk.go), the owner form (handlers.go) and the queries under     *)
(* them.  Every page names an asset by its human id, prefix.tenant.web.NNNN*)
(* whose number the enrolment form takes from a count of the rows; row ids *)
(* are never used twice.  Statements of different requests interleave.     *)
(***************************************************************************)
EXTENDS Naturals, FiniteSets

CONSTANTS
    AssetRows,      \* row ids assets can get
    Owners,         \* identities
    Desks,          \* requests in flight
    Nothing         \* no row, no identity

ASSUME AssetRowsAssumption == IsFiniteSet(AssetRows)
ASSUME NothingIsNoRow == Nothing \notin AssetRows \cup Owners

VARIABLES
    shelf,          \* shelf[a]: "none", "active", "binned" (soft deleted), "gone"
    number,         \* number[a]: the number in the row's human id
    ownedBy,        \* ownedBy[a]: owner_identity_id
    account,        \* account[i]: "active", "binned" or "gone"
    desk            \* desk[r]: the request's next statement and what it has
                    \* read, with a history bit: rows have changed since it
                    \* counted them

assetVars == <<shelf, number, ownedBy, account, desk>>

Numbers == 0 .. Cardinality(AssetRows)

BulkActions == {"delete", "restore", "purge"}

DeskIdle == [next |-> "none", number |-> 0, found |-> Nothing, row |-> Nothing,
             action |-> "delete", owner |-> Nothing, stale |-> FALSE]

DeskType ==
    [next   : {"none", "insert", "service", "act", "owner", "set"},
     number : Numbers \cup {Cardinality(AssetRows) + 1},
     found  : AssetRows \cup {Nothing},     \* the row the handler looked up
     row    : AssetRows \cup {Nothing},     \* the row the service looked up
     action : BulkActions,
     owner  : Owners \cup {Nothing},
     stale  : BOOLEAN]

AssetsInit ==
    /\ shelf = [a \in AssetRows |-> "none"]
    /\ number = [a \in AssetRows |-> 0]
    /\ ownedBy = [a \in AssetRows |-> Nothing]
    /\ account = [i \in Owners |-> "active"]
    /\ desk = [r \in Desks |-> DeskIdle]

DeskAt(r, next) == desk[r].next = next

DeskDone(r) == desk' = [desk EXCEPT ![r] = DeskIdle]

(* A statement of r that changes which rows there are.                     *)
ShelfWrite(r) ==
    desk' = [q \in Desks |-> IF q = r THEN DeskIdle
                              ELSE [desk[q] EXCEPT !.stale = DeskAt(q, "insert")]]

-----------------------------------------------------------------------------
(* The reads.                                                              *)

ListAssetsBySubtype == {a \in AssetRows : shelf[a] = "active"}

ListDeletedAssetsBySubtype == {a \in AssetRows : shelf[a] = "binned"}

(* Mutant: the count of the recycle bin.                                   *)
CountDeletedAssets == Cardinality(ListDeletedAssetsBySubtype)

CountAssetsBySubtype == Cardinality(ListAssetsBySubtype)

GetAssetByHumanID(n) == {a \in ListAssetsBySubtype : number[a] = n}

GetAssetForDeletion(n) ==
    {a \in ListAssetsBySubtype \cup ListDeletedAssetsBySubtype : number[a] = n}

ListAssetsByOwner(i) == {a \in ListAssetsBySubtype : ownedBy[a] = i}

-----------------------------------------------------------------------------
(* The enrolment form.                                                     *)

EnrolCount(r) ==
    /\ DeskAt(r, "none")
    /\ desk' = [desk EXCEPT ![r] =
         [DeskIdle EXCEPT !.next = "insert", !.number = CountAssetsBySubtype + 1]]
    /\ UNCHANGED <<shelf, number, ownedBy, account>>

(* Mutant: a schema without UNIQUE on human_id.                            *)
Enrollable(n) == TRUE

(* UNIQUE(human_id) counts soft deleted rows.                              *)
NumberFree(n) == GetAssetForDeletion(n) = {}

CreateAsset(r, a) ==
    /\ DeskAt(r, "insert")
    /\ NumberFree(desk[r].number)
    /\ shelf[a] = "none"
    /\ shelf' = [shelf EXCEPT ![a] = "active"]
    /\ number' = [number EXCEPT ![a] = desk[r].number]
    /\ UNCHANGED <<ownedBy, account>>
    /\ ShelfWrite(r)

(* "Could not create asset. Please try again."                             *)
EnrolRefused(r) ==
    /\ DeskAt(r, "insert")
    /\ ~NumberFree(desk[r].number)
    /\ UNCHANGED <<shelf, number, ownedBy, account>>
    /\ DeskDone(r)

-----------------------------------------------------------------------------
(* One id of a bulk request: the handler looks the row up for the activity *)
(* log, the service looks it up again and then acts on what it has found.  *)

AssetBulk(r, n, action, a) ==
    /\ DeskAt(r, "none")
    /\ a \in GetAssetForDeletion(n)
    /\ desk' = [desk EXCEPT ![r] =
         [DeskIdle EXCEPT !.next = "service", !.number = n, !.action = action, !.found = a]]
    /\ UNCHANGED <<shelf, number, ownedBy, account>>

ServiceLookup(r) ==
    /\ DeskAt(r, "service")
    /\ UNCHANGED <<shelf, number, ownedBy, account>>
    /\ \/ /\ GetAssetForDeletion(desk[r].number) = {}
          /\ DeskDone(r)
       \/ \E a \in GetAssetForDeletion(desk[r].number) :
            desk' = [desk EXCEPT ![r].next = "act", ![r].row = a]

SoftDeleteAsset(a) ==
    /\ shelf[a] = "active"
    /\ shelf' = [shelf EXCEPT ![a] = "binned"]

RestoreAsset(a) ==
    /\ shelf[a] = "binned"
    /\ shelf' = [shelf EXCEPT ![a] = "active"]

DeleteAsset(a) ==
    /\ shelf[a] \in {"active", "binned"}
    /\ shelf' = [shelf EXCEPT ![a] = "gone"]

(* "delete" is a soft delete or, in immediate mode, as final as "purge".   *)
BulkAct(r) ==
    /\ DeskAt(r, "act")
    /\ \/ desk[r].action = "delete" /\ SoftDeleteAsset(desk[r].row)
       \/ desk[r].action = "restore" /\ RestoreAsset(desk[r].row)
       \/ desk[r].action \in {"delete", "purge"} /\ DeleteAsset(desk[r].row)
    /\ UNCHANGED <<number, ownedBy, account>>
    /\ ShelfWrite(r)

(* A statement that matches no row any more, fails, or never runs because  *)
(* the process has died.                                                   *)
DeskGivesUp(r) ==
    /\ ~DeskAt(r, "none")
    /\ UNCHANGED <<shelf, number, ownedBy, account>>
    /\ DeskDone(r)

-----------------------------------------------------------------------------
(* The owner form: resolve the row, check the identity, write.             *)

ResolveDBID(r, n, i) ==
    /\ DeskAt(r, "none")
    /\ \E a \in GetAssetByHumanID(n) :
         desk' = [desk EXCEPT ![r] = [DeskIdle EXCEPT !.row = a, !.owner = i,
                    !.next = IF i = Nothing THEN "set" ELSE "owner"]]
    /\ UNCHANGED <<shelf, number, ownedBy, account>>

CheckOwner(r) ==
    /\ DeskAt(r, "owner")
    /\ account[desk[r].owner] = "active"
    /\ desk' = [desk EXCEPT ![r].next = "set"]
    /\ UNCHANGED <<shelf, number, ownedBy, account>>

(* owner_identity_id REFERENCES identities(id).                            *)
ReferenceHolds(i) == IF i = Nothing THEN TRUE ELSE account[i] # "gone"

SetAssetOwner(r) ==
    /\ DeskAt(r, "set")
    /\ shelf[desk[r].row] # "gone"
    /\ ReferenceHolds(desk[r].owner)
    /\ ownedBy' = [ownedBy EXCEPT ![desk[r].row] = desk[r].owner]
    /\ UNCHANGED <<shelf, number, account>>
    /\ DeskDone(r)

(* ON DELETE SET NULL when the row goes; a soft deleted owner stays.       *)
OwnerLeaves(i, how) ==
    /\ account[i] \in {"active", "binned"} \ {how}
    /\ account' = [account EXCEPT ![i] = how]
    /\ ownedBy' = IF how = "gone"
                    THEN [a \in AssetRows |-> IF ownedBy[a] = i THEN Nothing ELSE ownedBy[a]]
                    ELSE ownedBy
    /\ UNCHANGED <<shelf, number, desk>>

AssetsNext ==
    \/ \E r \in Desks :
         \/ EnrolCount(r) \/ EnrolRefused(r) \/ ServiceLookup(r) \/ BulkAct(r)
         \/ CheckOwner(r) \/ SetAssetOwner(r) \/ DeskGivesUp(r)
         \/ \E a \in AssetRows : CreateAsset(r, a)
         \/ \E n \in Numbers, action \in BulkActions, a \in AssetRows : AssetBulk(r, n, action, a)
         \/ \E n \in Numbers, i \in Owners \cup {Nothing} : ResolveDBID(r, n, i)
    \/ \E i \in Owners, how \in {"active", "binned", "gone"} : OwnerLeaves(i, how)

AssetsSpec == AssetsInit /\ [][AssetsNext]_assetVars

-----------------------------------------------------------------------------

AssetsTypeOK ==
    /\ shelf \in [AssetRows -> {"none", "active", "binned", "gone"}]
    /\ number \in [AssetRows -> Nat]
    /\ ownedBy \in [AssetRows -> Owners \cup {Nothing}]
    /\ account \in [Owners -> {"active", "binned", "gone"}]
    /\ desk \in [Desks -> DeskType]

(* As long as every asset ever enrolled is active, an enrolment that rows  *)
(* have not changed under goes through: the count is the largest number.   *)
EnrolsUntilDeletion ==
    [][\A r \in Desks :
         EnrolRefused(r) /\ (\A a \in AssetRows : shelf[a] \in {"none", "active"})
           => desk[r].stale]_assetVars

(* However requests overlap, the row a bulk request acts on is the row it  *)
(* logs, or that row is gone and its human id belongs to another by now.   *)
ActsOnWhatItLogs ==
    [][\A r \in Desks :
         BulkAct(r) => desk[r].row = desk[r].found \/ shelf[desk[r].found] = "gone"]_assetVars

(* The human id is enough to enrol by and to act by.                       *)
HumanIdsHold == EnrolsUntilDeletion /\ ActsOnWhatItLogs

=============================================================================
