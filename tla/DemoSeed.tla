-------------------------------- MODULE DemoSeed --------------------------------
(***************************************************************************)
(* The seeder of demo data (src/cmd/seed/main.go): one run goes through    *)
(* its lists in order, asks for each row whether it is there, and inserts  *)
(* it; some rows are completed by a second statement.  A run may die       *)
(* anywhere and be started again, beside a console whose users delete and  *)
(* restore what has been seeded.  Purging is left to module Retention.     *)
(***************************************************************************)
EXTENDS Naturals, Sequences, FiniteSets, Functions, Selections

CONSTANTS
    TenantSeed,     \* the "demo" tenant
    SiteSeeds,      \* the lists, in order
    ComputerSeeds, ServerSeeds, PrinterSeeds, DeskSeeds, IdentitySeeds,
    GroupSeeds, SoftwareSeeds,
    Flagged,        \* identities that are seeded locked or disabled
    SeedDeletable       \* rows users delete and restore

ASSUME SeedListsAreSequences ==
    \A list \in {SiteSeeds, ComputerSeeds, ServerSeeds, PrinterSeeds, DeskSeeds,
                 IdentitySeeds, GroupSeeds, SoftwareSeeds} : list \in Seq(Range(list))

ASSUME SeedsAreDistinct ==
    /\ Flagged \subseteq Range(IdentitySeeds)
    /\ SeedDeletable \subseteq Range(ComputerSeeds \o IdentitySeeds \o GroupSeeds)
    /\ IsInjective(<<TenantSeed>> \o SiteSeeds \o ComputerSeeds \o ServerSeeds
         \o PrinterSeeds \o DeskSeeds \o IdentitySeeds \o GroupSeeds \o SoftwareSeeds)

VARIABLES
    seeded,         \* seeded[x]: "none", "active" or "binned", for rows with a
                    \* name the schema keeps unique
    half,           \* rows whose second statement has not run
    members,        \* members of the two groups
    baselines,      \* rows named HQ-Baseline: state, binding, assignment
    software,       \* software[x]: rows for x on the first computer
    described,      \* computers with a description
    at,             \* the run's list entry (0: no run), whether the row's
                    \* second statement is next, and the baseline it uses
    seedLog         \* history: a run has been complete; rows have been
                    \* deleted; rows have been restored; a second baseline
                    \* has been made where the lookup of the first failed

seedVars == <<seeded, half, members, baselines, software, described, at, seedLog>>

Of(stage, list) == [n \in DOMAIN list |-> [stage |-> stage, row |-> list[n]]]

TenantStage == Of("row", <<TenantSeed>>)
SiteStage == Of("row", SiteSeeds)
ComputerStage == Of("asset", ComputerSeeds)
ServerStage == Of("asset", ServerSeeds)
PrinterStage == Of("asset", PrinterSeeds)
DeskStage == Of("asset", DeskSeeds)
IdentityStage == Of("identity", IdentitySeeds)
GroupStage == Of("group", GroupSeeds)

NamedStages == TenantStage \o SiteStage \o ComputerStage \o ServerStage \o PrinterStage
                 \o DeskStage \o IdentityStage \o GroupStage

Plan == NamedStages \o [n \in 1 .. 4 |-> [stage |-> <<"members", "baseline", "binding", "assignment">>[n]]]
          \o Of("software", SoftwareSeeds) \o <<[stage |-> "extras"]>>

Rows == {NamedStages[n].row : n \in DOMAIN NamedStages}

BaselineRows == 1 .. 2

NoBaseline == [state |-> "none", bound |-> FALSE, assigned |-> FALSE]

NoRun == [entry |-> 0, second |-> FALSE, base |-> 1]

SeedInit ==
    /\ seeded = [x \in Rows |-> "none"]
    /\ half = {}
    /\ members = {} /\ described = {}
    /\ baselines = [b \in BaselineRows |-> NoBaseline]
    /\ software = [x \in Range(SoftwareSeeds) |-> 0]
    /\ at = NoRun
    /\ seedLog = [complete |-> FALSE, deleted |-> FALSE, restored |-> FALSE, mistaken |-> FALSE]

-----------------------------------------------------------------------------
(* One run.                                                                *)

SeedRunStarts ==
    /\ at = NoRun
    /\ at' = [NoRun EXCEPT !.entry = 1]
    /\ UNCHANGED <<seeded, half, members, baselines, software, described, seedLog>>

(* An error, or the death of the process.                                  *)
SeedRunBreaksOff ==
    /\ at # NoRun
    /\ at' = NoRun
    /\ UNCHANGED <<seeded, half, members, baselines, software, described, seedLog>>

(* The next entry, or the summary and the end.                             *)
NextEntry ==
    IF at.entry < Len(Plan)
      THEN at' = [at EXCEPT !.entry = @ + 1, !.second = FALSE] /\ UNCHANGED seedLog
      ELSE at' = NoRun /\ seedLog' = [seedLog EXCEPT !.complete = TRUE]

AtStage(stage) == at # NoRun /\ Plan[at.entry].stage = stage /\ ~at.second

Entry == Plan[at.entry].row

SkipEntry == NextEntry /\ UNCHANGED <<seeded, half>>

InsertEntry(completed) ==
    /\ seeded' = [seeded EXCEPT ![Entry] = "active"]
    /\ IF completed THEN NextEntry /\ UNCHANGED half
                    ELSE /\ half' = half \cup {Entry}
                         /\ at' = [at EXCEPT !.second = TRUE]
                         /\ UNCHANGED seedLog

(* A name the schema keeps unique, rows in the bin included: a refused     *)
(* insert is taken to mean that the row has been seeded.                   *)
InsertUnlessTaken(completed) ==
    /\ IF seeded[Entry] = "none" THEN InsertEntry(completed) ELSE SkipEntry
    /\ UNCHANGED <<members, baselines, software, described>>

GetOrCreateSite == AtStage("row") /\ InsertUnlessTaken(TRUE)

SeedAsset == AtStage("asset") /\ InsertUnlessTaken(FALSE)

SeedIdentity == AtStage("identity") /\ InsertUnlessTaken(Entry \notin Flagged)

(* Asked for among the rows that are not in the bin; the insert then fails *)
(* on one that is, and with it the run.                                    *)
GetOrCreateGroup ==
    /\ AtStage("group")
    /\ seeded[Entry] # "binned"
    /\ IF seeded[Entry] = "active" THEN SkipEntry ELSE InsertEntry(FALSE)
    /\ UNCHANGED <<members, baselines, software, described>>

(* CMDB columns, the locked or disabled flag, category and scope.  Only an *)
(* asset's failure is logged and passed over.                              *)
SecondStatement ==
    /\ at.second
    /\ \/ half' = half \ {Entry}
       \/ Plan[at.entry].stage = "asset" /\ UNCHANGED half
    /\ NextEntry
    /\ UNCHANGED <<seeded, members, baselines, software, described>>

FirstOf(list, k) == SubSeq(list, 1, IF k < Len(list) THEN k ELSE Len(list))

(* ORDER BY id: rows in the bin are among them.                            *)
FirstComputerIDs(k) == FirstOf(ComputerSeeds, k)

(* ListIdentitiesByTenant(limit 2); the lists are in display name order.   *)
FirstIdentities ==
    LET active == {n \in DOMAIN IdentitySeeds : seeded[IdentitySeeds[n]] = "active"}
    IN  FirstOf(KeepAt(IdentitySeeds, active), 2)

(* One statement for each of a list: the run gets through them, or breaks  *)
(* off after k.                                                            *)
EachOf(list, k) == k \in 0 .. Len(list) /\ (IF k = Len(list) THEN NextEntry
                                              ELSE at' = NoRun /\ UNCHANGED seedLog)

SeedMembers ==
    LET list == FirstComputerIDs(3) \o FirstIdentities IN
    /\ AtStage("members")
    /\ \E k \in 0 .. Len(list) :
         /\ members' = members \cup Range(SubSeq(list, 1, k))
         /\ EachOf(list, k)
    /\ UNCHANGED <<seeded, half, baselines, software, described>>

LiveBaselines == {b \in BaselineRows : baselines[b].state = "active"}

(* A name the schema does not keep unique.  Any error of the lookup is     *)
(* taken to mean that there is none, so that it may make another.          *)
SeedBaseline(b) ==
    /\ AtStage("baseline")
    /\ \/ b \in LiveBaselines /\ UNCHANGED <<baselines, seedLog>>
       \/ /\ baselines[b].state = "none"
          /\ baselines' = [baselines EXCEPT ![b].state = "active"]
          /\ seedLog' = [seedLog EXCEPT !.mistaken = @ \/ LiveBaselines # {}]
    /\ at' = [at EXCEPT !.entry = @ + 1, !.base = b]
    /\ UNCHANGED <<seeded, half, members, software, described>>

SeedBinding ==
    /\ AtStage("binding")
    /\ baselines' = [baselines EXCEPT ![at.base].bound = TRUE]
    /\ NextEntry
    /\ UNCHANGED <<seeded, half, members, software, described>>

SeedAssignment ==
    /\ AtStage("assignment")
    /\ baselines' = [baselines EXCEPT ![at.base].assigned = TRUE]
    /\ NextEntry
    /\ UNCHANGED <<seeded, half, members, software, described>>

(* Mutant: the list of what is installed is not asked.                     *)
InstallableAgain(x) == software[x] < 2

(* The table has no unique name: only the list keeps software single.      *)
Installable(x) == software[x] = 0

SeedSoftware ==
    /\ AtStage("software")
    /\ software' = [software EXCEPT ![Entry] = IF Installable(Entry) THEN @ + 1 ELSE @]
    /\ NextEntry
    /\ UNCHANGED <<seeded, half, members, baselines, described>>

SeedExtras ==
    LET list == FirstComputerIDs(2) IN
    /\ AtStage("extras")
    /\ \E k \in 0 .. Len(list) :
         /\ described' = described \cup Range(SubSeq(list, 1, k))
         /\ EachOf(list, k)
    /\ UNCHANGED <<seeded, half, members, baselines, software>>

-----------------------------------------------------------------------------
(* The console's soft deletes and restores.                                *)

DeleteSeeded(x) ==
    /\ seeded[x] = "active"
    /\ seeded' = [seeded EXCEPT ![x] = "binned"]
    /\ seedLog' = [seedLog EXCEPT !.deleted = TRUE]
    /\ UNCHANGED <<half, members, baselines, software, described, at>>

RestoreSeeded(x) ==
    /\ seeded[x] = "binned"
    /\ seeded' = [seeded EXCEPT ![x] = "active"]
    /\ UNCHANGED <<half, members, baselines, software, described, at, seedLog>>

DeleteBaseline(b) ==
    /\ baselines[b].state = "active"
    /\ baselines' = [baselines EXCEPT ![b].state = "binned"]
    /\ seedLog' = [seedLog EXCEPT !.deleted = TRUE]
    /\ UNCHANGED <<seeded, half, members, software, described, at>>

RestoreBaseline(b) ==
    /\ baselines[b].state = "binned"
    /\ baselines' = [baselines EXCEPT ![b].state = "active"]
    /\ seedLog' = [seedLog EXCEPT !.restored = TRUE]
    /\ UNCHANGED <<seeded, half, members, software, described, at>>

SeedNext ==
    \/ SeedRunStarts \/ SeedRunBreaksOff
    \/ GetOrCreateSite \/ SeedAsset \/ SeedIdentity \/ GetOrCreateGroup \/ SecondStatement
    \/ SeedMembers \/ SeedBinding \/ SeedAssignment \/ SeedSoftware \/ SeedExtras
    \/ \E b \in BaselineRows : SeedBaseline(b) \/ DeleteBaseline(b) \/ RestoreBaseline(b)
    \/ \E x \in SeedDeletable : DeleteSeeded(x) \/ RestoreSeeded(x)

SeedSpec == SeedInit /\ [][SeedNext]_seedVars

-----------------------------------------------------------------------------

SeedTypeOK ==
    /\ seeded \in [Rows -> {"none", "active", "binned"}]
    /\ half \subseteq Rows
    /\ members \subseteq Rows /\ described \subseteq Rows
    /\ baselines \in [BaselineRows ->
         [state : {"none", "active", "binned"}, bound : BOOLEAN, assigned : BOOLEAN]]
    /\ software \in [Range(SoftwareSeeds) -> 0 .. 2]
    /\ at \in [entry : 0 .. Len(Plan), second : BOOLEAN, base : BaselineRows]
    /\ seedLog \in [complete : BOOLEAN, deleted : BOOLEAN, restored : BOOLEAN, mistaken : BOOLEAN]

(* "Safe to call twice": however runs break off and are repeated, once one *)
(* has come to its end everything is there, the rows, the software and the *)
(* members once each, until somebody deletes something; and nobody sees    *)
(* two baselines, until somebody has restored one, or its lookup has       *)
(* failed and the run has made another.                                    *)
SeedsExactlyOnce ==
    /\ seedLog.complete /\ ~seedLog.deleted =>
         /\ \A x \in Rows : seeded[x] = "active"
         /\ \A x \in DOMAIN software : software[x] = 1
         /\ members = Range(FirstComputerIDs(3) \o FirstIdentities)
         /\ described = Range(FirstComputerIDs(2))
         /\ \E b \in LiveBaselines : baselines[b].bound /\ baselines[b].assigned
    /\ \A x \in DOMAIN software : software[x] <= 1
    /\ ~seedLog.restored /\ ~seedLog.mistaken => Cardinality(LiveBaselines) <= 1

=============================================================================
