------------------------------- MODULE Startup -------------------------------
(***************************************************************************)
(* The console's start: Open and migrate (src/pkg/database/database.go)    *)
(* run the schema files a database has not recorded, then SeedBundled      *)
(* (src/pkg/services/policymodules.go) and, with the first requests,       *)
(* EnsureBuiltins (dependencygroups.go) and SeedBundled again insert rows  *)
(* the program ships.  The process may die between any two statements; the *)
(* next start begins from what was committed.                              *)
(*                                                                         *)
(* A schema file is the number of its statements; a seeded item is one row *)
(* and the number of rows that hang from it: the version, scripts and      *)
(* publication of a module, the conditions of a dependency group.          *)
(***************************************************************************)
EXTENDS Naturals, FiniteSets

CONSTANTS
    LastFile,           \* schema files are 1..LastFile, run in this order
    Statements,         \* Statements[f]: how many file f has
    Repeatable,         \* files whose statements may run again
    PragmaFiles,        \* files with a PRAGMA statement
    MentionsPragma,     \* files in whose text the word occurs
    Items,              \* what the program seeds
    Parts,              \* Parts[x]: rows that hang from item x
    Seeders,            \* start-up and requests that seed
    NoItem

Files == 1..LastFile

ASSUME LastFileAssumption == LastFile \in Nat
ASSUME StatementsAssumption == Statements \in [Files -> Nat \ {0}]
ASSUME PragmaAssumption == PragmaFiles \subseteq MentionsPragma
ASSUME PartsAssumption == Parts \in [Items -> Nat]
ASSUME NoItemAssumption == NoItem \notin Items

VARIABLES
    server,     \* "down", "migrating" or "up"
    file,       \* the schema file migrate is at
    applied,    \* applied[f]: statements of f that are committed
    recorded,   \* schema_migrations
    present,    \* items whose first row exists
    parts,      \* parts[x]: rows hanging from it
    seeder,     \* seeder[s]: where seeder s is
    broken      \* history: items whose seeder has died or failed

startVars == <<server, file, applied, recorded, present, parts,
               seeder, broken>>

SeederIdle == [pc |-> "idle", item |-> NoItem]

StartupTypeOK ==
    /\ server \in {"down", "migrating", "up"}
    /\ file \in 1..(LastFile + 1)
    /\ applied \in [Files -> Nat]
    /\ recorded \subseteq Files
    /\ present \subseteq Items
    /\ parts \in [Items -> Nat]
    /\ seeder \in [Seeders -> [pc : {"idle", "create", "fill"},
                               item : Items \cup {NoItem}]]
    /\ broken \subseteq Items

StartupInit ==
    /\ server = "down"
    /\ file = 1
    /\ applied = [f \in Files |-> 0]
    /\ recorded = {}
    /\ present = {}
    /\ parts = [x \in Items |-> 0]
    /\ seeder = [s \in Seeders |-> SeederIdle]
    /\ broken = {}

Schema == <<file, applied, recorded>>

Seeds == <<present, parts, seeder, broken>>

-----------------------------------------------------------------------------
(* migrate.                                                                *)

Boot ==
    /\ server = "down"
    /\ server' = "migrating"
    /\ file' = 1
    /\ UNCHANGED <<applied, recorded, Seeds>>

SkipRecorded ==
    /\ server = "migrating"
    /\ file \in recorded
    /\ file' = file + 1
    /\ UNCHANGED <<server, applied, recorded, Seeds>>

AtUnrecorded == server = "migrating" /\ file \in Files \ recorded

(* strings.Contains(strings.ToUpper(sql), "PRAGMA"): the word anywhere in  *)
(* the file, comments included, keeps it out of a transaction.             *)
OutsideTx(f) == f \in MentionsPragma

(* Tables and columns are there already: the statement fails, Open returns *)
(* the error and the server exits.                                         *)
Again(f) == applied[f] > 0 /\ f \notin Repeatable

StartFails ==
    /\ AtUnrecorded
    /\ Again(file)
    /\ server' = "down"
    /\ UNCHANGED <<file, applied, recorded, Seeds>>

(* Mutant: the file is recorded before it is executed.                     *)
RecordFirst(f) ==
    /\ applied' = [applied EXCEPT ![f] = 0]
    /\ recorded' = recorded \cup {f}

(* Executed and recorded in one transaction.                               *)
CommitWhole(f) ==
    /\ applied' = [applied EXCEPT ![f] = Statements[f]]
    /\ recorded' = recorded \cup {f}

MigrateInTx ==
    /\ AtUnrecorded
    /\ ~OutsideTx(file)
    /\ ~Again(file)
    /\ CommitWhole(file)
    /\ file' = file + 1
    /\ UNCHANGED <<server, Seeds>>

(* Exec commits n statements of the file and dies or fails on the next;    *)
(* what it had committed in an earlier start stays.                        *)
MigrateStopped(n) ==
    /\ AtUnrecorded
    /\ OutsideTx(file)
    /\ ~Again(file)
    /\ n \in 1..Statements[file]
    /\ applied' = [applied EXCEPT ![file] = IF n > @ THEN n ELSE @]
    /\ server' = "down"
    /\ UNCHANGED <<file, recorded, Seeds>>

(* Exec runs to the end, then the file is recorded.                        *)
MigrateOutsideTx ==
    /\ AtUnrecorded
    /\ OutsideTx(file)
    /\ ~Again(file)
    /\ CommitWhole(file)
    /\ file' = file + 1
    /\ UNCHANGED <<server, Seeds>>

(* Every file is recorded: Open returns, the server starts.                *)
Serve ==
    /\ server = "migrating"
    /\ file = LastFile + 1
    /\ server' = "up"
    /\ UNCHANGED <<Schema, Seeds>>

-----------------------------------------------------------------------------
(* SeedBundled and EnsureBuiltins, item by item.                           *)

SeederAt(s, label) == seeder[s].pc = label

SeederMove(s, label, x) ==
    seeder' = [seeder EXCEPT ![s] = [pc |-> label, item |-> x]]

(* GetPolicyModuleByURN, GetDependencyGroupBySlug: an item that is there   *)
(* is left alone.                                                          *)
SeedLook(s, x) ==
    /\ server = "up"
    /\ SeederAt(s, "idle")
    /\ x \notin present
    /\ SeederMove(s, "create", x)
    /\ UNCHANGED <<server, Schema, present, parts, broken>>

(* Mutant: a lost race is not noticed and the rows are inserted again.     *)
SeedCreateBlindly(s) ==
    /\ SeederAt(s, "create")
    /\ present' = present \cup {seeder[s].item}
    /\ SeederMove(s, "fill", seeder[s].item)
    /\ UNCHANGED <<server, Schema, parts, broken>>

(* The insert: a UNIQUE violation is a lost race, and the winner's rows    *)
(* are left to the winner.                                                 *)
SeedCreate(s) ==
    LET x == seeder[s].item IN
    /\ SeederAt(s, "create")
    /\ present' = present \cup {x}
    /\ IF x \in present THEN SeederMove(s, "idle", NoItem)
       ELSE SeederMove(s, "fill", x)
    /\ UNCHANGED <<server, Schema, parts, broken>>

(* One row after another that hangs from the first.                        *)
SeedFill(s) ==
    LET x == seeder[s].item IN
    /\ SeederAt(s, "fill")
    /\ parts[x] < Parts[x]
    /\ parts' = [parts EXCEPT ![x] = @ + 1]
    /\ UNCHANGED <<server, Schema, present, seeder, broken>>

SeedDone(s) ==
    /\ SeederAt(s, "fill")
    /\ parts[seeder[s].item] >= Parts[seeder[s].item]
    /\ SeederMove(s, "idle", NoItem)
    /\ UNCHANGED <<server, Schema, present, parts, broken>>

(* A statement fails: the seeder returns the error, which its callers log  *)
(* or ignore.                                                              *)
SeedFail(s) ==
    /\ ~SeederAt(s, "idle")
    /\ broken' = broken \cup (IF SeederAt(s, "fill") THEN {seeder[s].item}
                              ELSE {})
    /\ SeederMove(s, "idle", NoItem)
    /\ UNCHANGED <<server, Schema, present, parts>>

(* The process dies.                                                       *)
ServerCrash ==
    /\ server # "down"
    /\ server' = "down"
    /\ broken' = broken \cup {seeder[s].item : s \in
                                {t \in Seeders : SeederAt(t, "fill")}}
    /\ seeder' = [s \in Seeders |-> SeederIdle]
    /\ UNCHANGED <<Schema, present, parts>>

StartupNext ==
    \/ Boot \/ SkipRecorded \/ StartFails \/ MigrateInTx
    \/ \E n \in UNION {1..Statements[f] : f \in Files} : MigrateStopped(n)
    \/ MigrateOutsideTx \/ Serve \/ ServerCrash
    \/ \E s \in Seeders :
         \/ \E x \in Items : SeedLook(s, x)
         \/ SeedCreate(s) \/ SeedFill(s) \/ SeedDone(s) \/ SeedFail(s)

StartupSpec == StartupInit /\ [][StartupNext]_startVars

-----------------------------------------------------------------------------
(* The server serves only over a schema all of whose files have run to     *)
(* their last statement, in whatever starts they did, and a recorded file  *)
(* has.                                                                    *)
ServesWholeSchema ==
    /\ \A f \in recorded : applied[f] = Statements[f]
    /\ server = "up" => recorded = Files

(* Seeders that race, and repeat each other's work at every start, insert  *)
(* the rows of an item once, and only an item whose own seeder has died or *)
(* failed stays without some of them.                                      *)
SeededOnce ==
    \A x \in Items :
        LET filling == {s \in Seeders : seeder[s] = [pc |-> "fill", item |-> x]}
        IN /\ Cardinality(filling) <= 1
           /\ x \in present /\ parts[x] # Parts[x] =>
                filling # {} \/ x \in broken

(* "Each PRAGMA-free migration executes and is recorded inside a single    *)
(* transaction, so a crash mid-migration cannot leave the schema changed   *)
(* but unrecorded."                                                        *)
PragmaFreeMigrationsAreAtomic ==
    \A f \in Files \ PragmaFiles : applied[f] > 0 => f \in recorded

(* What serves is a whole schema whose builtin rows are there once.        *)
StartupIsSound == ServesWholeSchema /\ SeededOnce

=============================================================================
