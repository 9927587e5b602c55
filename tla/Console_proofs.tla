--------------------------- MODULE Console_proofs ---------------------------
(***************************************************************************)
(* Theorems about the console's components side by side, as MCConsole puts *)
(* them; and about three of them alone: what serves is a whole schema and  *)
(* what the program ships is inserted once, through any number of starts and*)
(* crashes (Startup); edits of fields (FieldEdits); the links DependencyEval*)
(* reads.  For any files, items, seeders, fields, conditions and requests. *)
(***************************************************************************)
EXTENDS MCConsole, Access_proofs, Groups_proofs, FiniteSetTheorems, TLAPS

-----------------------------------------------------------------------------
(* Startup.                                                                *)

(* A recorded file has run to its end; what migrate has passed is recorded. *)
MigrationInv ==
    /\ server \in {"down", "migrating", "up"}
    /\ file \in Nat \ {0} /\ file <= LastFile + 1
    /\ applied \in [Files -> Nat]
    /\ recorded \subseteq Files
    /\ \A f \in recorded : applied[f] = Statements[f]
    /\ server = "migrating" => \A f \in Files : f < file => f \in recorded
    /\ server = "up" => recorded = Files

(* A file that does not mention PRAGMA has run only if it is recorded.     *)
RunInTx == \A f \in Files \ MentionsPragma : applied[f] > 0 => f \in recorded

SeederType == [pc : {"idle", "create", "fill"}, item : Items \cup {NoItem}]

Filling(s, x) == seeder[s] = [pc |-> "fill", item |-> x]

(* An item has one seeder that fills it, who inserted its first row; one   *)
(* that is not complete has that seeder still, or has lost it.             *)
SeedingInv ==
    /\ present \subseteq Items
    /\ parts \in [Items -> Nat]
    /\ seeder \in [Seeders -> SeederType]
    /\ broken \subseteq Items
    /\ \A s \in Seeders : seeder[s].pc \in {"create", "fill"} => seeder[s].item \in Items
    /\ \A s \in Seeders : seeder[s].pc = "fill" => seeder[s].item \in present
    /\ \A s, t \in Seeders :
         seeder[s].pc = "fill" /\ seeder[t].pc = "fill" /\ seeder[s].item = seeder[t].item
         => s = t
    /\ \A x \in Items \ present : parts[x] = 0
    /\ \A x \in Items : parts[x] <= Parts[x]
    /\ \A x \in present :
         parts[x] = Parts[x] \/ x \in broken \/ \E s \in Seeders : Filling(s, x)

StartupInv == MigrationInv /\ RunInTx /\ SeedingInv

-----------------------------------------------------------------------------
(* The schema.                                                             *)

LEMMA MigrationStays ==
    ASSUME MigrationInv, RunInTx, UNCHANGED Schema, server' \in {server, "down"}
    PROVE  MigrationInv' /\ RunInTx'
BY DEF MigrationInv, RunInTx, Schema

(* A file runs whole: it is the next one and is recorded with it.          *)
LEMMA WholeFileKeepsMigration ==
    ASSUME MigrationInv, RunInTx, AtUnrecorded, CommitWhole(file), file' = file + 1,
           UNCHANGED server
    PROVE  MigrationInv' /\ RunInTx'
<1> USE DEF MigrationInv, RunInTx, AtUnrecorded, CommitWhole
<1>1. file \in Files /\ Statements[file] \in Nat /\ file <= LastFile /\ server = "migrating"
  BY LastFileAssumption, StatementsAssumption DEF Files
<1>2. /\ applied' \in [Files -> Nat] /\ applied'[file] = Statements[file]
      /\ \A f \in Files \ {file} : applied'[f] = applied[f]
  BY <1>1
<1>3. recorded' = recorded \cup {file}
  OBVIOUS
<1>4. \A f \in Files : f < file + 1 => f \in recorded'
  <2>1. ASSUME NEW f \in Files, f < file + 1 PROVE f < file \/ f = file
    BY <1>1, <2>1, LastFileAssumption DEF Files
  <2> QED BY <1>1, <1>3, <2>1
<1>5. file' \in Nat \ {0} /\ file' <= LastFile + 1
  BY <1>1, LastFileAssumption
<1>6. RunInTx'
  BY <1>1, <1>2, <1>3
<1> QED BY <1>1, <1>2, <1>3, <1>4, <1>5, <1>6

LEMMA MigrationSteps ==
    ASSUME MigrationInv, RunInTx,
           \/ Boot \/ SkipRecorded \/ StartFails \/ MigrateInTx \/ MigrateOutsideTx \/ Serve
           \/ \E n \in UNION {1..Statements[f] : f \in Files} : MigrateStopped(n)
    PROVE  MigrationInv' /\ RunInTx'
<1>1. CASE Boot
  <2>1. \A f \in Files : ~(f < 1)
    BY LastFileAssumption DEF Files
  <2> QED BY <1>1, <2>1, LastFileAssumption DEF Boot, MigrationInv, RunInTx
<1>2. CASE SkipRecorded
  <2>1. file \in Files /\ file <= LastFile
    BY <1>2, LastFileAssumption DEF SkipRecorded, MigrationInv, Files
  <2>2. \A f \in Files : f < file + 1 => f < file \/ f = file
    BY <2>1, LastFileAssumption DEF Files
  <2>3. file' = file + 1 /\ UNCHANGED <<server, applied, recorded>> /\ file \in recorded
    BY <1>2 DEF SkipRecorded
  <2>4. file' \in Nat \ {0} /\ file' <= LastFile + 1
    BY <2>1, <2>3, LastFileAssumption DEF MigrationInv
  <2> QED BY <2>2, <2>3, <2>4 DEF MigrationInv, RunInTx
<1>3. CASE StartFails
  BY <1>3, MigrationStays DEF StartFails, Schema
<1>4. CASE MigrateInTx \/ MigrateOutsideTx
  BY <1>4, WholeFileKeepsMigration DEF MigrateInTx, MigrateOutsideTx
<1>5. ASSUME NEW n \in UNION {1..Statements[f] : f \in Files}, MigrateStopped(n)
      PROVE  MigrationInv' /\ RunInTx'
  <2>1. /\ file \in Files \ recorded /\ file \in MentionsPragma
        /\ applied' = [applied EXCEPT ![file] = IF n > @ THEN n ELSE @]
        /\ server' = "down" /\ UNCHANGED <<file, recorded>>
    BY <1>5 DEF MigrateStopped, AtUnrecorded, OutsideTx
  <2>2. n \in Nat
    BY StatementsAssumption
  <2>3. /\ applied' \in [Files -> Nat]
        /\ \A f \in Files \ {file} : applied'[f] = applied[f]
    BY <2>1, <2>2 DEF MigrationInv
  <2> QED BY <2>1, <2>3 DEF MigrationInv, RunInTx
<1>6. CASE Serve
  <2>1. \A f \in Files : f < file
    BY <1>6, LastFileAssumption DEF Serve, Files
  <2> QED BY <1>6, <2>1 DEF Serve, Schema, MigrationInv, RunInTx
<1> QED BY <1>1, <1>2, <1>3, <1>4, <1>5, <1>6

-----------------------------------------------------------------------------
(* The seeders.                                                            *)

LEMMA SeederMoves ==
    ASSUME SeedingInv, NEW s \in Seeders, NEW label \in {"idle", "create", "fill"},
           NEW x \in Items \cup {NoItem}, SeederMove(s, label, x)
    PROVE  /\ seeder' \in [Seeders -> SeederType]
           /\ seeder'[s] = [pc |-> label, item |-> x]
           /\ \A t \in Seeders \ {s} : seeder'[t] = seeder[t]
BY DEF SeederMove, SeedingInv, SeederType

LEMMA FillingMeans ==
    ASSUME SeedingInv, NEW s \in Seeders, NEW x
    PROVE  Filling(s, x) <=> seeder[s].pc = "fill" /\ seeder[s].item = x
<1>1. seeder[s] \in SeederType
  BY DEF SeedingInv
<1> QED BY <1>1 DEF Filling, SeederType

LEMMA SeedLookKeepsSeeding ==
    ASSUME SeedingInv, NEW s \in Seeders, NEW x \in Items, SeedLook(s, x)
    PROVE  SeedingInv'
<1>1. /\ seeder' \in [Seeders -> SeederType] /\ seeder'[s] = [pc |-> "create", item |-> x]
      /\ \A t \in Seeders \ {s} : seeder'[t] = seeder[t]
      /\ seeder[s].pc = "idle" /\ UNCHANGED <<present, parts, broken>>
  BY SeederMoves DEF SeedLook, SeederAt
<1>2. \A t \in Seeders, y \in Items : Filling(t, y) => Filling(t, y)'
  BY <1>1 DEF Filling
<1> QED BY <1>1, <1>2 DEF SeedingInv

LEMMA SeedCreateKeepsSeeding ==
    ASSUME SeedingInv, NEW s \in Seeders, SeedCreate(s)
    PROVE  SeedingInv'
<1> DEFINE x == seeder[s].item
<1>1. seeder[s].pc = "create" /\ x \in Items /\ present' = present \cup {x}
  BY DEF SeedCreate, SeederAt, SeedingInv
<1>2. UNCHANGED <<parts, broken>>
  BY DEF SeedCreate
<1>3. \A t \in Seeders, y \in Items : Filling(t, y) => t # s
  BY <1>1 DEF Filling
<1>4. CASE x \in present
  <2>1. SeederMove(s, "idle", NoItem)
    BY <1>4 DEF SeedCreate
  <2>2. /\ seeder' \in [Seeders -> SeederType] /\ seeder'[s] = [pc |-> "idle", item |-> NoItem]
        /\ \A t \in Seeders \ {s} : seeder'[t] = seeder[t]
    BY <2>1, SeederMoves
  <2>3. \A t \in Seeders, y \in Items : Filling(t, y) => Filling(t, y)'
    BY <1>3, <2>2 DEF Filling
  <2>4. present' = present
    BY <1>1, <1>4
  <2> QED BY <1>2, <2>2, <2>3, <2>4 DEF SeedingInv
<1>5. CASE x \notin present
  <2>1. SeederMove(s, "fill", x)
    BY <1>5 DEF SeedCreate
  <2>2. /\ seeder' \in [Seeders -> SeederType] /\ seeder'[s] = [pc |-> "fill", item |-> x]
        /\ \A t \in Seeders \ {s} : seeder'[t] = seeder[t]
    BY <1>1, <2>1, SeederMoves
  <2>3. \A t \in Seeders, y \in Items : Filling(t, y) => Filling(t, y)'
    BY <1>3, <2>2 DEF Filling
  <2>4. Filling(s, x)'
    BY <2>2 DEF Filling
  <2>5. \A t \in Seeders \ {s} : seeder[t].pc = "fill" => seeder[t].item # x
    BY <1>5 DEF SeedingInv
  <2>6. \A y \in present' :
          parts'[y] = Parts[y] \/ y \in broken' \/ \E t \in Seeders : Filling(t, y)'
    <3> SUFFICES ASSUME NEW y \in present'
                 PROVE  parts[y] = Parts[y] \/ y \in broken \/ \E t \in Seeders : Filling(t, y)'
      BY <1>2
    <3>1. CASE y \in present
      BY <2>3, <3>1 DEF SeedingInv
    <3>2. CASE y = seeder[s].item
      <4>1. Filling(s, y)'
        BY <2>2, <3>2 DEF Filling
      <4> QED BY <4>1
    <3> QED BY <1>1, <3>1, <3>2
  <2> HIDE DEF x
  <2> QED BY <1>1, <1>2, <2>2, <2>5, <2>6 DEF SeedingInv
<1> QED BY <1>4, <1>5

LEMMA SeedFillKeepsSeeding ==
    ASSUME SeedingInv, NEW s \in Seeders, SeedFill(s)
    PROVE  SeedingInv'
<1> DEFINE x == seeder[s].item
<1>1. /\ seeder[s].pc = "fill" /\ x \in Items /\ x \in present
      /\ parts[x] < Parts[x] /\ parts' = [parts EXCEPT ![x] = @ + 1]
      /\ UNCHANGED <<present, seeder, broken>>
  BY DEF SeedFill, SeederAt, SeedingInv
<1>2. Filling(s, x)
  BY <1>1, FillingMeans
<1>3. /\ parts' \in [Items -> Nat] /\ parts'[x] = parts[x] + 1
      /\ \A y \in Items \ {x} : parts'[y] = parts[y]
  BY <1>1 DEF SeedingInv
<1>4. \A y \in Items : parts'[y] <= Parts[y]
  <2>1. parts'[x] <= Parts[x]
    BY <1>1, <1>3, PartsAssumption DEF SeedingInv
  <2> QED BY <1>3, <2>1 DEF SeedingInv
<1>5. \A t \in Seeders : \A y : Filling(t, y)' <=> Filling(t, y)
  BY <1>1 DEF Filling
<1>6. \A y \in present :
        parts'[y] = Parts[y] \/ y \in broken \/ \E t \in Seeders : Filling(t, y)
  BY <1>2, <1>3 DEF SeedingInv
<1> HIDE DEF x
<1> QED BY <1>1, <1>3, <1>4, <1>5, <1>6 DEF SeedingInv

(* A seeder that stops leaves an item that is complete or counted broken.  *)
LEMMA SeederStopsKeepsSeeding ==
    ASSUME SeedingInv, NEW s \in Seeders, SeedDone(s) \/ SeedFail(s)
    PROVE  SeedingInv'
<1>1. SeederMove(s, "idle", NoItem) /\ UNCHANGED <<present, parts>>
  BY DEF SeedDone, SeedFail
<1>2. /\ seeder' \in [Seeders -> SeederType] /\ seeder'[s] = [pc |-> "idle", item |-> NoItem]
      /\ \A t \in Seeders \ {s} : seeder'[t] = seeder[t]
  BY <1>1, SeederMoves
<1>3. /\ broken \subseteq broken' /\ broken' \subseteq Items
      /\ seeder[s].pc = "fill" =>
           seeder[s].item \in broken' \/ parts[seeder[s].item] = Parts[seeder[s].item]
  <2>1. CASE SeedDone(s)
    <3>1. parts[seeder[s].item] >= Parts[seeder[s].item] /\ broken' = broken
      BY <2>1 DEF SeedDone
    <3>2. CASE seeder[s].pc = "fill"
      <4>1. seeder[s].item \in Items
        BY <3>2 DEF SeedingInv
      <4>2. parts[seeder[s].item] = Parts[seeder[s].item]
        BY <3>1, <4>1, PartsAssumption DEF SeedingInv
      <4> QED BY <3>1, <4>2 DEF SeedingInv
    <3> QED BY <3>1, <3>2 DEF SeedingInv
  <2>2. CASE SeedFail(s)
    BY <2>2 DEF SeedFail, SeederAt, SeedingInv
  <2> QED BY <2>1, <2>2
<1>4. \A t \in Seeders \ {s} : \A y : Filling(t, y) => Filling(t, y)'
  BY <1>2 DEF Filling
<1>5. \A y \in present :
        parts[y] = Parts[y] \/ y \in broken' \/ \E t \in Seeders : Filling(t, y)'
  <2> SUFFICES ASSUME NEW y \in present, parts[y] # Parts[y], y \notin broken'
               PROVE  \E t \in Seeders : Filling(t, y)'
    OBVIOUS
  <2>1. PICK t \in Seeders : Filling(t, y)
    BY <1>3 DEF SeedingInv
  <2>2. t # s
    BY <1>3, <2>1, FillingMeans
  <2> QED BY <1>4, <2>1, <2>2
<1> QED BY <1>1, <1>2, <1>3, <1>5 DEF SeedingInv

LEMMA ServerCrashKeepsSeeding ==
    ASSUME SeedingInv, ServerCrash
    PROVE  SeedingInv'
<1>1. /\ seeder' = [s \in Seeders |-> SeederIdle] /\ UNCHANGED <<present, parts>>
      /\ broken' = broken \cup {seeder[s].item : s \in {t \in Seeders : SeederAt(t, "fill")}}
  BY DEF ServerCrash
<1>2. seeder' \in [Seeders -> SeederType] /\ \A s \in Seeders : seeder'[s].pc = "idle"
  BY <1>1 DEF SeederIdle, SeederType
<1>3. broken' \subseteq Items
  BY <1>1 DEF SeedingInv, SeederAt
<1>4. \A x \in present : parts[x] = Parts[x] \/ x \in broken'
  <2> SUFFICES ASSUME NEW x \in present, parts[x] # Parts[x], x \notin broken
               PROVE  \E s \in Seeders : SeederAt(s, "fill") /\ seeder[s].item = x
    BY <1>1
  <2>1. PICK s \in Seeders : Filling(s, x)
    BY DEF SeedingInv
  <2> QED BY <2>1, FillingMeans DEF SeederAt
<1> QED BY <1>1, <1>2, <1>3, <1>4 DEF SeedingInv

LEMMA SeedsStay ==
    ASSUME SeedingInv, UNCHANGED Seeds
    PROVE  SeedingInv'
<1>1. UNCHANGED <<present, parts, seeder, broken>>
  BY DEF Seeds
<1>2. \A t \in Seeders : \A y : Filling(t, y)' <=> Filling(t, y)
  BY <1>1 DEF Filling
<1> QED BY <1>1, <1>2 DEF SeedingInv

-----------------------------------------------------------------------------

LEMMA StartupInitInv == StartupInit => StartupInv
<1> SUFFICES ASSUME StartupInit PROVE StartupInv
  OBVIOUS
<1>1. MigrationInv /\ RunInTx
  BY LastFileAssumption DEF StartupInit, MigrationInv, RunInTx
<1>2. SeedingInv
  BY PartsAssumption DEF StartupInit, SeedingInv, SeederIdle, SeederType
<1> QED BY <1>1, <1>2 DEF StartupInv

LEMMA StartupNextKeepsInv == StartupInv /\ [StartupNext]_startVars => StartupInv'
<1> SUFFICES ASSUME StartupInv, [StartupNext]_startVars PROVE StartupInv'
  OBVIOUS
<1> USE DEF StartupInv
<1>1. CASE \/ Boot \/ SkipRecorded \/ StartFails \/ MigrateInTx \/ MigrateOutsideTx \/ Serve
           \/ \E n \in UNION {1..Statements[f] : f \in Files} : MigrateStopped(n)
  <2>1. UNCHANGED Seeds
    BY <1>1 DEF Boot, SkipRecorded, StartFails, MigrateInTx, MigrateOutsideTx, Serve,
                MigrateStopped
  <2> QED BY <1>1, <2>1, MigrationSteps, SeedsStay
<1>2. ASSUME NEW s \in Seeders,
             \/ \E x \in Items : SeedLook(s, x)
             \/ SeedCreate(s) \/ SeedFill(s) \/ SeedDone(s) \/ SeedFail(s)
      PROVE  StartupInv'
  <2>1. UNCHANGED <<server, Schema>>
    BY <1>2 DEF SeedLook, SeedCreate, SeedFill, SeedDone, SeedFail
  <2> QED BY <1>2, <2>1, MigrationStays, SeedLookKeepsSeeding, SeedCreateKeepsSeeding,
             SeedFillKeepsSeeding, SeederStopsKeepsSeeding
<1>3. CASE ServerCrash
  BY <1>3, MigrationStays, ServerCrashKeepsSeeding DEF ServerCrash
<1>4. CASE UNCHANGED startVars
  <2>1. UNCHANGED <<server, Schema, Seeds>>
    BY <1>4 DEF startVars, Schema, Seeds
  <2> QED BY <2>1, MigrationStays, SeedsStay
<1> QED BY <1>1, <1>2, <1>3, <1>4 DEF StartupNext

LEMMA StartupInvHolds == StartupSpec => []StartupInv
BY StartupInitInv, StartupNextKeepsInv, PTL DEF StartupSpec

(* Open serves only a schema all of whose files have run to the end, and   *)
(* of the rows of an item SeedBundled and EnsureBuiltins have inserted     *)
(* each once, but for those whose own seeder has died or failed.           *)
THEOREM StartsAreSound == StartupSpec => []StartupIsSound
<1>1. StartupInv => StartupIsSound
  <2> SUFFICES ASSUME StartupInv PROVE StartupIsSound
    OBVIOUS
  <2>1. ServesWholeSchema
    BY DEF StartupInv, MigrationInv, ServesWholeSchema
  <2>2. ASSUME NEW x \in Items
        PROVE  LET filling == {s \in Seeders : seeder[s] = [pc |-> "fill", item |-> x]}
               IN /\ Cardinality(filling) <= 1
                  /\ x \in present /\ parts[x] # Parts[x] => filling # {} \/ x \in broken
    <3> DEFINE filling == {s \in Seeders : seeder[s] = [pc |-> "fill", item |-> x]}
    <3>1. \A s, t \in filling : s = t
      BY DEF StartupInv, SeedingInv
    <3>2. filling = {} \/ \E s : filling = {s}
      <4>1. CASE filling # {}
        <5>1. PICK s : s \in filling
          BY <4>1
        <5>2. filling = {s}
          BY <3>1, <5>1
        <5> QED BY <5>2
      <4> QED BY <4>1
    <3>3. Cardinality(filling) <= 1
      <4> HIDE DEF filling
      <4>1. Cardinality(filling) = 0 \/ Cardinality(filling) = 1
        BY <3>2, FS_EmptySet, FS_Singleton
      <4> QED BY <4>1
    <3>4. x \in present /\ parts[x] # Parts[x] => filling # {} \/ x \in broken
      BY DEF StartupInv, SeedingInv, Filling
    <3> QED BY <3>3, <3>4
  <2>3. SeededOnce
    BY <2>2 DEF SeededOnce
  <2> QED BY <2>1, <2>3 DEF StartupIsSound
<1> QED BY <1>1, StartupInvHolds, PTL

(* What "executes and is recorded inside a single transaction" comes to:   *)
(* a file in whose text PRAGMA does not occur, comments included, is never *)
(* left half run or run without a record.                                  *)
THEOREM FilesWithoutTheWordAreAtomic ==
    StartupSpec => [](\A f \in Files \ MentionsPragma :
                        applied[f] > 0 => f \in recorded /\ applied[f] = Statements[f])
<1>1. StartupInv => \A f \in Files \ MentionsPragma :
                      applied[f] > 0 => f \in recorded /\ applied[f] = Statements[f]
  BY DEF StartupInv, MigrationInv, RunInTx
<1> QED BY <1>1, StartupInvHolds, PTL

-----------------------------------------------------------------------------
(* FieldEdits.                                                             *)

(* A request's copy of the fields it has yet to write is the row until     *)
(* another edit writes, and of the fields nobody can edit even then; the   *)
(* statement it is at has a key of its half.                               *)
EditKnows(q, fd, k) ==
    q.next # "none" =>
      /\ q.keys \subseteq Editable(k)
      /\ ~q.overtaken =>
           \A f \in Written(k) \ {"fixed"} : (f \in Payload => q.next = "payload") => q.copy[f] = fd[f]
      /\ "fixed" \in Written(k) => q.copy["fixed"] = fd["fixed"]
      /\ q.next = "payload" => k = "asset" /\ q.keys \cap Payload # {}
      /\ k = "asset" /\ q.next = "row" => ~(q.keys \subseteq Payload)

FieldsInv == FieldsTypeOK /\ \A r \in EditRequests : EditKnows(edit[r], field, edited)

LEMMA FixedStandsApart ==
    /\ "fixed" \notin Payload
    /\ \A k : "fixed" \notin Editable(k)
    /\ \A k : Written(k) \subseteq Fields /\ Editable(k) \subseteq Fields
BY PayloadAssumption DEF Editable, Written, Fields

LEMMA EditIdleKnows ==
    /\ EditIdle \in EditRequestType
    /\ \A fd, k : EditKnows(EditIdle, fd, k)
BY DEF EditIdle, EditRequestType, EditKnows, Fields

(* A request that starts.                                                  *)
LEMMA EditStartKeepsInv ==
    ASSUME FieldsInv, NEW r \in EditRequests, NEW keys \in SUBSET Editable(edited),
           NEW content \in Contents, NEW next \in {"payload", "row"},
           next = "payload" => edited = "asset" /\ keys \cap Payload # {},
           edited = "asset" /\ next = "row" => ~(keys \subseteq Payload),
           EditStart(r, keys, content, next)
    PROVE  FieldsInv'
<1> DEFINE read == [f \in Fields |-> IF f \in Written(edited) THEN field[f] ELSE NoText]
           q == [next |-> next, keys |-> keys, content |-> content, overtaken |-> FALSE, copy |-> read]
<1>1. /\ edit \in [EditRequests -> EditRequestType] /\ field \in [Fields -> Contents \cup {NoText}]
      /\ edit' = [edit EXCEPT ![r] = q] /\ UNCHANGED <<edited, field, frozen>>
  BY DEF EditStart, FieldsInv, FieldsTypeOK
<1>2. read \in [Fields -> Contents \cup {NoText}] /\ \A f \in Written(edited) : read[f] = field[f]
  BY <1>1, FixedStandsApart
<1> HIDE DEF read
<1>3. q \in EditRequestType
  BY <1>2, FixedStandsApart DEF EditRequestType
<1>4. EditKnows(q, field, edited)
  BY <1>2 DEF EditKnows
<1> HIDE DEF q
<1>5. \A s \in EditRequests : EditKnows(edit'[s], field', edited')
  BY <1>1, <1>4 DEF FieldsInv
<1>6. edit' \in [EditRequests -> EditRequestType]
  BY <1>1, <1>3
<1> QED BY <1>1, <1>5, <1>6 DEF FieldsInv, FieldsTypeOK

(* A statement of r that writes columns fs.                                *)
LEMMA WriteFieldsKeepsInv ==
    ASSUME FieldsInv, NEW r \in EditRequests, NEW fs \in SUBSET Fields, NEW next \in {"none", "row"},
           edit[r].next # "none", fs \subseteq Written(edited),
           next = "row" => fs \subseteq Payload /\ edited = "asset" /\ ~(edit[r].keys \subseteq Payload),
           WriteFields(r, fs, next)
    PROVE  FieldsInv'
<1>1. /\ edit \in [EditRequests -> EditRequestType] /\ field \in [Fields -> Contents \cup {NoText}]
      /\ UNCHANGED <<edited, frozen>> /\ field' = Merged(r, fs)
  BY DEF WriteFields, FieldsInv, FieldsTypeOK
<1>2. EditKnows(edit[r], field, edited) /\ edit[r] \in EditRequestType
  BY <1>1 DEF FieldsInv
<1>3. field' \in [Fields -> Contents \cup {NoText}]
  BY <1>1, <1>2 DEF Merged, EditRequestType
<1>4. field'["fixed"] = field["fixed"] /\ \A f \in Fields \ fs : field'[f] = field[f]
  <2>1. "fixed" \in Fields
    BY DEF Fields
  <2>2. "fixed" \notin edit[r].keys
    BY <1>2, FixedStandsApart DEF EditKnows
  <2>3. "fixed" \in fs => edit[r].copy["fixed"] = field["fixed"]
    BY <1>2 DEF EditKnows
  <2> QED BY <1>1, <2>1, <2>2, <2>3 DEF Merged
<1>5. ASSUME NEW s \in EditRequests
      PROVE  edit'[s] \in EditRequestType /\ EditKnows(edit'[s], field', edited)
  <2>1. edit[s] \in EditRequestType /\ EditKnows(edit[s], field, edited)
    BY <1>1 DEF FieldsInv
  <2>2. CASE s # r
    <3> DEFINE q == [edit[s] EXCEPT !.overtaken = edit[s].next # "none"]
    <3>1. edit'[s] = q
      BY <2>2 DEF WriteFields
    <3>2. (edit[s].next # "none") \in BOOLEAN
      OBVIOUS
    <3>3. /\ q \in EditRequestType /\ q.next = edit[s].next /\ q.keys = edit[s].keys
          /\ q.copy = edit[s].copy /\ (q.next # "none" => q.overtaken)
      BY <2>1, <3>2 DEF EditRequestType
    <3> HIDE DEF q
    <3>4. EditKnows(q, field', edited)
      BY <2>1, <3>3, <1>4 DEF EditKnows
    <3> QED BY <3>1, <3>3, <3>4
  <2>3. CASE s = r /\ next = "none"
    BY <2>3, EditIdleKnows DEF WriteFields
  <2>4. CASE s = r /\ next = "row"
    <3> DEFINE q == [edit[r] EXCEPT !.next = next]
    <3>1. edit'[s] = q
      BY <2>4 DEF WriteFields
    <3>2. /\ q \in EditRequestType /\ q.next = "row" /\ q.keys = edit[r].keys
          /\ q.copy = edit[r].copy /\ q.overtaken = edit[r].overtaken
      BY <1>2, <2>4 DEF EditRequestType
    <3> HIDE DEF q
    <3>3. \A f \in Written(edited) \ Payload : field'[f] = field[f]
      BY <2>4, <1>4, FixedStandsApart
    <3>4. EditKnows(q, field', edited)
      BY <1>2, <1>4, <2>4, <3>2, <3>3 DEF EditKnows
    <3> QED BY <2>4, <3>1, <3>2, <3>4
  <2> QED BY <2>2, <2>3, <2>4
<1>6. edit' \in [EditRequests -> EditRequestType]
  <2>1. edit' = [q \in EditRequests |-> edit'[q]]
    BY DEF WriteFields
  <2> QED BY <1>5, <2>1
<1> QED BY <1>1, <1>3, <1>5, <1>6 DEF FieldsInv, FieldsTypeOK

(* What each of the writes writes.                                         *)
LEMMA FieldWritesWrite ==
    ASSUME FieldsInv, NEW r \in EditRequests, FieldWrites(r)
    PROVE  \E fs \in SUBSET Written(edited), next \in {"none", "row"} :
             /\ WriteFields(r, fs, next)
             /\ edit[r].next # "none"
             /\ next = "row" => fs \subseteq Payload /\ edited = "asset" /\ ~(edit[r].keys \subseteq Payload)
             /\ \A f \in fs : f \in Payload => edit[r].next = "payload"
             /\ edited = "asset" => \A f \in fs \ {"fixed"} : Half(f) \cap edit[r].keys # {}
<1>0. EditKnows(edit[r], field, edited) /\ edit[r] \in EditRequestType
  BY DEF FieldsInv, FieldsTypeOK
<1>1. CASE UpdateAssetPayload(r)
  <2>1. edit[r].next = "payload" /\ WriteFields(r, Payload, AfterPayload(r))
    BY <1>1 DEF UpdateAssetPayload
  <2>2. AfterPayload(r) \in {"none", "row"}
        /\ (AfterPayload(r) = "row" => ~(edit[r].keys \subseteq Payload))
    BY DEF AfterPayload
  <2>3. edited = "asset" /\ edit[r].keys \cap Payload # {} /\ Payload \subseteq Written(edited)
    BY <1>0, <2>1 DEF EditKnows, Written
  <2>4. \A f \in Payload : Half(f) \cap edit[r].keys # {}
    BY <2>3 DEF Half
  <2> QED BY <2>1, <2>2, <2>3, <2>4
<1>2. CASE UpdateAssetEditableColumns(r)
  <2>1. /\ edited = "asset" /\ edit[r].next = "row"
        /\ WriteFields(r, Written(edited) \ Payload, "none")
    BY <1>2 DEF UpdateAssetEditableColumns
  <2>2. \A f \in Written(edited) \ Payload : Half(f) \cap edit[r].keys # {}
    BY <1>0, <2>1, FixedStandsApart DEF EditKnows, Half
  <2> QED BY <2>1, <2>2
<1>3. CASE UpdateIdentity(r) \/ UpdateConfigurationGroup(r) \/ UpdatePolicyModule(r) \/ UpdateDraftColumns(r)
  <2>1. edited # "asset" /\ edit[r].next = "row" /\ WriteFields(r, Written(edited), "none")
    BY <1>3 DEF UpdateIdentity, UpdateConfigurationGroup, UpdatePolicyModule, UpdateDraftColumns
  <2>2. \A f \in Written(edited) : f \notin Payload
    BY <2>1, PayloadAssumption DEF Written
  <2> QED BY <2>1, <2>2
<1> QED BY <1>1, <1>2, <1>3 DEF FieldWrites

LEMMA FieldsNextKeepsInv == FieldsInv /\ [FieldsNext]_fieldVars => FieldsInv'
<1> SUFFICES ASSUME FieldsInv, [FieldsNext]_fieldVars PROVE FieldsInv'
  OBVIOUS
<1>1. ASSUME NEW r \in EditRequests, NEW keys \in SUBSET Editable(edited), NEW content \in Contents,
             FieldUpdates(r, keys, content)
      PROVE  FieldsInv'
  <2>1. CASE AssetFieldUpdate(r, keys, content)
    <3> DEFINE next == IF keys \cap Payload # {} THEN "payload" ELSE "row"
    <3>1. edited = "asset" /\ keys # {} /\ EditStart(r, keys, content, next)
      BY <2>1 DEF AssetFieldUpdate
    <3>2. /\ next \in {"payload", "row"}
          /\ next = "payload" => keys \cap Payload # {}
          /\ next = "row" => ~(keys \subseteq Payload)
      BY <3>1
    <3> HIDE DEF next
    <3> QED BY <3>1, <3>2, EditStartKeepsInv
  <2>2. CASE ~AssetFieldUpdate(r, keys, content)
    <3>1. edited # "asset" /\ EditStart(r, keys, content, "row")
      BY <1>1, <2>2 DEF FieldUpdates, UserFieldUpdate, ConfigGroupFieldUpdate, PolicyModuleFieldUpdate,
           PolicyModuleVersionFieldUpdate
    <3> QED BY <3>1, EditStartKeepsInv
  <2> QED BY <2>1, <2>2
<1>2. ASSUME NEW r \in EditRequests, FieldWrites(r) PROVE FieldsInv'
  <2>1. \A k : Written(k) \subseteq Fields
    BY FixedStandsApart
  <2> QED BY <1>2, <2>1, FieldWritesWrite, WriteFieldsKeepsInv
<1>3. ASSUME NEW r \in EditRequests, EditFail(r) PROVE FieldsInv'
  <2>1. edit' = [edit EXCEPT ![r] = EditIdle] /\ UNCHANGED <<edited, field, frozen>>
    BY <1>3 DEF EditFail
  <2> QED BY <2>1, EditIdleKnows DEF FieldsInv, FieldsTypeOK
<1>4. ASSUME NEW content \in Contents, SetFixed(content) PROVE FieldsInv'
  <2>1. /\ edited \in {"asset", "identity"} /\ field' = [field EXCEPT !["fixed"] = content]
        /\ UNCHANGED <<edited, frozen, edit>>
    BY <1>4 DEF SetFixed
  <2>2. field \in [Fields -> Contents \cup {NoText}]
    BY DEF FieldsInv, FieldsTypeOK
  <2>3. field' \in [Fields -> Contents \cup {NoText}] /\ \A f \in Fields \ {"fixed"} : field'[f] = field[f]
    BY <2>1, <2>2
  <2>4. "fixed" \notin Written(edited) /\ Written(edited) \subseteq Fields
    BY <2>1, FixedStandsApart DEF Written
  <2>5. \A r \in EditRequests : EditKnows(edit[r], field', edited)
    BY <2>3, <2>4 DEF EditKnows, FieldsInv
  <2> QED BY <2>1, <2>3, <2>5 DEF FieldsInv, FieldsTypeOK
<1>5. CASE FreezeVersion
  BY <1>5 DEF FreezeVersion, FieldsInv, FieldsTypeOK
<1>6. CASE UNCHANGED fieldVars
  BY <1>6 DEF fieldVars, FieldsInv, FieldsTypeOK
<1> QED BY <1>1, <1>2, <1>3, <1>4, <1>5, <1>6 DEF FieldsNext

LEMMA FieldsInvHolds == FieldsSpec => []FieldsInv
<1>1. FieldsInit => FieldsInv
  <2> SUFFICES ASSUME FieldsInit PROVE FieldsInv
    OBVIOUS
  <2>1. \A r \in EditRequests : edit[r] = EditIdle
    BY DEF FieldsInit
  <2>2. FieldsTypeOK
    BY EditIdleKnows DEF FieldsInit, FieldsTypeOK
  <2> QED BY <2>1, <2>2, EditIdleKnows DEF FieldsInv
<1> QED BY <1>1, FieldsNextKeepsInv, PTL DEF FieldsSpec

(* For any row, any payload keys and any number of edits in flight, an     *)
(* edit changes what it was sent, and puts back an older content only of   *)
(* the half it was sent a field of, when another edit has written.         *)
THEOREM EditsKeepTheOtherFields == FieldsSpec => EditsKeepTheRest
<1> DEFINE Keeps(r, f) ==
      FieldWrites(r) /\ field'[f] # field[f] =>
        \/ f \in edit[r].keys /\ field'[f] = edit[r].content
        \/ edit[r].overtaken /\ f # "fixed" /\ field'[f] = edit[r].copy[f]
             /\ (edited = "asset" => Half(f) \cap edit[r].keys # {})
<1>1. ASSUME FieldsInv, NEW r \in EditRequests, NEW f \in Fields PROVE Keeps(r, f)
  <2> SUFFICES ASSUME FieldWrites(r), field'[f] # field[f]
               PROVE  \/ f \in edit[r].keys /\ field'[f] = edit[r].content
                      \/ edit[r].overtaken /\ f # "fixed" /\ field'[f] = edit[r].copy[f]
                           /\ (edited = "asset" => Half(f) \cap edit[r].keys # {})
    OBVIOUS
  <2>1. PICK fs \in SUBSET Written(edited), next \in {"none", "row"} :
             /\ WriteFields(r, fs, next)
             /\ edit[r].next # "none"
             /\ next = "row" => fs \subseteq Payload /\ edited = "asset" /\ ~(edit[r].keys \subseteq Payload)
             /\ \A g \in fs : g \in Payload => edit[r].next = "payload"
             /\ edited = "asset" => \A g \in fs \ {"fixed"} : Half(g) \cap edit[r].keys # {}
    BY <1>1, FieldWritesWrite
  <2>2. field' = Merged(r, fs)
    BY <2>1 DEF WriteFields
  <2>3. f \in fs /\ field'[f] = IF f \in edit[r].keys THEN edit[r].content ELSE edit[r].copy[f]
    BY <2>2 DEF Merged
  <2>4. EditKnows(edit[r], field, edited)
    BY <1>1 DEF FieldsInv
  <2>5. CASE f \in edit[r].keys
    BY <2>3, <2>5
  <2>6. CASE f \notin edit[r].keys
    <3>1. f # "fixed"
      BY <2>1, <2>3, <2>4, <2>6 DEF EditKnows
    <3>2. edit[r].overtaken
      BY <2>1, <2>3, <2>4, <2>6, <3>1 DEF EditKnows
    <3> QED BY <2>1, <2>3, <2>6, <3>1, <3>2
  <2> QED BY <2>5, <2>6
<1>2. FieldsInv => [\A r \in EditRequests, f \in Fields : Keeps(r, f)]_fieldVars
  BY <1>1
<1> QED BY <1>2, FieldsInvHolds, PTL DEF EditsKeepTheRest

(* What an edit reports ("the param keys actually applied", field_api.go): *)
(* UserFieldUpdate also reports a user principal name, which no column of  *)
(* UpdateIdentity takes.  That is the only such key of the five editors.   *)
AppliedSoFar ==
    \A r \in EditRequests :
      edited = "asset" /\ edit[r].next = "row" /\ ~edit[r].overtaken =>
        \A f \in edit[r].keys \cap Payload : field[f] = edit[r].content

LEMMA StepKeepsApplied ==
    FieldsInv /\ AppliedSoFar /\ [FieldsNext]_fieldVars => AppliedSoFar'
<1> SUFFICES ASSUME FieldsInv, AppliedSoFar, [FieldsNext]_fieldVars,
                    NEW r \in EditRequests, edited' = "asset", edit'[r].next = "row",
                    ~edit'[r].overtaken, NEW f \in edit'[r].keys \cap Payload
             PROVE  field'[f] = edit'[r].content
  BY DEF AppliedSoFar
<1>0. /\ edit \in [EditRequests -> EditRequestType]
      /\ field \in [Fields -> Contents \cup {NoText}]
      /\ f \in Fields /\ f # "fixed" /\ EditIdle.next = "none"
  BY FixedStandsApart DEF FieldsInv, FieldsTypeOK, Fields, EditIdle
<1>1. ASSUME NEW q \in EditRequests, NEW keys, NEW content, FieldUpdates(q, keys, content)
      PROVE  field'[f] = edit'[r].content
  <2>1. edited = "asset" /\ field' = field
    BY <1>1 DEF FieldUpdates, AssetFieldUpdate, UserFieldUpdate, ConfigGroupFieldUpdate,
                PolicyModuleFieldUpdate, PolicyModuleVersionFieldUpdate, EditStart
  <2>2. EditStart(q, keys, content, IF keys \cap Payload # {} THEN "payload" ELSE "row")
    BY <1>1, <2>1 DEF FieldUpdates, AssetFieldUpdate, UserFieldUpdate, ConfigGroupFieldUpdate,
                      PolicyModuleFieldUpdate, PolicyModuleVersionFieldUpdate
  <2>3. q # r
    BY <1>0, <2>2 DEF EditStart
  <2>4. edit'[r] = edit[r]
    BY <1>0, <2>2, <2>3 DEF EditStart
  <2> QED BY <2>1, <2>4 DEF AppliedSoFar
<1>2. ASSUME NEW q \in EditRequests, FieldWrites(q)
      PROVE  field'[f] = edit'[r].content
  <2>1. PICK fs, next : WriteFields(q, fs, next)
    BY <1>2, FieldWritesWrite
  <2>2. q = r
    BY <1>0, <2>1 DEF WriteFields, EditRequestType
  <2>3. UpdateAssetPayload(r)
    BY <1>0, <1>2, <2>2
       DEF FieldWrites, WriteFields, UpdateAssetEditableColumns, UpdateIdentity,
           UpdateConfigurationGroup, UpdatePolicyModule, UpdateDraftColumns
  <2>4. /\ field' = Merged(r, Payload)
        /\ edit'[r].keys = edit[r].keys /\ edit'[r].content = edit[r].content
    BY <1>0, <2>3 DEF UpdateAssetPayload, WriteFields, EditRequestType
  <2> QED BY <1>0, <2>4 DEF Merged
<1>3. ASSUME NEW q \in EditRequests, EditFail(q) PROVE field'[f] = edit'[r].content
  <2>1. edit'[r] = edit[r] /\ UNCHANGED <<edited, field>>
    BY <1>0, <1>3 DEF EditFail
  <2> QED BY <2>1 DEF AppliedSoFar
<1>4. ASSUME NEW content \in Contents, SetFixed(content) PROVE field'[f] = edit'[r].content
  <2>1. field'[f] = field[f] /\ UNCHANGED <<edited, edit>>
    BY <1>0, <1>4 DEF SetFixed
  <2> QED BY <2>1 DEF AppliedSoFar
<1>5. CASE FreezeVersion \/ UNCHANGED fieldVars
  BY <1>5 DEF FreezeVersion, fieldVars, AppliedSoFar
<1> QED BY <1>1, <1>2, <1>3, <1>4, <1>5 DEF FieldsNext

(* For any row, an edit that nothing overtakes has written every key it    *)
(* reports when it is done, the user principal name alone excepted.        *)
THEOREM OnlyTheNameIsMisreported ==
    FieldsSpec =>
      [][\A r \in EditRequests :
           FieldWrites(r) /\ edit'[r].next = "none" /\ ~edit[r].overtaken =>
             \A f \in edit[r].keys \ {"upn"} : field'[f] = edit[r].content
        ]_fieldVars
<1> DEFINE Reported(r) ==
      FieldWrites(r) /\ edit'[r].next = "none" /\ ~edit[r].overtaken =>
        \A f \in edit[r].keys \ {"upn"} : field'[f] = edit[r].content
<1>1. ASSUME FieldsInv, AppliedSoFar, NEW r \in EditRequests PROVE Reported(r)
  <2> SUFFICES ASSUME FieldWrites(r), edit'[r].next = "none", ~edit[r].overtaken,
                      NEW f \in edit[r].keys \ {"upn"}
               PROVE  field'[f] = edit[r].content
    OBVIOUS
  <2>1. EditKnows(edit[r], field, edited) /\ edit \in [EditRequests -> EditRequestType]
    BY <1>1 DEF FieldsInv, FieldsTypeOK
  <2>2. edit[r].next # "none"
    BY <1>1, FieldWritesWrite
  <2>3. f \in Editable(edited) /\ f \in Written(edited) /\ f \in Fields
    BY <2>1, <2>2, FixedStandsApart DEF EditKnows, Editable, Written
  <2>4. CASE UpdateAssetPayload(r)
    <3>1. field' = Merged(r, Payload)
      BY <2>4 DEF UpdateAssetPayload, WriteFields
    <3>2. AfterPayload(r) = "none"
      BY <2>1, <2>4 DEF UpdateAssetPayload, WriteFields, EditRequestType
    <3>3. f \in Payload
      BY <3>2 DEF AfterPayload
    <3> QED BY <2>3, <3>1, <3>3 DEF Merged
  <2>5. CASE UpdateAssetEditableColumns(r)
    <3>1. /\ edited = "asset" /\ edit[r].next = "row"
          /\ field' = Merged(r, Written("asset") \ Payload)
      BY <2>5 DEF UpdateAssetEditableColumns, WriteFields
    <3>2. f \in Payload => field[f] = edit[r].content
      BY <1>1, <3>1 DEF AppliedSoFar
    <3> QED BY <2>3, <3>1, <3>2 DEF Merged
  <2>6. CASE UpdateIdentity(r) \/ UpdateConfigurationGroup(r) \/ UpdatePolicyModule(r)
             \/ UpdateDraftColumns(r)
    <3>1. field' = Merged(r, Written(edited))
      BY <2>6 DEF UpdateIdentity, UpdateConfigurationGroup, UpdatePolicyModule,
                  UpdateDraftColumns, WriteFields
    <3> QED BY <2>3, <3>1 DEF Merged
  <2> QED BY <2>4, <2>5, <2>6 DEF FieldWrites
<1>2. FieldsInv /\ AppliedSoFar => [\A r \in EditRequests : Reported(r)]_fieldVars
  BY <1>1
<1>3. FieldsInit => AppliedSoFar
  BY DEF FieldsInit, AppliedSoFar, EditIdle
<1> QED BY <1>2, <1>3, StepKeepsApplied, FieldsInvHolds, PTL DEF FieldsSpec

-----------------------------------------------------------------------------
(* DependencyEval.                                                         *)

LEMMA EvalTypeCorrect == EvalSpec => []EvalTypeOK
<1>1. EvalInit => EvalTypeOK
  BY DEF EvalInit, EvalTypeOK, NoLinks
<1>2. EvalTypeOK /\ [EvalNext]_evalVars => EvalTypeOK'
  <2> SUFFICES ASSUME EvalTypeOK, [EvalNext]_evalVars PROVE EvalTypeOK'
    OBVIOUS
  <2>1. ASSUME NEW P \in {{}} \cup {{g, h} : g, h \in DepGroups}, NEW R \in {{}} \cup {{g} : g \in DepGroups},
               Configure(P, R)
        PROVE  EvalTypeOK'
    <3>1. P \subseteq DepGroups /\ R \subseteq DepGroups
      OBVIOUS
    <3> QED BY <2>1, <3>1 DEF Configure, EvalTypeOK
  <2>2. ASSUME NEW k \in FactKeys, NEW v \in FactValues, Report(k, v) PROVE EvalTypeOK'
    BY <2>2 DEF Report, EvalTypeOK
  <2>3. CASE UNCHANGED evalVars
    BY <2>3 DEF evalVars, EvalTypeOK
  <2> QED BY <2>1, <2>2, <2>3 DEF EvalNext
<1> QED BY <1>1, <1>2, PTL DEF EvalSpec

(* There are three verdicts.                                               *)
LEMMA ThreeVerdicts ==
    /\ \A c : EvalCondition(c) \in {"pass", "fail", "unknown"}
    /\ \A g : EvalDepGroup(g) \in {"pass", "fail", "unknown"}
BY DEF EvalCondition, EvalOperator, Verdict, EvalDepGroup, EvalGroupAll, EvalGroupAny

-----------------------------------------------------------------------------
(* Every state: where nothing is unknown, the evaluation is classical.     *)

LEMMA GroupClassical ==
    ASSUME NEW g, \A c \in g.conditions : EvalCondition(c) # "unknown"
    PROVE  EvalDepGroup(g) = Verdict(IF g.match = "any" THEN \E c \in g.conditions : EvalCondition(c) = "pass"
                                     ELSE \A c \in g.conditions : EvalCondition(c) = "pass")
<1>1. \A c \in g.conditions : EvalCondition(c) \in {"pass", "fail"}
  BY ThreeVerdicts
<1>2. "unknown" \notin Verdicts(g)
  BY DEF Verdicts
<1>3. "pass" \in Verdicts(g) <=> \E c \in g.conditions : EvalCondition(c) = "pass"
  BY DEF Verdicts
<1>4. "fail" \in Verdicts(g) <=> ~ \A c \in g.conditions : EvalCondition(c) = "pass"
  BY <1>1 DEF Verdicts
<1> QED BY <1>2, <1>3, <1>4 DEF EvalDepGroup, EvalGroupAll, EvalGroupAny, Verdict

LEMMA AlwaysClassical == ClassicalWhenReported
<1> DEFINE Cs == UNION {g.conditions : g \in links.platform \cup links.requirement}
           holding(g) == IF g.match = "any" THEN \E c \in g.conditions : EvalCondition(c) = "pass"
                       ELSE \A c \in g.conditions : EvalCondition(c) = "pass"
           met == /\ \/ links.platform = {}
                     \/ \E g \in links.platform : holding(g)
                  /\ \A g \in links.requirement : holding(g)
<1>1. ASSUME \A c \in Cs : EvalCondition(c) # "unknown"
      PROVE  Eligible = IF met THEN "eligible" ELSE "ineligible"
  <2>1. \A g \in links.platform \cup links.requirement : EvalDepGroup(g) = IF holding(g) THEN "pass" ELSE "fail"
    BY <1>1, GroupClassical DEF Verdict
  <2> HIDE DEF holding
  <2>2. PlatformOK = IF links.platform = {} \/ \E g \in links.platform : holding(g) THEN "pass" ELSE "fail"
    BY <2>1 DEF PlatformOK
  <2>3. RequirementOK = IF \A g \in links.requirement : holding(g) THEN "pass" ELSE "fail"
    BY <2>1 DEF RequirementOK
  <2> QED BY <2>2, <2>3 DEF Eligible
<1> QED BY <1>1 DEF ClassicalWhenReported

-----------------------------------------------------------------------------
(* Every step: what is decided stays, from the conditions upwards.         *)

LEMMA ConditionStays ==
    ASSUME EvalTypeOK, NEW k \in FactKeys, NEW v \in FactValues, Report(k, v),
           NEW c \in Conditions, EvalCondition(c) # "unknown"
    PROVE  EvalCondition(c)' = EvalCondition(c)
<1>1. facts[FactKey[c]] # "absent" /\ FactKey[c] \in FactKeys
  BY DEF EvalCondition, FactKeys
<1>2. facts'[FactKey[c]] = facts[FactKey[c]]
  BY <1>1 DEF Report, EvalTypeOK
<1> QED BY <1>2 DEF EvalCondition, EvalOperator

LEMMA GroupStays ==
    ASSUME EvalTypeOK, NEW k \in FactKeys, NEW v \in FactValues, Report(k, v),
           NEW g \in DepGroups, EvalDepGroup(g) # "unknown"
    PROVE  EvalDepGroup(g)' = EvalDepGroup(g)
<1>1. \A c \in g.conditions : EvalCondition(c) # "unknown" => EvalCondition(c)' = EvalCondition(c)
  BY ConditionStays DEF DepGroups
<1>2. \A x : x # "unknown" /\ x \in Verdicts(g) => x \in Verdicts(g)'
  BY <1>1 DEF Verdicts
<1>3. "unknown" \notin Verdicts(g) => Verdicts(g)' = Verdicts(g)
  BY <1>1 DEF Verdicts
<1> QED BY <1>2, <1>3 DEF EvalDepGroup, EvalGroupAll, EvalGroupAny

LEMMA EligibleStays ==
    ASSUME EvalTypeOK, NEW k \in FactKeys, NEW v \in FactValues, Report(k, v),
           Eligible # "unknown"
    PROVE  Eligible' = Eligible
<1>1. links' = links /\ links.platform \subseteq DepGroups /\ links.requirement \subseteq DepGroups
  BY DEF Report, EvalTypeOK
<1>2. \A g \in links.platform \cup links.requirement :
        EvalDepGroup(g) # "unknown" => EvalDepGroup(g)' = EvalDepGroup(g)
  BY <1>1, GroupStays
<1>3. PlatformOK # "unknown" => PlatformOK' = PlatformOK
  <2> DEFINE vs == {EvalDepGroup(g) : g \in links.platform}
  <2>1. \A x : x # "unknown" /\ x \in vs => x \in vs'
    BY <1>1, <1>2
  <2>2. "unknown" \notin vs => vs' = vs
    BY <1>1, <1>2
  <2>3. vs = {} => vs' = {}
    BY <2>2
  <2>4. /\ PlatformOK = IF vs = {} \/ "pass" \in vs THEN "pass"
                        ELSE IF "unknown" \in vs THEN "unknown" ELSE "fail"
        /\ PlatformOK' = IF vs' = {} \/ "pass" \in vs' THEN "pass"
                         ELSE IF "unknown" \in vs' THEN "unknown" ELSE "fail"
    BY DEF PlatformOK
  <2> HIDE DEF vs
  <2> QED BY <2>1, <2>2, <2>3, <2>4
<1>4. RequirementOK # "unknown" => RequirementOK' = RequirementOK
  <2> DEFINE vs == {EvalDepGroup(g) : g \in links.requirement}
  <2>1. \A x : x # "unknown" /\ x \in vs => x \in vs'
    BY <1>1, <1>2
  <2>2. "unknown" \notin vs => vs' = vs
    BY <1>1, <1>2
  <2>3. /\ RequirementOK = IF "fail" \in vs THEN "fail"
                           ELSE IF "unknown" \in vs THEN "unknown" ELSE "pass"
        /\ RequirementOK' = IF "fail" \in vs' THEN "fail"
                            ELSE IF "unknown" \in vs' THEN "unknown" ELSE "pass"
    BY DEF RequirementOK
  <2> HIDE DEF vs
  <2> QED BY <2>1, <2>2, <2>3
<1>5. PlatformOK \in {"pass", "fail", "unknown"} /\ RequirementOK \in {"pass", "fail", "unknown"}
  BY DEF PlatformOK, RequirementOK
<1>6. CASE "fail" \in {PlatformOK, RequirementOK}
  BY <1>3, <1>4, <1>6 DEF Eligible
<1>7. CASE {PlatformOK, RequirementOK} = {"pass"}
  <2>1. PlatformOK = "pass" /\ RequirementOK = "pass"
    BY <1>7
  <2> QED BY <1>3, <1>4, <2>1 DEF Eligible
<1> QED BY <1>6, <1>7 DEF Eligible

(* For any conditions, operators and links: the evaluation of a module's   *)
(* dependency groups is classical where every condition can be told, and   *)
(* no fact that a device reports later overturns what has been decided.    *)
THEOREM EvaluationSound == EvalSpec => EvaluationIsSound
<1>1. EvalTypeOK /\ [EvalNext]_evalVars =>
        [links' = links /\ Eligible # "unknown" => Eligible' = Eligible]_evalVars
  <2> SUFFICES ASSUME EvalTypeOK, [EvalNext]_evalVars, links' = links, Eligible # "unknown",
                      evalVars' # evalVars
               PROVE  Eligible' = Eligible
    OBVIOUS
  <2>1. ASSUME NEW P, NEW R, Configure(P, R) PROVE FALSE
    BY <2>1 DEF Configure, evalVars
  <2>2. PICK k \in FactKeys, v \in FactValues : Report(k, v)
    BY <2>1 DEF EvalNext
  <2> QED BY <2>2, EligibleStays
<1> QED BY <1>1, AlwaysClassical, EvalTypeCorrect, PTL DEF EvalSpec, EvaluationIsSound, DecidedStaysDecided

(* The schema, the items and the seeders stay in their types.              *)
LEMMA StartupTypeCorrect == StartupSpec => []StartupTypeOK
<1>1. StartupInv => StartupTypeOK
  BY LastFileAssumption DEF StartupInv, MigrationInv, SeedingInv, StartupTypeOK, SeederType
<1> QED BY <1>1, StartupInvHolds, PTL

LEMMA FieldsTypeCorrect == FieldsSpec => []FieldsTypeOK
BY FieldsInvHolds, PTL DEF FieldsInv

-----------------------------------------------------------------------------
(* The components side by side.                                            *)

(* Nothing in the composition gives a component a step it has not got      *)
(* alone: each moves in its scene, within the run's bounds, and stays as   *)
(* it is in the others.  So every theorem about a component is one about   *)
(* what the run console checks.                                            *)
THEOREM ConsoleIsItsComponents ==
    ConsoleSpec =>
      /\ MembershipSpec /\ RoleCacheSpec /\ LoginsSpec /\ StartupSpec
      /\ ConfigSpec /\ EvalSpec /\ AccessSpec /\ ResolverSpec /\ FieldsSpec
<1>1. ConsoleInit => MembershipInit /\ RoleCacheInit /\ LoginsInit /\
      StartupInit /\ ConfigInit /\ EvalInit /\ AccessInit /\ ResolverInit /\ FieldsInit
  BY DEF ConsoleInit
<1>2. [ConsoleNext]_consoleVars => [MembershipNext]_groupVars
  BY DEF ConsoleNext, consoleVars
<1>3. [ConsoleNext]_consoleVars => [RoleCacheNext]_cacheVars
  BY DEF ConsoleNext, consoleVars
<1>4. [ConsoleNext]_consoleVars => [LoginsNext]_loginVars
  BY DEF ConsoleNext, consoleVars
<1>5. [ConsoleNext]_consoleVars => [StartupNext]_startVars
  BY DEF ConsoleNext, consoleVars
<1>6. [ConsoleNext]_consoleVars => [ConfigNext]_configVars
  BY DEF ConsoleNext, consoleVars
<1>7. [ConsoleNext]_consoleVars => [EvalNext]_evalVars
  BY DEF ConsoleNext, consoleVars
<1>8. [ConsoleNext]_consoleVars => [AccessNext]_question
  BY DEF ConsoleNext, consoleVars
<1>9. [ConsoleNext]_consoleVars => [ResolverNext]_resolverVars
  BY DEF ConsoleNext, consoleVars
<1>10. [ConsoleNext]_consoleVars => [FieldsNext]_fieldVars
  BY DEF ConsoleNext, consoleVars
<1> QED BY <1>1, <1>2, <1>3, <1>4, <1>5, <1>6, <1>7, <1>8, <1>9, <1>10,
      PTL DEF ConsoleSpec, MembershipSpec, RoleCacheSpec, LoginsSpec,
      StartupSpec, ConfigSpec, EvalSpec, AccessSpec, ResolverSpec, FieldsSpec

(* Every variable of the console's components stays in its type.           *)
THEOREM ConsoleTypeCorrect == ConsoleSpec => []ConsoleTypeOK
<1>1. ConsoleInit => scene \in Scenes
  BY DEF ConsoleInit
<1>2. scene \in Scenes /\ [ConsoleNext]_consoleVars => (scene \in Scenes)'
  BY DEF ConsoleNext, consoleVars
<1> QED BY <1>1, <1>2, MembershipTypeCorrect, CacheTypeCorrect,
      LoginsTypeCorrect, StartupTypeCorrect, ConfigTypeCorrect, EvalTypeCorrect,
      AccessTypeCorrect, ResolverTypeCorrect, FieldsTypeCorrect,
      ConsoleIsItsComponents, PTL DEF ConsoleSpec, ConsoleTypeOK

=============================================================================
