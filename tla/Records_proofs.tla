--------------------------- MODULE Records_proofs ---------------------------
(***************************************************************************)
(* Theorems about the tenants' records: the scripts of ModuleScripts, the  *)
(* assets of AssetEnrolment, the tests and the list of VersionTests, the   *)
(* copies of ModuleTransfer, the forms of BindingValues, the rows DemoSeed *)
(* inserts, the people of Accounts and the links of DependencyGroups; for any*)
(* names, rows, computers, modules, lists, forms and requests.  And about all*)
(* but Accounts side by side, as MCRecords puts them.                      *)
(***************************************************************************)
EXTENDS Integers, MCRecords, Accounts, FiniteSetTheorems, SequenceTheorems, WellFoundedInduction, TLAPS

-----------------------------------------------------------------------------
(* ModuleScripts.                                                          *)

(* What is read of a row and written back later.                           *)
Pristine(rows) == \A n \in Names : rows[n].origin = "default" => rows[n].text = Shipped

(* A save carries a custom row, and keeps a copy only of a default it has  *)
(* read; what the lists hold has been in the table.                        *)
WriterSound(w) ==
    /\ w \in WriterType
    /\ Pristine(w.listed)
    /\ w.row.origin # "default"
    /\ w.next \in {"fork", "keep"} =>
         w.name \in Names /\ w.listed[w.name].origin = "default"

ScriptsInv ==
    /\ ScriptsTypeOK
    /\ Pristine(script)
    /\ \A r \in Writers : WriterSound(writer[r])

-----------------------------------------------------------------------------

LEMMA NamesKnown == UserNames \subseteq Names /\ DOMAIN Reserved \subseteq Names /\ ApplyName \in Names
BY ScriptConstants

LEMMA WriterIdleSound ==
    /\ WriterSound(WriterIdle)
    /\ \A next \in {"seed_list", "seed_list_actions", "seed_script", "seed_action",
                    "restore_list", "reset_scripts", "reset_list"} :
         WriterSound([WriterIdle EXCEPT !.next = next])
BY DEF WriterSound, WriterIdle, WriterType, Pristine, NoScript, ScriptRows, Origins

(* A statement of one request that writes no script.                       *)
LEMMA WriterStepKeepsInv ==
    ASSUME ScriptsInv, NEW r \in Writers, NEW w, WriterSound(w), WriterGoto(r, w),
           draft' \in BOOLEAN, UNCHANGED script, wiring' \in [Names -> ActionRows]
    PROVE  ScriptsInv'
<1>1. writer' = [writer EXCEPT ![r] = w] /\ writer \in [Writers -> WriterType]
  BY DEF WriterGoto, ScriptsInv, ScriptsTypeOK
<1>2. \A s \in Writers : WriterSound(writer'[s])
  BY <1>1 DEF ScriptsInv
<1>3. writer' \in [Writers -> WriterType]
  BY <1>1 DEF WriterSound
<1> QED BY <1>2, <1>3 DEF ScriptsInv, ScriptsTypeOK

(* A statement that writes one row: a default row holds the shipped text.  *)
LEMMA RowWriteKeepsInv ==
    ASSUME ScriptsInv, NEW n, NEW row \in ScriptRows,
           row.origin = "default" => row.text = Shipped,
           script' = [script EXCEPT ![n] = row]
    PROVE  script' \in [Names -> ScriptRows] /\ Pristine(script')
BY DEF ScriptsInv, ScriptsTypeOK, Pristine

LEMMA ScriptWriteKeepsInv ==
    ASSUME ScriptsInv, NEW r \in Writers, NEW w, WriterSound(w), WriterGoto(r, w),
           NEW n, NEW row \in ScriptRows, row.origin = "default" => row.text = Shipped,
           WriteScript(n, row), UNCHANGED <<draft, wiring>>
    PROVE  ScriptsInv'
<1>1. writer' = [writer EXCEPT ![r] = w] /\ writer \in [Writers -> WriterType]
  BY DEF WriterGoto, ScriptsInv, ScriptsTypeOK
<1>2. \A s \in Writers : WriterSound(writer'[s])
  BY <1>1 DEF ScriptsInv
<1>3. writer' \in [Writers -> WriterType]
  BY <1>1 DEF WriterSound
<1>4. script' \in [Names -> ScriptRows] /\ Pristine(script')
  BY RowWriteKeepsInv DEF WriteScript, Upserted
<1> QED BY <1>2, <1>3, <1>4 DEF ScriptsInv, ScriptsTypeOK

LEMMA SaveStepsKeepInv ==
    ASSUME ScriptsInv, NEW r \in Writers,
           \/ \E n \in UserNames, t \in Texts : UpsertScriptRead(r, n, t)
           \/ ForkLookup(r) \/ ForkKeep(r) \/ UpsertModuleScriptGuarded(r)
    PROVE  ScriptsInv'
<1> USE DEF ScriptsInv, ScriptsTypeOK
<1>0. WriterSound(writer[r]) /\ writer[r] \in WriterType
  OBVIOUS
<1>1. ASSUME NEW n \in UserNames, NEW t \in Texts, UpsertScriptRead(r, n, t) PROVE ScriptsInv'
  <2> DEFINE next == IF script[n].origin = "default" THEN "fork" ELSE "save"
             row == [origin |-> "custom", text |-> t]
             w == [WriterIdle EXCEPT !.name = n, !.row = row, !.listed[n] = script[n],
                                     !.next = next]
  <2>1. n \in Names /\ script[n] \in ScriptRows
    BY NamesKnown
  <2>2. row \in ScriptRows /\ row.origin = "custom"
    BY DEF ScriptRows, Origins
  <2>3. next \in {"fork", "save"} /\ (next = "fork" => script[n].origin = "default")
    OBVIOUS
  <2>4. WriterGoto(r, w) /\ UNCHANGED <<draft, script, wiring>>
    BY <1>1 DEF UpsertScriptRead
  <2>5. WriterIdle \in WriterType /\ Pristine(WriterIdle.listed)
    BY WriterIdleSound DEF WriterSound
  <2> HIDE DEF next, row
  <2>6. /\ w \in WriterType /\ w.next = next /\ w.name = n /\ w.row = row
        /\ w.listed = [WriterIdle.listed EXCEPT ![n] = script[n]]
    BY <2>1, <2>2, <2>3, <2>5 DEF WriterType
  <2>7. Pristine(w.listed) /\ w.listed[n] = script[n]
    BY <2>1, <2>5, <2>6 DEF Pristine, WriterType
  <2> HIDE DEF w
  <2>8. WriterSound(w)
    BY <2>1, <2>2, <2>3, <2>6, <2>7 DEF WriterSound
  <2> QED BY <2>4, <2>8, WriterStepKeepsInv
<1>2. CASE ForkLookup(r)
  <2> DEFINE next == IF script[Reserved[writer[r].name]] = NoScript THEN "keep" ELSE "save"
             w == [writer[r] EXCEPT !.next = next]
  <2>1. WriterGoto(r, w) /\ UNCHANGED <<draft, script, wiring>> /\ writer[r].next = "fork"
    BY <1>2 DEF ForkLookup, WriterAt
  <2>2. next \in {"keep", "save"}
    OBVIOUS
  <2> HIDE DEF next
  <2>3. WriterSound(w)
    BY <1>0, <2>1, <2>2 DEF WriterSound, WriterType
  <2> HIDE DEF w
  <2> QED BY <2>1, <2>3, WriterStepKeepsInv
<1>3. CASE ForkKeep(r)
  <2> DEFINE n == writer[r].name
             row == [origin |-> "default", text |-> writer[r].listed[n].text]
             w == [writer[r] EXCEPT !.next = "save"]
  <2>1. WriterGoto(r, w) /\ UNCHANGED <<draft, wiring>> /\ writer[r].next = "keep"
        /\ WriteScript(Reserved[n], row)
    BY <1>3 DEF ForkKeep, WriterAt
  <2>2. n \in Names /\ writer[r].listed[n].text = Shipped
    BY <1>0, <2>1 DEF WriterSound, Pristine
  <2>3. row \in ScriptRows /\ row.text = Shipped
    BY <2>2 DEF ScriptRows, Origins
  <2>4. WriterSound(w)
    BY <1>0 DEF WriterSound, WriterType
  <2> HIDE DEF w, row
  <2> QED BY <2>1, <2>3, <2>4, ScriptWriteKeepsInv
<1>4. CASE UpsertModuleScriptGuarded(r)
  <2>1. writer[r].row \in ScriptRows /\ writer[r].row.origin # "default"
    BY <1>0 DEF WriterSound, WriterType
  <2> QED BY <1>4, <2>1, WriterIdleSound, ScriptWriteKeepsInv
          DEF UpsertModuleScriptGuarded, WriterDone
<1> QED BY <1>1, <1>2, <1>3, <1>4

LEMMA SeedStepsKeepInv ==
    ASSUME ScriptsInv, NEW r \in Writers,
           \/ SeedModuleDefaults(r) \/ SeedListScripts(r) \/ SeedListActions(r)
           \/ SeedScript(r) \/ SeedAction(r)
    PROVE  ScriptsInv'
<1> USE DEF ScriptsInv, ScriptsTypeOK
<1>1. CASE SeedModuleDefaults(r)
  BY <1>1, WriterIdleSound, WriterStepKeepsInv DEF SeedModuleDefaults
<1>2. CASE SeedListScripts(r)
  BY <1>2, WriterIdleSound, WriterStepKeepsInv DEF SeedListScripts
<1>3. CASE SeedListActions(r)
  BY <1>3, WriterIdleSound, WriterStepKeepsInv DEF SeedListActions
<1>4. CASE SeedScript(r)
  <2>1. [origin |-> "default", text |-> Shipped] \in ScriptRows
    BY DEF ScriptRows, Origins
  <2> QED BY <1>4, <2>1, WriterIdleSound, ScriptWriteKeepsInv DEF SeedScript
<1>5. CASE SeedAction(r)
  <2>1. wiring' \in [Names -> ActionRows]
    BY <1>5, NamesKnown DEF SeedAction, WriteAction, ActionRows, Origins
  <2> QED BY <1>5, <2>1, WriterIdleSound, WriterStepKeepsInv DEF SeedAction, WriterDone
<1> QED BY <1>1, <1>2, <1>3, <1>4, <1>5

LEMMA ResetStepsKeepInv ==
    ASSUME ScriptsInv, NEW r \in Writers,
           \/ RestoreDefaults(r) \/ FullReset(r) \/ ResetDeletes(r) \/ ListScripts(r)
           \/ \E n \in DOMAIN Reserved : RestoreRepoint(r, n) \/ ResetRebuild(r, n)
           \/ ResetRewire(r) \/ RestoreEnd(r) \/ ResetEnd(r) \/ WriterFails(r)
    PROVE  ScriptsInv'
<1> USE DEF ScriptsInv, ScriptsTypeOK
<1>0. WriterSound(writer[r]) /\ writer[r] \in WriterType
  OBVIOUS
<1>1. CASE RestoreDefaults(r) \/ FullReset(r)
  BY <1>1, WriterIdleSound, WriterStepKeepsInv DEF RestoreDefaults, FullReset, DraftAsked
<1>2. CASE DeleteCustomScripts(r)
  <2>1. script' \in [Names -> ScriptRows] /\ Pristine(script')
    BY <1>2 DEF DeleteCustomScripts, Pristine, NoScript, ScriptRows, Origins
  <2> DEFINE w == [WriterIdle EXCEPT !.next = "reset_actions"]
  <2>2. WriterSound(w)
    BY DEF WriterSound, WriterIdle, WriterType, Pristine, NoScript, ScriptRows, Origins
  <2>3. WriterGoto(r, w) /\ UNCHANGED <<draft, wiring>>
    BY <1>2 DEF DeleteCustomScripts
  <2> HIDE DEF w
  <2>4. writer' \in [Writers -> WriterType] /\ \A s \in Writers : WriterSound(writer'[s])
    BY <2>2, <2>3 DEF WriterGoto, WriterSound
  <2> QED BY <2>1, <2>3, <2>4
<1>3. CASE DeleteCustomActions(r)
  <2>1. wiring' \in [Names -> ActionRows]
    BY <1>3 DEF DeleteCustomActions, NoAction, ActionRows, Origins
  <2> QED BY <1>3, <2>1, WriterIdleSound, WriterStepKeepsInv DEF DeleteCustomActions
<1>4. CASE ListScripts(r)
  <2> DEFINE next == IF WriterAt(r, "restore_list") THEN "repoint" ELSE "rebuild"
             w == [WriterIdle EXCEPT !.listed = script, !.next = next]
  <2>1. WriterGoto(r, w) /\ UNCHANGED <<draft, script, wiring>>
    BY <1>4 DEF ListScripts
  <2>2. next \in {"repoint", "rebuild"}
    OBVIOUS
  <2> HIDE DEF next
  <2>3. WriterSound(w)
    BY <2>2 DEF WriterSound, WriterIdle, WriterType, NoScript, ScriptRows, Origins
  <2> HIDE DEF w
  <2> QED BY <2>1, <2>3, WriterStepKeepsInv
<1>5. ASSUME NEW n \in DOMAIN Reserved, RestoreRepoint(r, n) PROVE ScriptsInv'
  <2> DEFINE w == [writer[r] EXCEPT !.listed[Reserved[n]] = NoScript]
  <2>1. WriterGoto(r, w) /\ UNCHANGED <<draft, script>> /\ writer[r].next = "repoint"
        /\ WriteAction(n, [origin |-> "default", runs |-> Reserved[n]])
        /\ n \in KeptDefaults(r)
    BY <1>5 DEF RestoreRepoint, WriterAt
  <2>2. WriterSound(w)
    BY <1>0, <2>1 DEF WriterSound, WriterType, Pristine, NoScript, ScriptRows, Origins
  <2>3. wiring' \in [Names -> ActionRows]
    BY <2>1, NamesKnown, ScriptConstants DEF WriteAction, ActionRows, Origins
  <2> HIDE DEF w
  <2> QED BY <2>1, <2>2, <2>3, WriterStepKeepsInv
<1>6. ASSUME NEW n \in DOMAIN Reserved, ResetRebuild(r, n) PROVE ScriptsInv'
  <2> DEFINE row == [origin |-> "default", text |-> writer[r].listed[Reserved[n]].text]
             w == [writer[r] EXCEPT !.next = "rewire", !.name = n, !.restored = TRUE]
  <2>1. WriterGoto(r, w) /\ UNCHANGED <<draft, wiring>> /\ WriteScript(n, row)
        /\ writer[r].listed[Reserved[n]].origin = "default"
    BY <1>6 DEF ResetRebuild, KeptDefaults
  <2>2. Reserved[n] \in Names
    BY ScriptConstants
  <2>3. row \in ScriptRows /\ row.text = Shipped
    BY <1>0, <2>1, <2>2 DEF WriterSound, Pristine, ScriptRows, Origins
  <2>4. WriterSound(w)
    BY <1>0, NamesKnown DEF WriterSound, WriterType
  <2> HIDE DEF w, row
  <2> QED BY <2>1, <2>3, <2>4, ScriptWriteKeepsInv
<1>7. CASE ResetRewire(r)
  <2> DEFINE n == writer[r].name
             w == [writer[r] EXCEPT !.next = "rebuild", !.listed[Reserved[n]] = NoScript]
  <2>1. WriterGoto(r, w) /\ UNCHANGED <<draft, script>>
        /\ WriteAction(n, [origin |-> "default", runs |-> n])
    BY <1>7 DEF ResetRewire
  <2>2. WriterSound(w)
    BY <1>0 DEF WriterSound, WriterType, Pristine, NoScript, ScriptRows, Origins
  <2>3. wiring' \in [Names -> ActionRows]
    BY <1>0, <2>1 DEF WriteAction, ActionRows, Origins, WriterType
  <2> HIDE DEF w
  <2> QED BY <2>1, <2>2, <2>3, WriterStepKeepsInv
<1>8. CASE RestoreEnd(r) \/ ResetEnd(r) \/ WriterFails(r)
  BY <1>8, WriterIdleSound, WriterStepKeepsInv DEF RestoreEnd, ResetEnd, WriterFails, WriterDone
<1> QED BY <1>1, <1>2, <1>3, <1>4, <1>5, <1>6, <1>7, <1>8 DEF ResetDeletes

LEMMA OtherScriptStepsKeepInv ==
    ASSUME ScriptsInv,
           \/ \E old, new \in Names : RenameModuleScript(old, new)
           \/ \E n \in Names : DeleteModuleScript(n) \/ DeleteAction(n)
           \/ \E k \in UserNames, n \in UserNames :
                UpsertAction(k, [origin |-> "custom", runs |-> n])
           \/ Publish
    PROVE  ScriptsInv'
<1> USE DEF ScriptsInv, ScriptsTypeOK
<1>1. ASSUME NEW old \in Names, NEW new \in Names, RenameModuleScript(old, new) PROVE ScriptsInv'
  <2>1. script' \in [Names -> ScriptRows] /\ Pristine(script')
    BY <1>1 DEF RenameModuleScript, Pristine, NoScript, ScriptRows, Origins
  <2> QED BY <1>1, <2>1 DEF RenameModuleScript
<1>2. ASSUME NEW n \in Names, DeleteModuleScript(n) PROVE ScriptsInv'
  <2>1. script' \in [Names -> ScriptRows] /\ Pristine(script')
    BY <1>2 DEF DeleteModuleScript, Pristine, NoScript, ScriptRows, Origins
  <2> QED BY <1>2, <2>1 DEF DeleteModuleScript
<1>3. ASSUME NEW n \in Names, DeleteAction(n) PROVE ScriptsInv'
  BY <1>3 DEF DeleteAction, WriteAction, NoAction, ActionRows, Origins
<1>4. ASSUME NEW k \in UserNames, NEW n \in UserNames,
             UpsertAction(k, [origin |-> "custom", runs |-> n])
      PROVE  ScriptsInv'
  BY <1>4, NamesKnown DEF UpsertAction, WriteAction, ActionRows, Origins
<1>5. CASE Publish
  BY <1>5 DEF Publish
<1> QED BY <1>1, <1>2, <1>3, <1>4, <1>5

LEMMA ScriptsInitInv == ScriptsInit => ScriptsInv
<1> SUFFICES ASSUME ScriptsInit PROVE ScriptsInv
  OBVIOUS
<1>1. ScriptsTypeOK
  BY WriterIdleSound DEF ScriptsInit, ScriptsTypeOK, NoScript, NoAction, ScriptRows, ActionRows,
                         Origins, WriterSound
<1> QED BY <1>1, WriterIdleSound DEF ScriptsInit, ScriptsInv, Pristine, NoScript

LEMMA ScriptsNextKeepsInv == ScriptsInv /\ [ScriptsNext]_scriptVars => ScriptsInv'
<1> SUFFICES ASSUME ScriptsInv, [ScriptsNext]_scriptVars PROVE ScriptsInv'
  OBVIOUS
<1>1. CASE UNCHANGED scriptVars
  BY <1>1 DEF scriptVars, ScriptsInv, ScriptsTypeOK
<1>2. ASSUME NEW r \in Writers, ScriptStep(r) PROVE ScriptsInv'
  BY <1>2, SaveStepsKeepInv, SeedStepsKeepInv, ResetStepsKeepInv DEF ScriptStep
<1> QED BY <1>1, <1>2, OtherScriptStepsKeepInv DEF ScriptsNext

LEMMA ScriptsInvHolds == ScriptsSpec => []ScriptsInv
BY ScriptsInitInv, ScriptsNextKeepsInv, PTL DEF ScriptsSpec

(* saveScript, seedDefaults, restore and reset: a row of origin "default"  *)
(* always holds the text the default was shipped with.                     *)
THEOREM DefaultsStayPristine == ScriptsSpec => []DefaultsArePristine
<1>1. ScriptsInv => DefaultsArePristine
  BY DEF ScriptsInv, Pristine, DefaultsArePristine
<1> QED BY <1>1, ScriptsInvHolds, PTL

-----------------------------------------------------------------------------
(* AssetEnrolment.                                                         *)

(* The rows there have ever been.                                          *)
Enrolled(sh) == {a \in AssetRows : sh[a] # "none"}

ActiveRows(sh) == {a \in AssetRows : sh[a] = "active"}

(* What a request knows of the rows from what it has read: an enrolment    *)
(* the count, a bulk request the row its handler has looked up.            *)
DeskKnows(q, sh, nu) ==
    /\ q.next = "insert" =>
         /\ q.number <= Cardinality(Enrolled(sh)) + 1
         /\ ~q.stale => q.number = Cardinality(ActiveRows(sh)) + 1
    /\ q.next = "service" =>
         q.found \in AssetRows /\ sh[q.found] # "none" /\ nu[q.found] = q.number
    /\ q.next = "act" =>
         /\ q.row \in AssetRows /\ q.found \in AssetRows
         /\ q.row = q.found \/ sh[q.found] = "gone"

(* No two rows that are still there share a human id, and none is higher   *)
(* than the number of rows there have been.                                *)
HumanIdsUnique(sh, nu) ==
    \A a, b \in AssetRows :
      {sh[a], sh[b]} \subseteq {"active", "binned"} /\ nu[a] = nu[b] => a = b

HumanIdsBounded(sh, nu) == \A a \in Enrolled(sh) : nu[a] <= Cardinality(Enrolled(sh))

AssetsInv ==
    /\ AssetsTypeOK
    /\ HumanIdsUnique(shelf, number)
    /\ HumanIdsBounded(shelf, number)
    /\ \A r \in Desks : DeskKnows(desk[r], shelf, number)

-----------------------------------------------------------------------------

LEMMA RowsAreFinite ==
    ASSUME NEW sh
    PROVE  /\ IsFiniteSet(Enrolled(sh)) /\ Cardinality(Enrolled(sh)) \in Nat
           /\ IsFiniteSet(ActiveRows(sh)) /\ Cardinality(ActiveRows(sh)) \in Nat
           /\ Cardinality(ActiveRows(sh)) <= Cardinality(Enrolled(sh))
           /\ Cardinality(ActiveRows(sh)) <= Cardinality(AssetRows)
           /\ Cardinality(AssetRows) \in Nat
<1>1. Enrolled(sh) \subseteq AssetRows /\ ActiveRows(sh) \subseteq Enrolled(sh)
  BY DEF Enrolled, ActiveRows
<1>2. IsFiniteSet(Enrolled(sh))
  BY <1>1, AssetRowsAssumption, FS_Subset
<1>3. IsFiniteSet(ActiveRows(sh)) /\ Cardinality(ActiveRows(sh)) <= Cardinality(Enrolled(sh))
  BY <1>1, <1>2, FS_Subset
<1>4. ActiveRows(sh) \subseteq AssetRows
  BY <1>1
<1>5. Cardinality(ActiveRows(sh)) <= Cardinality(AssetRows)
  BY <1>4, AssetRowsAssumption, FS_Subset
<1>6. Cardinality(Enrolled(sh)) \in Nat /\ Cardinality(ActiveRows(sh)) \in Nat /\ Cardinality(AssetRows) \in Nat
  BY <1>2, <1>3, AssetRowsAssumption, FS_CardinalityType
<1> QED BY <1>2, <1>3, <1>5, <1>6

LEMMA DeskIdleKnows == DeskIdle \in DeskType /\ \A sh, nu : DeskKnows(DeskIdle, sh, nu)
<1>1. 0 \in Numbers
  BY RowsAreFinite DEF Numbers
<1> QED BY <1>1 DEF DeskIdle, DeskType, DeskKnows, BulkActions

(* A step of one request that changes no row's life and no human id.       *)
LEMMA DeskStepKeepsInv ==
    ASSUME AssetsInv, NEW r \in Desks, NEW w \in DeskType, DeskKnows(w, shelf, number),
           desk' = [desk EXCEPT ![r] = w], UNCHANGED <<shelf, number>>,
           ownedBy' \in [AssetRows -> Owners \cup {Nothing}],
           account' \in [Owners -> {"active", "binned", "gone"}]
    PROVE  AssetsInv'
<1>1. desk' \in [Desks -> DeskType] /\ \A s \in Desks : desk'[s] = w \/ desk'[s] = desk[s]
  BY DEF AssetsInv, AssetsTypeOK
<1>2. \A s \in Desks : DeskKnows(desk'[s], shelf', number')
  BY <1>1 DEF AssetsInv
<1> QED BY <1>1, <1>2 DEF AssetsInv, AssetsTypeOK

(* What other requests know while a request changes the life of a row.     *)
LEMMA ShelfWriteKnows ==
    ASSUME AssetsInv, NEW r \in Desks, ShelfWrite(r),
           Enrolled(shelf) \subseteq Enrolled(shelf'),
           \A a \in Enrolled(shelf) : number'[a] = number[a],
           \A a \in AssetRows : shelf[a] = "gone" => shelf'[a] = "gone"
    PROVE  desk' \in [Desks -> DeskType] /\ \A s \in Desks : DeskKnows(desk'[s], shelf', number')
<1>1. ASSUME NEW s \in Desks PROVE desk'[s] \in DeskType /\ DeskKnows(desk'[s], shelf', number')
  <2>1. CASE s = r
    BY <2>1, DeskIdleKnows DEF ShelfWrite
  <2>2. CASE s # r
    <3> DEFINE q == [desk[s] EXCEPT !.stale = DeskAt(s, "insert")]
    <3>1. desk'[s] = q
      BY <2>2 DEF ShelfWrite
    <3>2. desk[s] \in DeskType /\ DeskKnows(desk[s], shelf, number) /\ DeskAt(s, "insert") \in BOOLEAN
      BY DEF AssetsInv, AssetsTypeOK, DeskAt
    <3>3. /\ q \in DeskType /\ q.next = desk[s].next /\ q.number = desk[s].number
          /\ q.found = desk[s].found /\ q.row = desk[s].row /\ (q.next = "insert" => q.stale)
      BY <3>2 DEF DeskType, DeskAt
    <3> HIDE DEF q
    <3>4. q.next = "insert" => q.number <= Cardinality(Enrolled(shelf')) + 1
      <4>1. Cardinality(Enrolled(shelf)) <= Cardinality(Enrolled(shelf'))
        BY RowsAreFinite, FS_Subset
      <4>2. q.next = "insert" => q.number <= Cardinality(Enrolled(shelf)) + 1
        BY <3>2, <3>3 DEF DeskKnows
      <4>3. q.number \in Nat
        BY <3>3, RowsAreFinite DEF DeskType, Numbers
      <4> QED BY <4>1, <4>2, <4>3, RowsAreFinite
    <3>5. q.next = "service" => q.found \in AssetRows /\ shelf'[q.found] # "none" /\ number'[q.found] = q.number
      BY <3>2, <3>3 DEF DeskKnows, Enrolled
    <3>6. q.next = "act" =>
            /\ q.row \in AssetRows /\ q.found \in AssetRows
            /\ q.row = q.found \/ shelf'[q.found] = "gone"
      BY <3>2, <3>3 DEF DeskKnows
    <3>7. DeskKnows(q, shelf', number')
      BY <3>3, <3>4, <3>5, <3>6 DEF DeskKnows
    <3> QED BY <3>1, <3>3, <3>7
  <2> QED BY <2>1, <2>2
<1>2. desk' = [s \in Desks |-> desk'[s]]
  BY DEF ShelfWrite
<1> QED BY <1>1, <1>2

LEMMA CreateAssetKeepsInv ==
    ASSUME AssetsInv, NEW r \in Desks, NEW a \in AssetRows, CreateAsset(r, a)
    PROVE  AssetsInv'
<1> DEFINE m == desk[r].number
<1>1. /\ shelf \in [AssetRows -> {"none", "active", "binned", "gone"}]
      /\ number \in [AssetRows -> Nat]
      /\ desk[r] \in DeskType /\ DeskKnows(desk[r], shelf, number) /\ desk[r].next = "insert"
      /\ shelf' = [shelf EXCEPT ![a] = "active"] /\ number' = [number EXCEPT ![a] = m]
      /\ NumberFree(m) /\ ShelfWrite(r) /\ shelf[a] = "none" /\ UNCHANGED <<ownedBy, account>>
  BY DEF CreateAsset, AssetsInv, AssetsTypeOK, DeskAt
<1>2. m \in Nat /\ m <= Cardinality(Enrolled(shelf)) + 1
  BY <1>1, RowsAreFinite DEF DeskType, Numbers, DeskKnows
<1> HIDE DEF m
<1>3. Enrolled(shelf') = Enrolled(shelf) \cup {a} /\ a \notin Enrolled(shelf)
  BY <1>1 DEF Enrolled
<1>4. Cardinality(Enrolled(shelf')) = Cardinality(Enrolled(shelf)) + 1
  BY <1>3, RowsAreFinite, FS_AddElement
<1>5. HumanIdsBounded(shelf', number')
  <2>1. \A b \in Enrolled(shelf) : number'[b] = number[b] /\ number[b] \in Nat
                                   /\ number[b] <= Cardinality(Enrolled(shelf))
    BY <1>1, <1>3 DEF AssetsInv, HumanIdsBounded, Enrolled
  <2>2. number'[a] = m
    BY <1>1
  <2> QED BY <1>2, <1>3, <1>4, <2>1, <2>2, RowsAreFinite DEF HumanIdsBounded
<1>6. HumanIdsUnique(shelf', number')
  <2>1. \A b \in AssetRows : shelf[b] \in {"active", "binned"} => number[b] # m
    BY <1>1 DEF NumberFree, GetAssetForDeletion, ListAssetsBySubtype, ListDeletedAssetsBySubtype
  <2> QED BY <1>1, <2>1 DEF HumanIdsUnique, AssetsInv
<1>7. desk' \in [Desks -> DeskType] /\ \A s \in Desks : DeskKnows(desk'[s], shelf', number')
  BY <1>1, <1>3, ShelfWriteKnows DEF Enrolled
<1>8. shelf' \in [AssetRows -> {"none", "active", "binned", "gone"}] /\ number' \in [AssetRows -> Nat]
  BY <1>1, <1>2
<1> QED BY <1>1, <1>5, <1>6, <1>7, <1>8 DEF AssetsInv, AssetsTypeOK

LEMMA BulkActKeepsInv ==
    ASSUME AssetsInv, NEW r \in Desks, BulkAct(r)
    PROVE  AssetsInv'
<1> DEFINE a == desk[r].row
<1>1. /\ shelf \in [AssetRows -> {"none", "active", "binned", "gone"}]
      /\ DeskKnows(desk[r], shelf, number) /\ desk[r].next = "act"
      /\ ShelfWrite(r) /\ UNCHANGED <<number, ownedBy, account>>
      /\ SoftDeleteAsset(a) \/ RestoreAsset(a) \/ DeleteAsset(a)
  BY DEF BulkAct, AssetsInv, AssetsTypeOK, DeskAt
<1>2. a \in AssetRows
  BY <1>1 DEF DeskKnows
<1> HIDE DEF a
<1>3. PICK s \in {"active", "binned", "gone"} :
        shelf' = [shelf EXCEPT ![a] = s] /\ shelf[a] \in {"active", "binned"}
  BY <1>1 DEF SoftDeleteAsset, RestoreAsset, DeleteAsset
<1>4. Enrolled(shelf') = Enrolled(shelf)
  BY <1>1, <1>2, <1>3 DEF Enrolled
<1>5. HumanIdsBounded(shelf', number')
  BY <1>1, <1>4 DEF HumanIdsBounded, AssetsInv
<1>6. HumanIdsUnique(shelf', number')
  BY <1>1, <1>2, <1>3 DEF HumanIdsUnique, AssetsInv
<1>7. \A b \in AssetRows : shelf[b] = "gone" => shelf'[b] = "gone"
  BY <1>1, <1>3
<1>8. desk' \in [Desks -> DeskType] /\ \A q \in Desks : DeskKnows(desk'[q], shelf', number')
  BY <1>1, <1>4, <1>7, ShelfWriteKnows
<1>9. shelf' \in [AssetRows -> {"none", "active", "binned", "gone"}]
  BY <1>1, <1>3
<1> QED BY <1>1, <1>5, <1>6, <1>8, <1>9 DEF AssetsInv, AssetsTypeOK

(* What the service looks up is what the handler has found, or that is     *)
(* gone.                                                                   *)
LEMMA ServiceLookupKeepsInv ==
    ASSUME AssetsInv, NEW r \in Desks, ServiceLookup(r)
    PROVE  AssetsInv'
<1>1. /\ shelf \in [AssetRows -> {"none", "active", "binned", "gone"}]
      /\ desk[r] \in DeskType /\ DeskKnows(desk[r], shelf, number) /\ desk[r].next = "service"
      /\ UNCHANGED <<shelf, number, ownedBy, account>>
      /\ ownedBy \in [AssetRows -> Owners \cup {Nothing}]
      /\ account \in [Owners -> {"active", "binned", "gone"}]
      /\ desk \in [Desks -> DeskType]
  BY DEF ServiceLookup, AssetsInv, AssetsTypeOK, DeskAt
<1>2. CASE DeskDone(r)
  BY <1>1, <1>2, DeskIdleKnows, DeskStepKeepsInv DEF DeskDone
<1>3. ASSUME NEW a \in GetAssetForDeletion(desk[r].number), desk' = [desk EXCEPT ![r].next = "act", ![r].row = a]
      PROVE  AssetsInv'
  <2> DEFINE w == [desk[r] EXCEPT !.next = "act", !.row = a]
  <2>1. a \in AssetRows /\ shelf[a] \in {"active", "binned"} /\ number[a] = desk[r].number
    BY <1>3 DEF GetAssetForDeletion, ListAssetsBySubtype, ListDeletedAssetsBySubtype
  <2>2. /\ desk[r].found \in AssetRows /\ shelf[desk[r].found] # "none"
        /\ number[desk[r].found] = desk[r].number
    BY <1>1 DEF DeskKnows
  <2>3. a = desk[r].found \/ shelf[desk[r].found] = "gone"
    BY <1>1, <2>1, <2>2 DEF AssetsInv, HumanIdsUnique
  <2>4. w \in DeskType /\ w.next = "act" /\ w.row = a /\ w.found = desk[r].found
    BY <1>1, <2>1 DEF DeskType
  <2>5. desk' = [desk EXCEPT ![r] = w]
    BY <1>3, <1>1
  <2> HIDE DEF w
  <2>6. DeskKnows(w, shelf, number)
    BY <2>1, <2>2, <2>3, <2>4 DEF DeskKnows
  <2> QED BY <1>1, <2>4, <2>5, <2>6, DeskStepKeepsInv
<1> QED BY <1>2, <1>3 DEF ServiceLookup

LEMMA OtherDeskStepsKeepInv ==
    ASSUME AssetsInv, NEW r \in Desks,
           \/ EnrolCount(r) \/ EnrolRefused(r) \/ CheckOwner(r) \/ SetAssetOwner(r) \/ DeskGivesUp(r)
           \/ \E n \in Numbers, action \in BulkActions, a \in AssetRows : AssetBulk(r, n, action, a)
           \/ \E n \in Numbers, i \in Owners \cup {Nothing} : ResolveDBID(r, n, i)
    PROVE  AssetsInv'
<1>1. /\ shelf \in [AssetRows -> {"none", "active", "binned", "gone"}]
      /\ desk[r] \in DeskType /\ DeskKnows(desk[r], shelf, number)
      /\ ownedBy \in [AssetRows -> Owners \cup {Nothing}]
      /\ account \in [Owners -> {"active", "binned", "gone"}]
      /\ desk \in [Desks -> DeskType] /\ DeskIdle \in DeskType
  BY DeskIdleKnows DEF AssetsInv, AssetsTypeOK
<1>2. CASE EnrolCount(r)
  <2> DEFINE n == CountAssetsBySubtype + 1
             w == [DeskIdle EXCEPT !.next = "insert", !.number = n]
  <2>1. n = Cardinality(ActiveRows(shelf)) + 1
    BY DEF CountAssetsBySubtype, ListAssetsBySubtype, ActiveRows
  <2>2. n \in Numbers \cup {Cardinality(AssetRows) + 1} /\ n <= Cardinality(Enrolled(shelf)) + 1
    BY <2>1, RowsAreFinite DEF Numbers
  <2>3. desk' = [desk EXCEPT ![r] = w] /\ UNCHANGED <<shelf, number, ownedBy, account>>
    BY <1>2 DEF EnrolCount
  <2> HIDE DEF n
  <2>4. w \in DeskType /\ w.next = "insert" /\ w.number = n
    BY <1>1, <2>2 DEF DeskType
  <2> HIDE DEF w
  <2>5. DeskKnows(w, shelf, number)
    BY <2>1, <2>2, <2>4 DEF DeskKnows
  <2> QED BY <1>1, <2>3, <2>4, <2>5, DeskStepKeepsInv
<1>3. CASE EnrolRefused(r) \/ DeskGivesUp(r)
  BY <1>1, <1>3, DeskIdleKnows, DeskStepKeepsInv DEF EnrolRefused, DeskGivesUp, DeskDone
<1>4. CASE CheckOwner(r)
  <2> DEFINE w == [desk[r] EXCEPT !.next = "set"]
  <2>1. desk' = [desk EXCEPT ![r] = w] /\ UNCHANGED <<shelf, number, ownedBy, account>>
    BY <1>4 DEF CheckOwner
  <2>2. w \in DeskType /\ w.next = "set"
    BY <1>1 DEF DeskType
  <2> HIDE DEF w
  <2>3. DeskKnows(w, shelf, number)
    BY <2>2 DEF DeskKnows
  <2> QED BY <1>1, <2>1, <2>2, <2>3, DeskStepKeepsInv
<1>5. CASE SetAssetOwner(r)
  <2>1. desk[r].owner \in Owners \cup {Nothing}
    BY <1>1 DEF DeskType
  <2>2. ownedBy' = [ownedBy EXCEPT ![desk[r].row] = desk[r].owner] /\ UNCHANGED <<shelf, number, account>>
        /\ desk' = [desk EXCEPT ![r] = DeskIdle]
    BY <1>5 DEF SetAssetOwner, DeskDone
  <2>3. ownedBy' \in [AssetRows -> Owners \cup {Nothing}]
    BY <1>1, <2>1, <2>2
  <2> QED BY <1>1, <2>2, <2>3, DeskIdleKnows, DeskStepKeepsInv
<1>6. ASSUME NEW n \in Numbers, NEW action \in BulkActions, NEW a \in AssetRows, AssetBulk(r, n, action, a)
      PROVE  AssetsInv'
  <2> DEFINE w == [DeskIdle EXCEPT !.next = "service", !.number = n, !.action = action, !.found = a]
  <2>1. desk' = [desk EXCEPT ![r] = w] /\ UNCHANGED <<shelf, number, ownedBy, account>>
        /\ shelf[a] # "none" /\ number[a] = n
    BY <1>6 DEF AssetBulk, GetAssetForDeletion, ListAssetsBySubtype, ListDeletedAssetsBySubtype
  <2>2. w \in DeskType /\ w.next = "service" /\ w.found = a /\ w.number = n
    BY <1>1 DEF DeskType
  <2> HIDE DEF w
  <2>3. DeskKnows(w, shelf, number)
    BY <2>1, <2>2 DEF DeskKnows
  <2> QED BY <1>1, <2>1, <2>2, <2>3, DeskStepKeepsInv
<1>7. ASSUME NEW n \in Numbers, NEW i \in Owners \cup {Nothing}, ResolveDBID(r, n, i)
      PROVE  AssetsInv'
  <2>1. PICK a \in GetAssetByHumanID(n) :
           desk' = [desk EXCEPT ![r] = [DeskIdle EXCEPT !.row = a, !.owner = i,
                    !.next = IF i = Nothing THEN "set" ELSE "owner"]]
    BY <1>7 DEF ResolveDBID
  <2> DEFINE next == IF i = Nothing THEN "set" ELSE "owner"
             w == [DeskIdle EXCEPT !.row = a, !.owner = i, !.next = next]
  <2>2. desk' = [desk EXCEPT ![r] = w] /\ UNCHANGED <<shelf, number, ownedBy, account>>
    BY <1>7, <2>1 DEF ResolveDBID
  <2>3. a \in AssetRows
    BY DEF GetAssetByHumanID, ListAssetsBySubtype
  <2>4. next \in {"set", "owner"}
    OBVIOUS
  <2> HIDE DEF next
  <2>5. w \in DeskType /\ w.next = next
    BY <1>1, <2>3, <2>4 DEF DeskType
  <2> HIDE DEF w
  <2>6. DeskKnows(w, shelf, number)
    BY <2>4, <2>5 DEF DeskKnows
  <2> QED BY <1>1, <2>2, <2>5, <2>6, DeskStepKeepsInv
<1> QED BY <1>2, <1>3, <1>4, <1>5, <1>6, <1>7

LEMMA AssetsNextKeepsInv == AssetsInv /\ [AssetsNext]_assetVars => AssetsInv'
<1> SUFFICES ASSUME AssetsInv, [AssetsNext]_assetVars PROVE AssetsInv'
  OBVIOUS
<1>1. ASSUME NEW i \in Owners, NEW how \in {"active", "binned", "gone"}, OwnerLeaves(i, how)
      PROVE  AssetsInv'
  <2>1. UNCHANGED <<shelf, number, desk>>
    BY <1>1 DEF OwnerLeaves
  <2>2. account' \in [Owners -> {"active", "binned", "gone"}]
    BY <1>1 DEF OwnerLeaves, AssetsInv, AssetsTypeOK
  <2>3. ownedBy' \in [AssetRows -> Owners \cup {Nothing}]
    BY <1>1 DEF OwnerLeaves, AssetsInv, AssetsTypeOK
  <2> QED BY <2>1, <2>2, <2>3 DEF AssetsInv, AssetsTypeOK
<1>2. CASE UNCHANGED assetVars
  BY <1>2 DEF assetVars, AssetsInv, AssetsTypeOK
<1> QED BY <1>1, <1>2, CreateAssetKeepsInv, BulkActKeepsInv, ServiceLookupKeepsInv, OtherDeskStepsKeepInv
        DEF AssetsNext

LEMMA AssetsInvHolds == AssetsSpec => []AssetsInv
<1>1. AssetsInit => AssetsInv
  <2> SUFFICES ASSUME AssetsInit PROVE AssetsInv
    OBVIOUS
  <2>1. \A a \in AssetRows : shelf[a] = "none"
    BY DEF AssetsInit
  <2>2. HumanIdsUnique(shelf, number) /\ HumanIdsBounded(shelf, number)
    BY <2>1 DEF HumanIdsUnique, HumanIdsBounded, Enrolled
  <2> QED BY <2>2, DeskIdleKnows DEF AssetsInit, AssetsInv, AssetsTypeOK
<1> QED BY <1>1, AssetsNextKeepsInv, PTL DEF AssetsSpec

(* For any number of rows, owners and requests: an enrolment is refused    *)
(* only after a deletion or because the rows have changed under it, and a  *)
(* bulk request acts on the row it logs while that row is there.           *)
THEOREM HumanIdsAreEnough == AssetsSpec => HumanIdsHold
<1>1. ASSUME AssetsInv, NEW r \in Desks, EnrolRefused(r), \A a \in AssetRows : shelf[a] \in {"none", "active"}
      PROVE  desk[r].stale
  <2>1. desk[r].next = "insert" /\ DeskKnows(desk[r], shelf, number)
    BY <1>1 DEF AssetsInv, EnrolRefused, DeskAt
  <2>2. PICK a \in AssetRows : shelf[a] = "active" /\ number[a] = desk[r].number
    BY <1>1 DEF EnrolRefused, NumberFree, GetAssetForDeletion, ListAssetsBySubtype, ListDeletedAssetsBySubtype
  <2>3. Enrolled(shelf) = ActiveRows(shelf)
    BY <1>1 DEF Enrolled, ActiveRows
  <2>4. number[a] <= Cardinality(ActiveRows(shelf)) /\ number[a] \in Nat
    BY <1>1, <2>2, <2>3 DEF AssetsInv, HumanIdsBounded, Enrolled, AssetsTypeOK
  <2>5. ~desk[r].stale => number[a] = Cardinality(ActiveRows(shelf)) + 1
    BY <2>1, <2>2 DEF DeskKnows
  <2> QED BY <2>4, <2>5, RowsAreFinite
<1>2. ASSUME AssetsInv, NEW r \in Desks, BulkAct(r)
      PROVE  desk[r].row = desk[r].found \/ shelf[desk[r].found] = "gone"
  BY <1>2 DEF AssetsInv, BulkAct, DeskAt, DeskKnows
<1>3. AssetsInv => [\A r \in Desks :
         EnrolRefused(r) /\ (\A a \in AssetRows : shelf[a] \in {"none", "active"})
           => desk[r].stale]_assetVars
  BY <1>1
<1>4. AssetsInv => [\A r \in Desks :
         BulkAct(r) => desk[r].row = desk[r].found \/ shelf[desk[r].found] = "gone"]_assetVars
  BY <1>2
<1> QED BY <1>3, <1>4, AssetsInvHolds, PTL DEF HumanIdsHold, EnrolsUntilDeletion, ActsOnWhatItLogs

-----------------------------------------------------------------------------
(* Least numbers, and lists some elements of which are kept.               *)

(* Of some finite sets one has no other of them inside.                    *)
LEMMA SmallestSet ==
    ASSUME NEW F, F # {}, \A S \in F : IsFiniteSet(S)
    PROVE  \E S \in F : \A U \in F : U \subseteq S => U = S
<1> DEFINE A == UNION F
           R == StrictSubsetOrdering(A)
           W == FiniteSubsetsOf(A)
<1>1. IsWellFoundedOn(R, W)
  BY FS_StrictSubsetOrderingWellFounded
<1>2. F \subseteq W
  BY DEF FiniteSubsetsOf
<1>3. PICK S \in F : \A U \in F : ~(<<U, S>> \in R)
  <2> HIDE DEF R, W
  <2> QED BY <1>1, <1>2, WFMin
<1>4. \A U \in F : U \subseteq S => U = S
  BY <1>3, <1>2 DEF StrictSubsetOrdering
<1> QED BY <1>4

(* Some numbers have a least one: the induction these proofs use.          *)
LEMMA LeastNat ==
    ASSUME NEW T \in SUBSET Nat, T # {}
    PROVE  \E x \in T : \A y \in T : x <= y
<1> DEFINE F == {0..x : x \in T}
<1>0. \A x \in T : IsFiniteSet(0..x)
  BY FS_Interval
<1>1. F # {} /\ \A S \in F : IsFiniteSet(S)
  BY <1>0
<1>2. PICK S \in F : \A U \in F : U \subseteq S => U = S
  <2> HIDE DEF F
  <2> QED BY <1>1, SmallestSet
<1>3. PICK x \in T : S = 0..x
  OBVIOUS
<1>4. ASSUME NEW y \in T PROVE x <= y
  <2> SUFFICES ASSUME y < x PROVE FALSE
    OBVIOUS
  <2>1. 0..y \in F /\ 0..y \subseteq 0..x
    OBVIOUS
  <2>2. 0..y = 0..x
    BY <1>2, <1>3, <2>1
  <2> QED BY <2>2
<1> QED BY <1>4

(* And a greatest one, if they are bounded.                                *)
LEMMA GreatestNat ==
    ASSUME NEW N \in Nat, NEW T \in SUBSET (0 .. N), T # {}
    PROVE  \E x \in T : \A y \in T : x >= y
<1> DEFINE D == {N - x : x \in T}
<1>0. \A x \in T : x \in Nat /\ x <= N /\ N - x \in Nat
  OBVIOUS
<1>1. D \in SUBSET Nat /\ D # {}
  BY <1>0
<1>2. PICK d \in D : \A e \in D : d <= e
  <2> HIDE DEF D
  <2> QED BY <1>1, LeastNat
<1>3. PICK x \in T : d = N - x
  OBVIOUS
<1>4. ASSUME NEW y \in T PROVE x >= y
  <2>1. N - x <= N - y
    BY <1>2, <1>3
  <2> QED BY <1>0, <2>1
<1> QED BY <1>4

-----------------------------------------------------------------------------
(* Every place of the list that is kept is that of one position.           *)
LEMMA PlaceOf ==
    ASSUME NEW N \in Nat, NEW K \in SUBSET (1 .. N), NEW k \in 1 .. Cardinality(K)
    PROVE  \E n \in K : Cardinality(K \cap (1 .. n)) = k
<1> DEFINE C(n) == Cardinality(K \cap (1 .. n))
           T == {n \in 0 .. N : C(n) >= k}
<1>0. IsFiniteSet(K) /\ Cardinality(K) \in Nat /\ k \in Nat /\ 1 <= k /\ k <= Cardinality(K)
  <2>1. 1 \in Int /\ N \in Int
    OBVIOUS
  <2>2. IsFiniteSet(1 .. N)
    BY <2>1, FS_Interval
  <2>3. IsFiniteSet(K) /\ Cardinality(K) \in Nat
    BY <2>2, FS_Subset, FS_CardinalityType
  <2> QED BY <2>3
<1>1. \A n : IsFiniteSet(K \cap (1 .. n)) /\ C(n) \in Nat
  BY <1>0, FS_Subset, FS_CardinalityType
<1>2. C(N) = Cardinality(K)
  <2>1. K \cap (1 .. N) = K
    OBVIOUS
  <2> QED BY <2>1
<1>3. C(0) = 0
  <2>1. K \cap (1 .. 0) = {}
    OBVIOUS
  <2> QED BY <2>1, FS_EmptySet
<1>4. \A n \in Nat \ {0} : C(n) = C(n - 1) \/ (n \in K /\ C(n) = C(n - 1) + 1)
  <2> SUFFICES ASSUME NEW n \in Nat \ {0}
               PROVE  C(n) = C(n - 1) \/ (n \in K /\ C(n) = C(n - 1) + 1)
    OBVIOUS
  <2>1. 1 .. n = (1 .. (n - 1)) \cup {n} /\ n \notin 1 .. (n - 1)
    OBVIOUS
  <2>2. CASE n \notin K
    <3>1. K \cap (1 .. n) = K \cap (1 .. (n - 1))
      BY <2>1, <2>2
    <3> QED BY <3>1
  <2>3. CASE n \in K
    <3>1. /\ K \cap (1 .. n) = (K \cap (1 .. (n - 1))) \cup {n}
          /\ n \notin K \cap (1 .. (n - 1))
      BY <2>1, <2>3
    <3>2. C(n) = C(n - 1) + 1
      BY <1>1, <3>1, FS_AddElement
    <3> QED BY <2>3, <3>2
  <2> QED BY <2>2, <2>3
<1> HIDE DEF C
<1>5. T \in SUBSET Nat /\ T # {}
  BY <1>0, <1>2
<1>6. PICK n \in T : \A m \in T : n <= m
  <2> HIDE DEF T
  <2> QED BY <1>5, LeastNat
<1>7. n \in 0 .. N /\ n # 0 /\ C(n) >= k
  BY <1>0, <1>3
<1>8. n - 1 \in 0 .. N /\ n - 1 \notin T
  BY <1>6, <1>7
<1>9. ~(C(n - 1) >= k) /\ C(n - 1) \in Nat /\ C(n) \in Nat
  BY <1>1, <1>8
<1>10. n \in K /\ C(n) = C(n - 1) + 1
  BY <1>4, <1>7, <1>9
<1>11. C(n) = k
  BY <1>0, <1>7, <1>9, <1>10
<1> QED BY <1>10, <1>11 DEF C

PlacesOf(list, K) ==
    \A i \in 1 .. Cardinality(K) : \E n \in K :
      KeepAt(list, K)[i] = list[n] /\ Cardinality(K \cap (1 .. n)) = i

(* What is kept are the elements at those positions, each once.            *)
LEMMA KeptOnce ==
    ASSUME NEW S, NEW list \in Seq(S), NEW K \in SUBSET DOMAIN list
    PROVE  /\ Cardinality(K) \in Nat /\ Cardinality(K) <= Len(list)
           /\ KeepAt(list, K) \in Seq(S) /\ Len(KeepAt(list, K)) = Cardinality(K)
           /\ PlacesOf(list, K)
<1> DEFINE N == Len(list)
           Place(k) == CHOOSE n \in K : Cardinality(K \cap (1 .. n)) = k
<1>1. N \in Nat /\ K \in SUBSET (1 .. N) /\ DOMAIN list = 1 .. N /\ 1 \in Int /\ N \in Int
  OBVIOUS
<1>2. IsFiniteSet(1 .. N) /\ Cardinality(1 .. N) = N
  <2> HIDE DEF N
  <2>1. IsFiniteSet(1 .. N) /\ Cardinality(1 .. N) = IF 1 > N THEN 0 ELSE N - 1 + 1
    BY <1>1, FS_Interval
  <2> QED BY <1>1, <2>1
<1>3. IsFiniteSet(K) /\ Cardinality(K) \in Nat /\ Cardinality(K) <= N
  BY <1>1, <1>2, FS_Subset, FS_CardinalityType
<1>4. \A k \in 1 .. Cardinality(K) : Place(k) \in K /\ Cardinality(K \cap (1 .. Place(k))) = k
  BY <1>1, PlaceOf
<1>5. KeepAt(list, K) = [k \in 1 .. Cardinality(K) |-> list[Place(k)]]
  BY DEF KeepAt
<1>6. \A n \in K : list[n] \in S
  BY <1>1
<1> HIDE DEF Place, N
<1>8. \A k \in 1 .. Cardinality(K) : list[Place(k)] \in S
  BY <1>4, <1>6
<1>7. KeepAt(list, K) \in Seq(S) /\ Len(KeepAt(list, K)) = Cardinality(K)
  BY <1>3, <1>5, <1>8
<1> QED BY <1>3, <1>4, <1>5, <1>7 DEF N, PlacesOf

(* Each of them is kept in its place.                                      *)
LEMMA KeptInPlace ==
    ASSUME NEW S, NEW list \in Seq(S), NEW K \in SUBSET DOMAIN list, NEW n \in K
    PROVE  /\ Cardinality(K \cap (1 .. n)) \in 1 .. Cardinality(K)
           /\ KeepAt(list, K)[Cardinality(K \cap (1 .. n))] = list[n]
<1> DEFINE Below(i) == K \cap (1 .. i)
           C(i) == Cardinality(Below(i))
<1>1. DOMAIN list = 1 .. Len(list) /\ Len(list) \in Nat /\ \A i \in K : i \in Nat /\ i >= 1
  OBVIOUS
<1>2. IsFiniteSet(K) /\ Cardinality(K) \in Nat
  <2>1. IsFiniteSet(1 .. Len(list))
    BY <1>1, FS_Interval
  <2> QED BY <1>1, <2>1, FS_Subset, FS_CardinalityType
<1>3. \A i : Below(i) \in SUBSET K /\ IsFiniteSet(Below(i)) /\ C(i) \in Nat /\ C(i) <= Cardinality(K)
  BY <1>2, FS_Subset, FS_CardinalityType
<1>4. ASSUME NEW i \in K, NEW j \in K, i < j PROVE C(i) < C(j)
  <2>1. Below(i) \in SUBSET Below(j) /\ j \in Below(j) /\ j \notin Below(i)
    BY <1>1, <1>4
  <2> HIDE DEF Below
  <2>2. C(i) <= C(j) /\ (C(i) = C(j) => Below(i) = Below(j))
    BY <1>3, <2>1, FS_Subset
  <2> QED BY <1>3, <2>1, <2>2
<1>5. C(n) >= 1
  <2>1. n \in Below(n)
    BY <1>1
  <2> HIDE DEF Below
  <2>2. C(n) # 0
    BY <1>3, <2>1, FS_EmptySet
  <2> QED BY <1>3, <2>2
<1>6. C(n) \in 1 .. Cardinality(K)
  <2> HIDE DEF C, Below
  <2>1. C(n) \in Nat /\ C(n) <= Cardinality(K)
    BY <1>3
  <2> QED BY <1>2, <1>5, <2>1
<1>7. PICK m \in K : KeepAt(list, K)[C(n)] = list[m] /\ C(m) = C(n)
  <2>1. PlacesOf(list, K)
    BY KeptOnce
  <2> QED BY <1>6, <2>1 DEF PlacesOf
<1>8. m = n
  <2> HIDE DEF C, Below
  <2>1. C(m) \in Nat /\ C(n) \in Nat /\ C(m) = C(n)
    BY <1>3, <1>7
  <2>2. ~(m < n) /\ ~(n < m)
    <3>1. m < n => C(m) < C(n)
      BY <1>4
    <3>2. n < m => C(n) < C(m)
      BY <1>4
    <3> QED BY <2>1, <3>1, <3>2
  <2> QED BY <1>1, <2>2
<1> QED BY <1>6, <1>7, <1>8

-----------------------------------------------------------------------------
(* VersionTests.                                                           *)

(* A list from which one element has been kept out has no new doubles.     *)
LEMMA KeptDoublesNone ==
    ASSUME NEW S, NEW list \in Seq(S), NEW K \in SUBSET DOMAIN list
    PROVE  KeepAt(list, K) \in Seq(S) /\ Doubled(KeepAt(list, K)) \subseteq Doubled(list)
<1> DEFINE kept == KeepAt(list, K)
<1>1. kept \in Seq(S) /\ Len(kept) = Cardinality(K) /\ Cardinality(K) \in Nat
  BY KeptOnce
<1>2. DOMAIN kept = 1 .. Cardinality(K)
  BY <1>1
<1>5. PlacesOf(list, K)
  BY KeptOnce
<1>3. \A i \in DOMAIN kept : \E n \in K : kept[i] = list[n] /\ Cardinality(K \cap (1 .. n)) = i
  BY <1>2, <1>5 DEF PlacesOf
<1> HIDE DEF kept
<1>4. ASSUME NEW i \in DOMAIN kept,
             kept[i] = Itself \/ \E k \in DOMAIN kept : k # i /\ kept[k] = kept[i]
      PROVE  kept[i] \in Doubled(list)
  <2>1. PICK n \in K : kept[i] = list[n] /\ Cardinality(K \cap (1 .. n)) = i
    BY <1>3
  <2>2. CASE kept[i] = Itself
    BY <2>1, <2>2 DEF Doubled
  <2>3. ASSUME NEW k \in DOMAIN kept, k # i, kept[k] = kept[i] PROVE kept[i] \in Doubled(list)
    <3>1. PICK m \in K : kept[k] = list[m] /\ Cardinality(K \cap (1 .. m)) = k
      BY <1>3
    <3>2. m # n
      BY <2>1, <2>3, <3>1
    <3> QED BY <2>1, <2>3, <3>1, <3>2 DEF Doubled
  <2> QED BY <1>4, <2>2, <2>3
<1>6. Doubled(kept) \subseteq Doubled(list)
  BY <1>4 DEF Doubled
<1> QED BY <1>1, <1>6 DEF kept

(* Nor has one to which a URN is added that it does not name.              *)
LEMMA AppendedDoublesNone ==
    ASSUME NEW S, NEW list \in Seq(S), NEW e \in S, e \notin Urns(list), e # Itself
    PROVE  Append(list, e) \in Seq(S) /\ Doubled(Append(list, e)) \subseteq Doubled(list)
<1> DEFINE app == Append(list, e)
           N == Len(list)
<1>1. app \in Seq(S) /\ DOMAIN app = 1 .. (N + 1) /\ app[N + 1] = e /\ N \in Nat
      /\ DOMAIN list = 1 .. N /\ \A i \in 1 .. N : app[i] = list[i] /\ list[i] # e
  BY DEF Urns
<1> HIDE DEF app, N
<1>2. ASSUME NEW i \in DOMAIN app,
             app[i] = Itself \/ \E k \in DOMAIN app : k # i /\ app[k] = app[i]
      PROVE  app[i] \in Doubled(list)
  <2>1. CASE i \in 1 .. N
    <3>1. CASE app[i] = Itself
      BY <1>1, <2>1, <3>1 DEF Doubled
    <3>2. ASSUME NEW k \in DOMAIN app, k # i, app[k] = app[i] PROVE app[i] \in Doubled(list)
      <4>1. k \in 1 .. N
        BY <1>1, <2>1, <3>2
      <4> QED BY <1>1, <2>1, <3>2, <4>1 DEF Doubled
    <3> QED BY <1>2, <3>1, <3>2
  <2>2. CASE i = N + 1
    <3>1. ASSUME NEW k \in DOMAIN app, k # i PROVE app[k] # e
      <4>1. k \in 1 .. N
        BY <1>1, <2>2, <3>1
      <4> QED BY <1>1, <4>1
    <3> QED BY <1>1, <1>2, <2>2, <3>1
  <2> QED BY <1>1, <2>1, <2>2
<1>3. Doubled(app) \subseteq Doubled(list)
  BY <1>2 DEF Doubled
<1> QED BY <1>1, <1>3 DEF app

(* The position a new test would get is above those there are.             *)
LEMMA NextSeqIsAbove ==
    ASSUME NEW N \in Nat, \A t \in tests : t.seq \in Nat /\ t.seq < N
    PROVE  /\ NextTestSeq \in Nat /\ NextTestSeq <= N
           /\ \A t \in tests : t.seq < NextTestSeq
<1>1. CASE tests = {}
  BY <1>1 DEF NextTestSeq
<1>2. CASE tests # {}
  <2> DEFINE S == {t.seq : t \in tests}
  <2>1. S \in SUBSET (0 .. N) /\ S # {} /\ \A s \in S : s \in Nat /\ s < N
    BY <1>2
  <2>2. \A t \in tests : t.seq \in S
    OBVIOUS
  <2>3. NextTestSeq = Max(S) + 1
    BY <1>2 DEF NextTestSeq
  <2> HIDE DEF S
  <2>4. \E x \in S : \A y \in S : x >= y
    BY <2>1, GreatestNat
  <2>5. Max(S) \in S /\ \A y \in S : Max(S) >= y
    BY <2>4 DEF Max
  <2>6. Max(S) \in Nat /\ Max(S) < N /\ \A y \in S : y \in Nat
    BY <2>1, <2>5
  <2> QED BY <2>2, <2>3, <2>5, <2>6
<1> QED BY <1>1, <1>2

EditorRecords == [next : {"none", "insert", "write"}, seq : Nat, seen : SUBSET Nat,
                  list : Seq(URNs)]

(* What a request carries: rows and a position it has read, or a list.     *)
EditorKnows(q, rows, last, typed) ==
    /\ q.seq <= last
    /\ q.seen \subseteq 1 .. last
    /\ \A t \in rows : t.id \in q.seen => t.seq < q.seq
    /\ Doubled(q.list) \subseteq typed

(* Ids are handed out upwards, and no row has seen one handed out later.   *)
TestsInv ==
    /\ lastTest \in Nat
    /\ \A t \in tests : /\ t.id \in 1 .. lastTest /\ t.after \subseteq 1 .. lastTest
                        /\ t.seq \in Nat /\ t.seq < lastTest
    /\ TestsListedAsAdded
    /\ deps \in Seq(URNs) /\ Doubled(deps) \subseteq mistyped /\ mistyped \subseteq URNs
    /\ editor \in [Editors -> EditorRecords]
    /\ \A r \in Editors : EditorKnows(editor[r], tests, lastTest, mistyped)

LEMMA EditorIdleKnows ==
    /\ EditorIdle \in EditorRecords
    /\ Doubled(<< >>) = {}
    /\ \A rows, typed : \A last \in Nat : EditorKnows(EditorIdle, rows, last, typed)
<1>1. Doubled(<< >>) = {}
  BY DEF Doubled
<1> QED BY <1>1 DEF EditorIdle, EditorRecords, EditorKnows

LEMMA EditorMovesKeepInv ==
    ASSUME TestsInv, NEW r \in Editors, NEW q \in EditorRecords,
           EditorKnows(q, tests, lastTest, mistyped'),
           mistyped \subseteq mistyped', mistyped' \subseteq URNs,
           editor' = [editor EXCEPT ![r] = q], UNCHANGED <<tests, lastTest, deps>>
    PROVE  TestsInv'
<1>1. editor' \in [Editors -> EditorRecords]
  BY DEF TestsInv
<1>2. \A s \in Editors : EditorKnows(editor'[s], tests, lastTest, mistyped')
  BY DEF TestsInv, EditorKnows
<1> QED BY <1>1, <1>2 DEF TestsInv, TestsListedAsAdded, ListedBefore

LEMMA ListReadKeepsInv ==
    ASSUME TestsInv, NEW r \in Editors, NEW list \in Seq(URNs), ListRead(r, list),
           mistyped \subseteq mistyped', mistyped' \subseteq URNs,
           Doubled(list) \subseteq mistyped'
    PROVE  TestsInv'
<1> DEFINE q == [EditorIdle EXCEPT !.next = "write", !.list = list]
<1>1. q \in EditorRecords /\ q.seq = 0 /\ q.seen = {} /\ q.list = list
  BY DEF EditorIdle, EditorRecords
<1>2. editor' = [editor EXCEPT ![r] = q] /\ UNCHANGED <<tests, lastTest, deps>>
  BY DEF ListRead
<1> HIDE DEF q
<1>3. EditorKnows(q, tests, lastTest, mistyped')
  BY <1>1 DEF EditorKnows, TestsInv
<1> QED BY <1>1, <1>2, <1>3, EditorMovesKeepInv

LEMMA ListWriteKeepsInv ==
    ASSUME TestsInv, NEW r \in Editors, NEW list \in Seq(URNs), ListWrite(r, list),
           Doubled(list) \subseteq Doubled(deps)
    PROVE  TestsInv'
<1>1. mistyped' = mistyped /\ mistyped \subseteq URNs /\ Doubled(deps) \subseteq mistyped
  BY DEF ListWrite, TestsInv
<1> QED BY <1>1, ListReadKeepsInv DEF ListWrite

LEMMA TestsInvKept == TestsInv /\ [TestsNext]_testVars => TestsInv'
<1> SUFFICES ASSUME TestsInv, [TestsNext]_testVars PROVE TestsInv'
  OBVIOUS
<1>0. /\ lastTest \in Nat /\ deps \in Seq(URNs) /\ Doubled(deps) \subseteq mistyped
      /\ mistyped \subseteq URNs
      /\ editor \in [Editors -> EditorRecords]
      /\ \A t \in tests : /\ t.id \in 1 .. lastTest /\ t.after \subseteq 1 .. lastTest
                          /\ t.seq \in Nat /\ t.seq < lastTest
  BY DEF TestsInv
<1>1. ASSUME NEW r \in Editors, AddVersionCondition(r) PROVE TestsInv'
  <2> DEFINE ids == {t.id : t \in tests}
             n == NextTestSeq
             q == [EditorIdle EXCEPT !.next = "insert", !.seq = n, !.seen = ids]
  <2>1. /\ NextTestSeq \in Nat /\ NextTestSeq <= lastTest
        /\ \A t \in tests : t.seq < NextTestSeq
    BY <1>0, NextSeqIsAbove
  <2>2. {t.id : t \in tests} \in SUBSET Nat /\ {t.id : t \in tests} \subseteq 1 .. lastTest
    BY <1>0
  <2>3. q \in EditorRecords /\ q.seq = n /\ q.seen = ids /\ q.list = << >>
    <3>1. ids \in SUBSET Nat /\ n \in Nat
      BY <2>1, <2>2
    <3> HIDE DEF ids, n
    <3>2. q.seq = n /\ q.seen = ids /\ q.list = << >> /\ q.next = "insert"
      BY DEF EditorIdle
    <3>3. q \in EditorRecords
      BY <3>1, EditorIdleKnows DEF EditorRecords
    <3> QED BY <3>2, <3>3
  <2>4. editor' = [editor EXCEPT ![r] = q] /\ UNCHANGED <<tests, lastTest, deps, mistyped>>
    BY <1>1 DEF AddVersionCondition
  <2> HIDE DEF q
  <2>5. Doubled(q.list) = {}
    BY <2>3, EditorIdleKnows
  <2>6. EditorKnows(q, tests, lastTest, mistyped)
    BY <2>1, <2>2, <2>3, <2>5 DEF EditorKnows
  <2> QED BY <1>0, <2>3, <2>4, <2>6, EditorMovesKeepInv
<1>2. ASSUME NEW r \in Editors, CreateVersionCondition(r) PROVE TestsInv'
  <2> DEFINE e == editor[r]
             row == [id |-> lastTest + 1, seq |-> e.seq, after |-> e.seen]
  <2>1. /\ e \in EditorRecords /\ e.seq \in Nat /\ e.seq <= lastTest /\ e.seen \subseteq 1 .. lastTest
        /\ \A t \in tests : t.id \in e.seen => t.seq < e.seq
    BY <1>0 DEF TestsInv, EditorKnows, EditorRecords
  <2>2. /\ lastTest' = lastTest + 1 /\ tests' = tests \cup {row} /\ deps' = deps
        /\ mistyped' = mistyped
        /\ editor' = [editor EXCEPT ![r] = EditorIdle]
    BY <1>2 DEF CreateVersionCondition, EditorDone
  <2>3. row.id = lastTest + 1 /\ row.seq = e.seq /\ row.after = e.seen
    OBVIOUS
  <2> HIDE DEF e, row
  <2>4. /\ lastTest' \in Nat
        /\ \A t \in tests' : /\ t.id \in 1 .. lastTest' /\ t.after \subseteq 1 .. lastTest'
                             /\ t.seq \in Nat /\ t.seq < lastTest'
    BY <1>0, <2>1, <2>2, <2>3
  <2>5. ASSUME NEW t \in tests', NEW u \in tests', t.id \in u.after PROVE t.seq < u.seq
    <3>1. u.after \subseteq 1 .. lastTest
      BY <1>0, <2>1, <2>2, <2>3
    <3>2. t \in tests
      BY <1>0, <2>2, <2>3, <2>5, <3>1
    <3>3. CASE u \in tests
      BY <2>5, <3>2, <3>3 DEF TestsInv, TestsListedAsAdded, ListedBefore
    <3>4. CASE u = row
      BY <2>1, <2>3, <2>5, <3>2, <3>4
    <3> QED BY <2>2, <3>3, <3>4
  <2>6. editor' \in [Editors -> EditorRecords]
    BY <1>0, <2>2, EditorIdleKnows
  <2>7. ASSUME NEW s \in Editors PROVE EditorKnows(editor'[s], tests', lastTest', mistyped)
    <3>1. EditorKnows(editor[s], tests, lastTest, mistyped) /\ editor[s].seq \in Nat
      BY <1>0 DEF TestsInv, EditorRecords
    <3>2. EditorKnows(editor[s], tests', lastTest', mistyped)
      <4> DEFINE d == editor[s]
      <4>1. d.seq \in Nat /\ d.seq <= lastTest /\ d.seen \subseteq 1 .. lastTest
            /\ (\A t \in tests : t.id \in d.seen => t.seq < d.seq)
            /\ Doubled(d.list) \subseteq mistyped
        BY <3>1 DEF EditorKnows
      <4> HIDE DEF d
      <4>2. d.seq <= lastTest' /\ d.seen \subseteq 1 .. lastTest'
            /\ \A t \in tests' : t.id \in d.seen => t.seq < d.seq
        BY <1>0, <2>2, <2>3, <4>1
      <4>3. EditorKnows(d, tests', lastTest', mistyped)
        BY <4>1, <4>2 DEF EditorKnows
      <4> QED BY <4>3 DEF d
    <3>3. CASE s = r
      BY <1>0, <2>2, <2>4, <3>3, EditorIdleKnows
    <3>4. CASE s # r
      BY <1>0, <2>2, <3>2, <3>4
    <3> QED BY <3>3, <3>4
  <2> QED BY <1>0, <2>2, <2>4, <2>5, <2>6, <2>7 DEF TestsInv, TestsListedAsAdded, ListedBefore
<1>3. ASSUME NEW r \in Editors, NEW urn \in URNs,
             PolicyModuleDependencyAddURN(r, urn)
      PROVE  TestsInv'
  <2>1. urn # Itself /\ urn \notin Urns(deps) /\ ListWrite(r, Append(deps, urn))
    BY <1>3 DEF PolicyModuleDependencyAddURN, Dependable
  <2>2. Append(deps, urn) \in Seq(URNs) /\ Doubled(Append(deps, urn)) \subseteq Doubled(deps)
    BY <1>0, <2>1, AppendedDoublesNone
  <2> QED BY <2>1, <2>2, ListWriteKeepsInv
<1>4. ASSUME NEW r \in Editors, NEW urn \in URNs,
             PolicyModuleDependencyRemoveURN(r, urn)
      PROVE  TestsInv'
  <2> DEFINE K == {n \in DOMAIN deps : deps[n] # urn}
  <2>1. K \in SUBSET DOMAIN deps
    OBVIOUS
  <2> HIDE DEF K
  <2>2. KeepAt(deps, K) \in Seq(URNs) /\ Doubled(KeepAt(deps, K)) \subseteq Doubled(deps)
    BY <1>0, <2>1, KeptDoublesNone
  <2>3. ListWrite(r, KeepAt(deps, K))
    BY <1>4 DEF PolicyModuleDependencyRemoveURN, K
  <2> QED BY <2>2, <2>3, ListWriteKeepsInv
<1>5. ASSUME NEW r \in Editors, OtherFieldEdit(r) PROVE TestsInv'
  BY <1>0, <1>5, ListWriteKeepsInv DEF OtherFieldEdit
<1>13. ASSUME NEW r \in Editors, NEW list \in TypedLists, TypeDependsOn(r, list)
       PROVE  TestsInv'
  <2>1. list \in Seq(URNs) /\ Doubled(list) \subseteq URNs
    <3>1. PICK n \in 0 .. MaxTyped : list \in [1 .. n -> URNs]
      BY <1>13 DEF TypedLists
    <3>2. n \in Nat
      BY TestConstants
    <3> QED BY <3>1, <3>2 DEF Doubled
  <2>2. ListRead(r, list) /\ mistyped' = mistyped \cup Doubled(list)
    BY <1>13 DEF TypeDependsOn
  <2> QED BY <1>0, <2>1, <2>2, ListReadKeepsInv
<1>6. ASSUME NEW r \in Editors, UpdateDraftDependsOn(r) PROVE TestsInv'
  <2>1. /\ editor[r].list \in Seq(URNs) /\ Doubled(editor[r].list) \subseteq mistyped
    BY <1>0 DEF TestsInv, EditorKnows, EditorRecords
  <2>2. /\ deps' = editor[r].list /\ editor' = [editor EXCEPT ![r] = EditorIdle]
        /\ UNCHANGED <<tests, lastTest, mistyped>>
    BY <1>6 DEF UpdateDraftDependsOn, EditorDone
  <2>3. editor' \in [Editors -> EditorRecords]
    BY <1>0, <2>2, EditorIdleKnows
  <2>4. \A s \in Editors : EditorKnows(editor'[s], tests, lastTest, mistyped)
    BY <1>0, <2>2, EditorIdleKnows DEF TestsInv
  <2> QED BY <1>0, <2>1, <2>2, <2>3, <2>4 DEF TestsInv, TestsListedAsAdded, ListedBefore
<1>7. ASSUME NEW r \in Editors, EditorFails(r) PROVE TestsInv'
  BY <1>0, <1>7, EditorIdleKnows, EditorMovesKeepInv DEF EditorFails, EditorDone
<1>8. ASSUME NEW t \in tests, RemoveVersionCondition(t) PROVE TestsInv'
  BY <1>8 DEF RemoveVersionCondition, TestsInv, TestsListedAsAdded, ListedBefore, EditorKnows
<1>9. CASE UNCHANGED <<tests, lastTest, deps, mistyped, editor>>
  BY <1>9 DEF TestsInv, TestsListedAsAdded, ListedBefore
<1>10. ASSUME NEW m, SetConditionsMatchMode(m) PROVE TestsInv'
  BY <1>9, <1>10 DEF SetConditionsMatchMode
<1>11. CASE PublishVersion
  BY <1>9, <1>11 DEF PublishVersion
<1>12. CASE UNCHANGED testVars
  BY <1>9, <1>12 DEF testVars
<1> QED
  BY <1>1, <1>2, <1>3, <1>4, <1>5, <1>6, <1>7, <1>8, <1>10, <1>11, <1>12,
     <1>13 DEF TestsNext

LEMMA TestsInvHolds == TestsSpec => []TestsInv
<1>1. TestsInit => TestsInv
  <2> SUFFICES ASSUME TestsInit PROVE TestsInv
    OBVIOUS
  <2>1. PICK n \in 0 .. MaxTyped : deps \in [1 .. n -> URNs]
    BY DEF TestsInit, TypedLists
  <2>2. n \in Nat
    BY TestConstants
  <2>3. deps \in Seq(URNs) /\ Doubled(deps) \subseteq URNs
    BY <2>1, <2>2 DEF Doubled
  <2> QED BY <2>3, EditorIdleKnows DEF TestsInit, TestsInv, TestsListedAsAdded
<1> QED BY <1>1, TestsInvKept, PTL DEF TestsSpec

(* Tests keep their order however requests read and write back, and the    *)
(* list of dependencies names no module twice, nor the module itself, but  *)
(* those that came with the draft so or were typed so into the form.       *)
THEOREM TabListsHold == TestsSpec => []EditorListsHold
<1>1. TestsInv => EditorListsHold
  BY DEF TestsInv, EditorListsHold, DoublesWereTyped
<1> QED BY <1>1, TestsInvHolds, PTL

(* What the types say beyond TestsInv.                                     *)
TestsTyped ==
    /\ open \in BOOLEAN
    /\ tests \subseteq [id : Nat, seq : Nat, after : SUBSET Nat]
    /\ lastTest <= MaxTests
    /\ mode \in {"all", "any"}

(* Rows and carried positions stay within the ids that are handed out,     *)
(* which TestsInv bounds by lastTest.                                      *)
THEOREM TestsTypeCorrect == TestsSpec => []TestsTypeOK
<1>1. TestsInit => TestsTyped
  BY TestConstants DEF TestsInit, TestsTyped
<1>2. TestsInv /\ TestsTyped /\ [TestsNext]_testVars => TestsTyped'
  <2> SUFFICES ASSUME TestsInv, TestsTyped, [TestsNext]_testVars PROVE TestsTyped'
    OBVIOUS
  <2>1. ASSUME NEW r \in Editors, CreateVersionCondition(r) PROVE TestsTyped'
    <3>1. editor[r].seq \in Nat /\ editor[r].seen \in SUBSET Nat /\ lastTest \in Nat
      BY DEF TestsInv, EditorRecords
    <3>2. [id |-> lastTest + 1, seq |-> editor[r].seq, after |-> editor[r].seen]
            \in [id : Nat, seq : Nat, after : SUBSET Nat]
      BY <3>1
    <3> QED BY <2>1, <3>1, <3>2, TestConstants DEF CreateVersionCondition, TestsTyped
  <2>2. ASSUME NEW t \in tests, RemoveVersionCondition(t) PROVE TestsTyped'
    BY <2>2 DEF RemoveVersionCondition, TestsTyped
  <2>3. ASSUME NEW m \in {"all", "any"}, SetConditionsMatchMode(m) PROVE TestsTyped'
    BY <2>3 DEF SetConditionsMatchMode, TestsTyped
  <2>4. CASE PublishVersion
    BY <2>4 DEF PublishVersion, TestsTyped
  <2>5. CASE UNCHANGED <<open, tests, lastTest, mode>>
    BY <2>5 DEF TestsTyped
  <2>6. ASSUME NEW r \in Editors,
               AddVersionCondition(r) \/ (\E list : ListRead(r, list))
                 \/ UpdateDraftDependsOn(r) \/ EditorFails(r)
        PROVE  TestsTyped'
    <3>1. ASSUME AddVersionCondition(r) PROVE TestsTyped'
      <4>1. UNCHANGED <<open, tests, lastTest, mode>>
        BY ONLY <3>1 DEF AddVersionCondition
      <4> QED BY <2>5, <4>1
    <3>2. ASSUME NEW list, ListRead(r, list) PROVE TestsTyped'
      BY <2>5, <3>2 DEF ListRead
    <3>3. ASSUME UpdateDraftDependsOn(r) \/ EditorFails(r) PROVE TestsTyped'
      BY <2>5, <3>3 DEF UpdateDraftDependsOn, EditorFails
    <3> QED BY <2>6, <3>1, <3>2, <3>3
  <2> QED BY <2>1, <2>2, <2>3, <2>4, <2>5, <2>6
          DEF TestsNext, PolicyModuleDependencyAddURN, PolicyModuleDependencyRemoveURN,
              OtherFieldEdit, TypeDependsOn, ListWrite, testVars
<1>3. TestsInv /\ TestsTyped => TestsTypeOK
  <2> SUFFICES ASSUME TestsInv, TestsTyped PROVE TestsTypeOK
    OBVIOUS
  <2>1. lastTest \in Nat /\ lastTest <= MaxTests /\ MaxTests \in Nat
    BY TestConstants DEF TestsInv, TestsTyped
  <2>2. ASSUME NEW t \in tests PROVE t \in TestRows
    <3>1. /\ t \in [id : Nat, seq : Nat, after : SUBSET Nat] /\ t.id \in 1 .. lastTest
          /\ t.after \subseteq 1 .. lastTest /\ t.seq \in Nat /\ t.seq < lastTest
      BY DEF TestsInv, TestsTyped
    <3>2. t.id \in 1 .. MaxTests /\ t.seq \in 0 .. MaxTests /\ t.after \in SUBSET (1 .. MaxTests)
      BY <2>1, <3>1
    <3> QED BY <3>1, <3>2 DEF TestRows
  <2>3. ASSUME NEW r \in Editors PROVE editor[r] \in EditorType
    <3> DEFINE q == editor[r]
    <3>1. /\ q \in EditorRecords /\ q.seq <= lastTest /\ q.seen \subseteq 1 .. lastTest
      BY DEF TestsInv, EditorKnows
    <3> HIDE DEF q
    <3>2. q.seq \in 0 .. MaxTests /\ q.seen \in SUBSET (1 .. MaxTests)
      BY <2>1, <3>1 DEF EditorRecords
    <3>3. q \in EditorType
      BY <3>1, <3>2 DEF EditorRecords, EditorType
    <3> QED BY <3>3 DEF q
  <2>4. editor \in [Editors -> EditorType]
    BY <2>3 DEF TestsInv
  <2> QED BY <2>1, <2>2, <2>4 DEF TestsTypeOK, TestsTyped, TestsInv
<1> QED BY <1>1, <1>2, <1>3, TestsInvHolds, PTL DEF TestsSpec

-----------------------------------------------------------------------------
(* ModuleTransfer.                                                         *)

ScriptMaps == UNION {[D -> Languages] : D \in SUBSET ScriptNames}

VersionRows == [state : {"none", "draft", "published", "gone"}, content : ModuleContents,
                taken : BOOLEAN]

Writing == {"scripts", "tests", "mode"}

MoverRecords ==
    [next : {"none", "number", "create", "owner", "origin", "draft"} \cup Writing,
     kind : {"import", "clone"}, sent : Seq(Exported), archive : Seq(ModuleContents),
     urn : Nat \cup {NoRow},
     row : Copies \cup {NoRow}, at : Nat, left : SUBSET (ScriptNames \cup Nat \cup {"any"}),
     lost : BOOLEAN]

(* The scripts named D of version k as a copy has them.                    *)
CopiedScripts(q, k, D) ==
    [n \in D |-> IF q.kind = "import" THEN PhaseLanguage[n] ELSE q.archive[k].scripts[n]]

(* Row v is a whole copy of version k, unless it is no draft or somebody   *)
(* has changed it.                                                         *)
WholeCopy(q, k, v) ==
    /\ v.state # "none"
    /\ v.state = "draft" /\ ~v.taken =>
         v.content = [scripts |-> CopiedScripts(q, k, DOMAIN q.archive[k].scripts),
                      tests |-> q.archive[k].tests, any |-> q.archive[k].any]

(* What is left is of the version at hand.                                 *)
LeftKnows(q) ==
    /\ q.next = "scripts" => q.left \subseteq DOMAIN q.archive[q.at].scripts
    /\ q.next = "tests" => q.left \subseteq 1 .. q.archive[q.at].tests
    /\ q.next = "mode" => q.left = {} \/ (q.left = {"any"} /\ q.archive[q.at].any)

(* Row v lacks of that version exactly what is left.                       *)
PartCopy(q, v) ==
    /\ v.state # "none"
    /\ v.state = "draft" /\ ~v.taken =>
         /\ q.next = "scripts" =>
              v.content = [scripts |-> CopiedScripts(q, q.at, DOMAIN q.archive[q.at].scripts \ q.left),
                           tests |-> 0, any |-> FALSE]
         /\ q.next = "tests" =>
              v.content = [scripts |-> CopiedScripts(q, q.at, DOMAIN q.archive[q.at].scripts),
                           tests |-> q.archive[q.at].tests - Cardinality(q.left), any |-> FALSE]
         /\ q.next = "mode" =>
              v.content = [scripts |-> CopiedScripts(q, q.at, DOMAIN q.archive[q.at].scripts),
                           tests |-> q.archive[q.at].tests,
                           any |-> IF q.left = {} THEN q.archive[q.at].any ELSE FALSE]

(* What a request knows of its row, cp its status and ve its versions.     *)
MoverKnows(q, cp, ve) ==
    /\ q.next \in {"none", "number", "create"} => q.row = NoRow
    /\ q.next \notin {"none", "number", "create"} =>
         q.row \in Copies /\ cp[q.row].status # "none"
    /\ q.next = "number" => q.urn \in Nat
    /\ q.next = "draft" => q.at # 0
    /\ DOMAIN q.archive \subseteq Slots
    /\ q.next \in Writing => q.at \in DOMAIN q.archive /\ LeftKnows(q)
    /\ q.next \in Writing \cup {"draft"} /\ ~q.lost =>
         \A k \in DOMAIN q.archive : k < q.at => WholeCopy(q, k, ve[q.row][k])
    /\ q.next \in Writing /\ ~q.lost => PartCopy(q, ve[q.row][q.at])

TransferInv ==
    /\ original \in Sources
    /\ copy \in [Copies -> [status : {"none", "created", "owned", "imported", "gone"},
                            urn : Nat \cup {NoRow}]]
    /\ version \in [Copies -> [Slots -> VersionRows]]
    /\ mover \in [Movers -> MoverRecords]
    /\ \A r \in Movers : MoverKnows(mover[r], copy, version)
    /\ \A r, s \in Movers : mover[r].row = mover[s].row /\ mover[r].row # NoRow => r = s

-----------------------------------------------------------------------------
LEMMA NoContentTyped ==
    /\ NoContent \in ModuleContents /\ NoVersion \in VersionRows
    /\ NoContent = [scripts |-> [n \in {} |-> n], tests |-> 0, any |-> FALSE]
<1>1. << >> = [n \in {} |-> n]
  OBVIOUS
<1>2. [n \in {} |-> n] \in [{} -> Languages]
  OBVIOUS
<1>3. {} \in SUBSET ScriptNames
  OBVIOUS
<1>4. NoContent \in ModuleContents
  BY <1>1, <1>2, <1>3 DEF NoContent, ModuleContents
<1> QED BY <1>1, <1>4 DEF NoContent, NoVersion, VersionRows

LEMMA MoverIdleKnows ==
    /\ MoverIdle \in MoverRecords /\ MoverIdle.row = NoRow /\ MoverIdle.next = "none"
    /\ \A cp, ve : MoverKnows(MoverIdle, cp, ve)
BY DEF MoverIdle, MoverRecords, MoverKnows, Writing

(* An export holds versions of the original.                               *)
LEMMA ExportsAreTyped ==
    ASSUME NEW m \in Sources
    PROVE  /\ m[LatestOf(m)].of \in Exported /\ 1 \in Slots
           /\ \A ks \in ExportVersionIDs(m) : /\ ExportModule(m, ks) \in Seq(Exported)
                                              /\ DOMAIN ExportModule(m, ks) \subseteq Slots
<1> DEFINE V == [state : VersionStates, of : Exported]
<1>1. m \in Seq(V) /\ m # << >>
  BY TransferConstants
<1>2. \A v \in V : v.of \in Exported
  OBVIOUS
<1>3. 1 \in DOMAIN m
  BY <1>1
<1>4. LatestOf(m) \in DOMAIN m
  BY <1>3 DEF LatestOf
<1>5. 1 \in Slots /\ DOMAIN m \subseteq Slots
  BY <1>3 DEF Slots
<1> HIDE DEF V
<1>6. m[LatestOf(m)] \in V
  BY <1>1, <1>4
<1>7. ASSUME NEW ks \in ExportVersionIDs(m)
      PROVE  /\ ExportModule(m, ks) \in Seq(Exported)
             /\ DOMAIN ExportModule(m, ks) \subseteq Slots
  <2> DEFINE chosen == KeepAt(m, ks)
  <2>1. ks \in SUBSET DOMAIN m
    BY <1>4 DEF ExportVersionIDs
  <2>2. chosen \in Seq(V) /\ Len(chosen) = Cardinality(ks) /\ Cardinality(ks) \in Nat
        /\ Cardinality(ks) <= Len(m)
    BY <1>1, <2>1, KeptOnce
  <2>3. ExportModule(m, ks) = [j \in DOMAIN chosen |-> chosen[j].of]
    BY DEF ExportModule
  <2> HIDE DEF chosen
  <2>4. DOMAIN chosen = 1 .. Len(chosen) /\ Len(chosen) \in Nat
        /\ \A j \in 1 .. Len(chosen) : chosen[j] \in V
    BY <2>2
  <2>5. \A j \in 1 .. Len(chosen) : chosen[j].of \in Exported
    BY <1>2, <2>4
  <2>6. ExportModule(m, ks) \in Seq(Exported) /\ DOMAIN ExportModule(m, ks) = 1 .. Len(chosen)
    BY <2>3, <2>4, <2>5
  <2>7. 1 .. Len(chosen) \subseteq DOMAIN m
    BY <1>1, <2>2
  <2> QED BY <1>5, <2>6, <2>7
<1> QED BY <1>2, <1>5, <1>6, <1>7

LEMMA FoundTyped ==
    ASSUME NEW content \in ModuleContents
    PROVE  FoundScripts(content) \in ModuleContents
<1> DEFINE all == content.scripts
           found == [n \in DOMAIN all \ Tangled |-> all[n]]
<1>1. all \in [DOMAIN all -> Languages] /\ DOMAIN all \in SUBSET ScriptNames
  <2>1. \A c \in ModuleContents : /\ c.scripts \in [DOMAIN c.scripts -> Languages]
                                  /\ DOMAIN c.scripts \in SUBSET ScriptNames
    BY DEF ModuleContents
  <2> QED BY <2>1
<1>2. found \in [DOMAIN all \ Tangled -> Languages] /\ DOMAIN all \ Tangled \in SUBSET ScriptNames
  BY <1>1
<1>3. FoundScripts(content) = [content EXCEPT !.scripts = found]
  BY DEF FoundScripts
<1> HIDE DEF all, found
<1>4. found \in UNION {[E -> Languages] : E \in SUBSET ScriptNames}
  BY <1>2
<1> QED BY <1>3, <1>4 DEF ModuleContents

(* What an import finds in an archive.                                     *)
FoundIn(sent) == [j \in DOMAIN ParsePmdl(sent) |-> FoundScripts(ParsePmdl(sent)[j])]

(* It has the versions that arrive, each in its place.                     *)
LEMMA FoundInPlace ==
    ASSUME NEW sent \in Seq(Exported)
    PROVE  /\ FoundIn(sent) \in Seq(ModuleContents)
           /\ DOMAIN FoundIn(sent) \subseteq DOMAIN sent
           /\ \A k \in Arrives(sent) :
                /\ PlaceIn(Arrives(sent), k) \in DOMAIN FoundIn(sent)
                /\ FoundIn(sent)[PlaceIn(Arrives(sent), k)] = FoundScripts(sent[k].content)
<1> DEFINE K == Arrives(sent)
           kept == KeepAt(sent, K)
<1>1. K \in SUBSET DOMAIN sent
  BY DEF Arrives
<1>2. /\ kept \in Seq(Exported) /\ Len(kept) = Cardinality(K) /\ Cardinality(K) \in Nat
      /\ Cardinality(K) <= Len(sent)
  BY <1>1, KeptOnce
<1>3. \A k \in K : PlaceIn(K, k) \in 1 .. Cardinality(K) /\ kept[PlaceIn(K, k)] = sent[k]
  BY <1>1, KeptInPlace DEF PlaceIn
<1>4. ParsePmdl(sent) = [j \in DOMAIN kept |-> kept[j].content]
  BY DEF ParsePmdl
<1>5. \A e \in Exported : e.content \in ModuleContents
  BY DEF Exported
<1> HIDE DEF kept, K
<1>6. DOMAIN kept = 1 .. Cardinality(K) /\ \A j \in 1 .. Cardinality(K) : kept[j] \in Exported
  BY <1>2
<1>7. /\ DOMAIN FoundIn(sent) = 1 .. Cardinality(K)
      /\ \A j \in 1 .. Cardinality(K) : FoundIn(sent)[j] = FoundScripts(kept[j].content)
  BY <1>4, <1>6 DEF FoundIn
<1>8. \A j \in 1 .. Cardinality(K) : FoundIn(sent)[j] \in ModuleContents
  BY <1>5, <1>6, <1>7, FoundTyped
<1>9. FoundIn(sent) = [j \in 1 .. Cardinality(K) |-> FoundScripts(kept[j].content)]
  BY <1>4, <1>6 DEF FoundIn
<1>10. FoundIn(sent) \in Seq(ModuleContents)
  BY <1>2, <1>7, <1>8, <1>9
<1>11. 1 .. Cardinality(K) \subseteq DOMAIN sent
  BY <1>2
<1>12. \A k \in K : FoundIn(sent)[PlaceIn(K, k)] = FoundScripts(sent[k].content)
  BY <1>3, <1>7
<1> QED BY <1>3, <1>7, <1>10, <1>11, <1>12 DEF K

-----------------------------------------------------------------------------
(* What others may do to the row of a version.                             *)
StaysOrTaken(v, w) ==
    /\ v.state # "none" => w.state # "none"
    /\ v.state # "none" /\ w.state = "draft" /\ ~w.taken => w = v

(* A request goes on knowing what it knows.                                *)
LEMMA MoverKnowsOn ==
    ASSUME NEW q \in MoverRecords, NEW cp, NEW ve, NEW cq, NEW we, MoverKnows(q, cp, ve),
           q.row \in Copies /\ cp[q.row].status # "none" => cq[q.row].status # "none",
           q.row \in Copies => \A k \in Slots : StaysOrTaken(ve[q.row][k], we[q.row][k])
    PROVE  MoverKnows(q, cq, we)
<1>1. \A k \in Slots : q.row \in Copies /\ WholeCopy(q, k, ve[q.row][k]) =>
                         WholeCopy(q, k, we[q.row][k])
  BY DEF WholeCopy, StaysOrTaken
<1>2. ASSUME q.next \in Writing, ~q.lost PROVE PartCopy(q, we[q.row][q.at])
  <2>1. q.row \in Copies /\ q.at \in Slots /\ PartCopy(q, ve[q.row][q.at])
    BY <1>2 DEF MoverKnows, Writing
  <2> QED BY <2>1 DEF PartCopy, StaysOrTaken
<1>3. ASSUME q.next \in Writing \cup {"draft"}, ~q.lost, NEW k \in DOMAIN q.archive, k < q.at
      PROVE  WholeCopy(q, k, we[q.row][k])
  <2>1. q.row \in Copies /\ k \in Slots /\ WholeCopy(q, k, ve[q.row][k])
    BY <1>3 DEF MoverKnows, Writing
  <2> QED BY <1>1, <2>1
<1> QED BY <1>2, <1>3 DEF MoverKnows

(* A step of one request that leaves the rows alone.                       *)
LEMMA MoverGoesKeepsInv ==
    ASSUME TransferInv, NEW r \in Movers, NEW q \in MoverRecords, MoverGoto(r, q),
           MoverKnows(q, copy, version), q.row \in {NoRow, mover[r].row},
           UNCHANGED <<original, copy, version>>
    PROVE  TransferInv'
<1>1. mover' = [mover EXCEPT ![r] = q] /\ mover \in [Movers -> MoverRecords]
  BY DEF MoverGoto, TransferInv
<1>2. mover' \in [Movers -> MoverRecords]
  BY <1>1
<1>3. \A s \in Movers : MoverKnows(mover'[s], copy, version)
  BY <1>1 DEF TransferInv
<1>4. \A s, t \in Movers : mover'[s].row = mover'[t].row /\ mover'[s].row # NoRow => s = t
  BY <1>1 DEF TransferInv
<1> QED BY <1>2, <1>3, <1>4 DEF TransferInv

LEMMA MoverDoneKeepsInv ==
    ASSUME TransferInv, NEW r \in Movers, MoverDone(r), UNCHANGED <<original, copy, version>>
    PROVE  TransferInv'
BY MoverGoesKeepsInv, MoverIdleKnows DEF MoverDone

(* A step of another than the movers.                                      *)
LEMMA OthersKeepInv ==
    ASSUME TransferInv, UNCHANGED <<original, mover>>,
           copy' \in [Copies -> [status : {"none", "created", "owned", "imported", "gone"},
                                 urn : Nat \cup {NoRow}]],
           version' \in [Copies -> [Slots -> VersionRows]],
           \A c \in Copies : /\ copy[c].status # "none" => copy'[c].status # "none"
                             /\ \A k \in Slots : StaysOrTaken(version[c][k], version'[c][k])
    PROVE  TransferInv'
<1>1. ASSUME NEW s \in Movers PROVE MoverKnows(mover[s], copy', version')
  <2> DEFINE q == mover[s]
             cq == copy'
             we == version'
  <2>1. q \in MoverRecords /\ MoverKnows(q, copy, version)
    BY DEF TransferInv
  <2>2. /\ q.row \in Copies /\ copy[q.row].status # "none" => cq[q.row].status # "none"
        /\ q.row \in Copies => \A k \in Slots : StaysOrTaken(version[q.row][k], we[q.row][k])
    OBVIOUS
  <2> HIDE DEF q, cq, we
  <2>3. MoverKnows(q, cq, we)
    BY <2>1, <2>2, MoverKnowsOn
  <2> QED BY <2>3 DEF q, cq, we
<1> QED BY <1>1 DEF TransferInv

-----------------------------------------------------------------------------
LEMMA StartsKeepInv ==
    ASSUME TransferInv, NEW r \in Movers,
           \/ \E ks \in ExportVersionIDs(original) : ImportModule(r, ExportModule(original, ks))
           \/ ClonePolicyModule(r)
    PROVE  TransferInv'
<1>1. ASSUME NEW sent \in Seq(Exported), NEW archive \in Seq(ModuleContents),
             DOMAIN archive \subseteq Slots, NEW q,
             \/ q = [MoverIdle EXCEPT !.next = "number", !.kind = "import", !.sent = sent,
                                      !.archive = archive, !.urn = 1]
             \/ q = [MoverIdle EXCEPT !.next = "create", !.kind = "clone", !.urn = NoRow,
                                      !.sent = sent, !.archive = archive]
      PROVE  q \in MoverRecords /\ MoverKnows(q, copy, version) /\ q.row = NoRow
  <2>0. MoverIdle \in MoverRecords /\ MoverIdle.row = NoRow
    BY MoverIdleKnows
  <2>1. CASE q = [MoverIdle EXCEPT !.next = "number", !.kind = "import", !.sent = sent,
                                   !.archive = archive, !.urn = 1]
    <3>1. /\ q \in MoverRecords /\ q.row = NoRow /\ q.next = "number" /\ q.archive = archive
          /\ q.urn = 1
      BY <2>0, <2>1 DEF MoverRecords
    <3> QED BY <1>1, <3>1 DEF MoverKnows, Writing
  <2>2. CASE q = [MoverIdle EXCEPT !.next = "create", !.kind = "clone", !.urn = NoRow,
                                   !.sent = sent, !.archive = archive]
    <3>1. q \in MoverRecords /\ q.row = NoRow /\ q.next = "create" /\ q.archive = archive
      BY <2>0, <2>2 DEF MoverRecords
    <3> QED BY <1>1, <3>1 DEF MoverKnows, Writing
  <2> QED BY <1>1, <2>1, <2>2
<1>2. original \in Sources
  BY DEF TransferInv
<1>3. CASE \E ks \in ExportVersionIDs(original) : ImportModule(r, ExportModule(original, ks))
  <2>1. PICK ks \in ExportVersionIDs(original) : ImportModule(r, ExportModule(original, ks))
    BY <1>3
  <2> DEFINE sent == ExportModule(original, ks)
             archive == FoundIn(sent)
             q == [MoverIdle EXCEPT !.next = "number", !.kind = "import", !.sent = sent,
                                    !.archive = archive, !.urn = 1]
  <2>2. MoverGoto(r, q) /\ UNCHANGED <<original, copy, version>>
    BY <2>1 DEF ImportModule, FoundIn
  <2>3. sent \in Seq(Exported) /\ DOMAIN sent \subseteq Slots
    BY <1>2, ExportsAreTyped
  <2> HIDE DEF sent
  <2>4. archive \in Seq(ModuleContents) /\ DOMAIN archive \subseteq Slots
    BY <2>3, FoundInPlace
  <2> HIDE DEF archive
  <2>5. q \in MoverRecords /\ MoverKnows(q, copy, version) /\ q.row = NoRow
    BY <1>1, <2>3, <2>4
  <2> HIDE DEF q
  <2> QED BY <2>2, <2>5, MoverGoesKeepsInv
<1>4. CASE ClonePolicyModule(r)
  <2> DEFINE latest == original[LatestOf(original)].of
             sent == <<latest>>
             archive == <<latest.content>>
             q == [MoverIdle EXCEPT !.next = "create", !.kind = "clone", !.urn = NoRow,
                                    !.sent = sent, !.archive = archive]
  <2>2. MoverGoto(r, q) /\ UNCHANGED <<original, copy, version>>
    BY <1>4 DEF ClonePolicyModule
  <2>3. latest \in Exported /\ 1 \in Slots
    BY <1>2, ExportsAreTyped
  <2> HIDE DEF latest
  <2>4. sent \in Seq(Exported) /\ archive \in Seq(ModuleContents) /\ DOMAIN archive = {1}
    BY <2>3 DEF Exported
  <2> HIDE DEF sent, archive
  <2>5. q \in MoverRecords /\ MoverKnows(q, copy, version) /\ q.row = NoRow
    BY <1>1, <2>3, <2>4
  <2> HIDE DEF q
  <2> QED BY <2>2, <2>5, MoverGoesKeepsInv
<1> QED BY <1>3, <1>4

LEMMA CandidateKeepsInv ==
    ASSUME TransferInv, NEW r \in Movers, ImportCandidate(r)
    PROVE  TransferInv'
<1> DEFINE q == mover[r]
           w == IF URNTaken(q.urn) THEN [q EXCEPT !.urn = @ + 1] ELSE [q EXCEPT !.next = "create"]
<1>1. q \in MoverRecords /\ MoverKnows(q, copy, version)
  BY DEF TransferInv
<1>2. q.next = "number" /\ MoverGoto(r, w) /\ UNCHANGED <<original, copy, version>>
  BY DEF ImportCandidate, MoverAt
<1>3. q.urn \in Nat
  BY <1>1, <1>2 DEF MoverKnows
<1>4. /\ w \in MoverRecords /\ w.row = q.row /\ w.next \in {"number", "create"}
      /\ w.archive = q.archive /\ w.urn \in Nat
  <2> HIDE DEF q
  <2>1. q.urn + 1 \in Nat
    BY <1>3
  <2>2. CASE URNTaken(q.urn)
    BY <1>1, <1>2, <2>1, <2>2 DEF MoverRecords
  <2>3. CASE ~URNTaken(q.urn)
    BY <1>1, <1>2, <1>3, <2>3 DEF MoverRecords
  <2> QED BY <2>2, <2>3
<1> HIDE DEF w, q
<1>5. MoverKnows(w, copy, version) /\ w.row \in {NoRow, q.row}
  BY <1>1, <1>2, <1>4 DEF MoverKnows, Writing
<1> QED BY <1>2, <1>4, <1>5, MoverGoesKeepsInv DEF q

LEMMA CreateKeepsInv ==
    ASSUME TransferInv, NEW r \in Movers, NEW c \in Copies, CreateModule(r, c)
    PROVE  TransferInv'
<1> DEFINE q == mover[r]
           w == [q EXCEPT !.next = "owner", !.row = c]
           new == [status |-> "created", urn |-> q.urn]
<1>1. q \in MoverRecords /\ MoverKnows(q, copy, version) /\ mover \in [Movers -> MoverRecords]
  BY DEF TransferInv
<1>2. /\ q.next = "create" /\ copy[c].status = "none" /\ copy' = [copy EXCEPT ![c] = new]
      /\ mover' = [mover EXCEPT ![r] = w] /\ UNCHANGED <<original, version>>
  BY DEF CreateModule, MoverAt, MoverGoto, NoCopy
<1>3. /\ w \in MoverRecords /\ w.row = c /\ w.next = "owner" /\ w.archive = q.archive
  BY <1>1 DEF MoverRecords
<1>4. new \in [status : {"none", "created", "owned", "imported", "gone"}, urn : Nat \cup {NoRow}]
      /\ new.status = "created"
  BY <1>1 DEF MoverRecords
<1>5. NoRow # c
  BY TransferConstants
<1> HIDE DEF w, new
<1>6. copy' \in [Copies -> [status : {"none", "created", "owned", "imported", "gone"},
                            urn : Nat \cup {NoRow}]]
      /\ copy'[c].status = "created" /\ \A d \in Copies \ {c} : copy'[d] = copy[d]
  BY <1>2, <1>4 DEF TransferInv
<1>7. DOMAIN w.archive \subseteq Slots
  BY <1>1, <1>3 DEF MoverKnows
<1>8. MoverKnows(w, copy', version)
  BY <1>3, <1>6, <1>7 DEF MoverKnows, Writing
<1>9. ASSUME NEW s \in Movers, s # r
      PROVE  MoverKnows(mover[s], copy', version) /\ mover[s].row # c
  <2> DEFINE p == mover[s]
             cq == copy'
  <2>1. p \in MoverRecords /\ MoverKnows(p, copy, version)
    BY DEF TransferInv
  <2>2. p.row # c
    <3>1. p.row \in Copies => p.row # NoRow
      BY TransferConstants
    <3> HIDE DEF p
    <3> QED BY <1>2, <1>5, <2>1, <3>1 DEF MoverKnows
  <2>3. p.row \in Copies /\ copy[p.row].status # "none" => cq[p.row].status # "none"
    BY <1>6, <2>2
  <2>4. \A k \in Slots : StaysOrTaken(version[p.row][k], version[p.row][k])
    BY DEF StaysOrTaken
  <2> HIDE DEF p, cq
  <2>5. MoverKnows(p, cq, version)
    BY <2>1, <2>3, <2>4, MoverKnowsOn
  <2> QED BY <2>2, <2>5 DEF p, cq
<1>10. \A s \in Movers : s # r => mover'[s] = mover[s]
  BY <1>1, <1>2
<1>11. mover'[r] = w /\ mover' \in [Movers -> MoverRecords]
  BY <1>1, <1>2, <1>3
<1>12. \A s \in Movers : MoverKnows(mover'[s], copy', version)
  BY <1>8, <1>9, <1>10, <1>11
<1>13. \A s, t \in Movers : mover'[s].row = mover'[t].row /\ mover'[s].row # NoRow => s = t
  BY <1>3, <1>9, <1>10, <1>11 DEF TransferInv
<1> QED BY <1>2, <1>6, <1>11, <1>12, <1>13 DEF TransferInv

LEMMA StatusKeepsInv ==
    ASSUME TransferInv, NEW r \in Movers, NEW from \in {"owner", "origin"},
           NEW status \in {"owned", "imported"}, NEW next \in {"origin", "draft"},
           SetCopyStatus(r, from, status, next)
    PROVE  TransferInv'
<1> DEFINE q == mover[r]
           w == [q EXCEPT !.next = next, !.at = IF next = "draft" THEN 1 ELSE 0]
           c == q.row
<1>1. q \in MoverRecords /\ MoverKnows(q, copy, version) /\ mover \in [Movers -> MoverRecords]
  BY DEF TransferInv
<1>2. /\ q.next = from /\ UNCHANGED <<original, version>>
      /\ copy' = [copy EXCEPT ![c].status = IF @ = "gone" THEN @ ELSE status]
      /\ mover' = [mover EXCEPT ![r] = w]
  BY DEF SetCopyStatus, MoverAt, MoverGoto
<1>3. /\ w \in MoverRecords /\ w.row = c /\ w.next = next /\ w.archive = q.archive
      /\ w.at = IF next = "draft" THEN 1 ELSE 0
  BY <1>1 DEF MoverRecords
<1>4. c \in Copies /\ copy[c].status # "none" /\ DOMAIN q.archive \subseteq Slots
  BY <1>1, <1>2 DEF MoverKnows
<1>5. /\ copy' \in [Copies -> [status : {"none", "created", "owned", "imported", "gone"},
                               urn : Nat \cup {NoRow}]]
      /\ \A d \in Copies : copy[d].status # "none" => copy'[d].status # "none"
  BY <1>2, <1>4 DEF TransferInv
<1> HIDE DEF w
<1>6. MoverKnows(w, copy', version)
  <2>1. \A k \in DOMAIN w.archive : ~(k < 1)
    <3>1. w.archive \in Seq(ModuleContents)
      BY <1>3 DEF MoverRecords
    <3> QED BY <3>1
  <2> QED BY <1>3, <1>4, <1>5, <2>1 DEF MoverKnows, Writing
<1>7. ASSUME NEW s \in Movers PROVE MoverKnows(mover[s], copy', version)
  <2> DEFINE p == mover[s]
             cq == copy'
  <2>1. p \in MoverRecords /\ MoverKnows(p, copy, version)
    BY DEF TransferInv
  <2>2. p.row \in Copies /\ copy[p.row].status # "none" => cq[p.row].status # "none"
    BY <1>5
  <2>3. \A k \in Slots : StaysOrTaken(version[p.row][k], version[p.row][k])
    BY DEF StaysOrTaken
  <2> HIDE DEF p, cq
  <2>4. MoverKnows(p, cq, version)
    BY <2>1, <2>2, <2>3, MoverKnowsOn
  <2> QED BY <2>4 DEF p, cq
<1>8. mover'[r] = w /\ mover' \in [Movers -> MoverRecords]
      /\ \A s \in Movers : s # r => mover'[s] = mover[s]
  BY <1>1, <1>2, <1>3
<1>9. \A s, t \in Movers : mover'[s].row = mover'[t].row /\ mover'[s].row # NoRow => s = t
  BY <1>3, <1>8 DEF TransferInv
<1> QED BY <1>2, <1>5, <1>6, <1>7, <1>8, <1>9 DEF TransferInv

-----------------------------------------------------------------------------
(* A step of one request that writes its own row.                          *)
LEMMA OwnWriteKeepsInv ==
    ASSUME TransferInv, NEW r \in Movers, NEW q \in MoverRecords, MoverGoto(r, q),
           mover[r].row \in Copies, q.row = mover[r].row,
           NEW k \in Slots, NEW v \in VersionRows,
           version' = [version EXCEPT ![mover[r].row][k] = v],
           MoverKnows(q, copy, version'), UNCHANGED <<original, copy>>
    PROVE  TransferInv'
<1>1. mover' = [mover EXCEPT ![r] = q] /\ mover \in [Movers -> MoverRecords]
  BY DEF MoverGoto, TransferInv
<1>2. mover' \in [Movers -> MoverRecords] /\ mover'[r] = q
      /\ \A s \in Movers : s # r => mover'[s] = mover[s]
  BY <1>1
<1>3. version' \in [Copies -> [Slots -> VersionRows]]
      /\ \A c \in Copies : c # mover[r].row => version'[c] = version[c]
  BY DEF TransferInv
<1>4. ASSUME NEW s \in Movers, s # r PROVE MoverKnows(mover[s], copy, version')
  <2> DEFINE p == mover[s]
             we == version'
  <2>1. p \in MoverRecords /\ MoverKnows(p, copy, version)
    BY DEF TransferInv
  <2>2. mover[r].row # NoRow
    BY TransferConstants
  <2>3. p.row # mover[r].row
    BY <1>4, <2>2 DEF TransferInv
  <2>4. p.row \in Copies => \A j \in Slots : StaysOrTaken(version[p.row][j], we[p.row][j])
    BY <1>3, <2>3 DEF StaysOrTaken
  <2> HIDE DEF p, we
  <2>5. MoverKnows(p, copy, we)
    BY <2>1, <2>4, MoverKnowsOn
  <2> QED BY <2>5 DEF p, we
<1>5. \A s \in Movers : MoverKnows(mover'[s], copy, version')
  BY <1>2, <1>4
<1>6. \A s, t \in Movers : mover'[s].row = mover'[t].row /\ mover'[s].row # NoRow => s = t
  <2>1. \A s, t \in Movers : mover[s].row = mover[t].row /\ mover[s].row # NoRow => s = t
    BY DEF TransferInv
  <2>2. \A s \in Movers : mover'[s].row = mover[s].row
    BY <1>2
  <2> QED BY <2>1, <2>2
<1> QED BY <1>2, <1>3, <1>5, <1>6 DEF TransferInv

(* The version at hand of an archive.                                      *)
LEMMA AtHand ==
    ASSUME NEW q \in MoverRecords, q.at \in DOMAIN q.archive
    PROVE  /\ q.archive[q.at] \in ModuleContents /\ q.archive[q.at].tests \in Nat
           /\ q.archive[q.at].any \in BOOLEAN
           /\ DOMAIN q.archive[q.at].scripts \subseteq ScriptNames
           /\ q.archive[q.at].scripts \in [DOMAIN q.archive[q.at].scripts -> Languages]
<1>1. \A w \in ModuleContents : /\ w.tests \in Nat /\ w.any \in BOOLEAN
                          /\ DOMAIN w.scripts \subseteq ScriptNames
                          /\ w.scripts \in [DOMAIN w.scripts -> Languages]
  BY DEF ModuleContents
<1>2. q.archive \in Seq(ModuleContents)
  BY DEF MoverRecords
<1> HIDE DEF ModuleContents
<1>3. q.archive[q.at] \in ModuleContents
  BY <1>2
<1> QED BY <1>1, <1>3

LEMMA DraftKeepsInv ==
    ASSUME TransferInv, NEW r \in Movers, CopyDraft(r)
    PROVE  TransferInv'
<1> DEFINE q == mover[r]
           wanted == q.archive[q.at]
           D == DOMAIN wanted.scripts
           w == [q EXCEPT !.next = "scripts", !.left = D]
           v == [NoVersion EXCEPT !.state = "draft"]
           we == version'
<1>1. q \in MoverRecords /\ MoverKnows(q, copy, version)
  BY DEF TransferInv
<1>2. /\ q.next = "draft" /\ q.at <= Len(q.archive) /\ UNCHANGED <<original, copy>>
      /\ we = [version EXCEPT ![q.row][q.at] = v] /\ MoverGoto(r, w)
  BY DEF CopyDraft, MoverAt, Wanted
<1>3. q.row \in Copies /\ copy[q.row].status # "none" /\ DOMAIN q.archive \subseteq Slots
  BY <1>1, <1>2 DEF MoverKnows
<1>4. v \in VersionRows /\ v.state = "draft" /\ v.content = NoContent
  BY NoContentTyped DEF NoVersion, VersionRows
<1>12. version \in [Copies -> [Slots -> VersionRows]]
  BY DEF TransferInv
<1> HIDE DEF v, q, we
<1>5. q.at = 0 \/ q.at \in DOMAIN q.archive
  BY <1>1, <1>2 DEF MoverRecords
<1>6. q.at # 0
  BY <1>1, <1>2 DEF MoverKnows
<1>7. q.at \in DOMAIN q.archive /\ q.at \in Slots
  BY <1>3, <1>5, <1>6
<1>8. DOMAIN wanted.scripts \subseteq ScriptNames
  BY <1>1, <1>7, AtHand
<1>9. /\ w \in MoverRecords /\ w.next = "scripts" /\ w.left = D
      /\ w.row = q.row /\ w.at = q.at /\ w.archive = q.archive /\ w.lost = q.lost
      /\ w.kind = q.kind
  <2>1. D \in SUBSET (ScriptNames \cup Nat \cup {"any"})
    BY <1>8
  <2> HIDE DEF D
  <2> QED BY <1>1, <2>1 DEF MoverRecords, Writing
<1> HIDE DEF w
<1>10. PartCopy(w, v)
  <2>1. DOMAIN w.archive[w.at].scripts \ w.left = {}
    BY <1>9
  <2>2. CopiedScripts(w, w.at, {}) = [n \in {} |-> n]
    BY DEF CopiedScripts
  <2> QED BY <1>4, <1>9, <2>1, <2>2, NoContentTyped DEF PartCopy
<1>11. /\ we[q.row][q.at] = v
       /\ \A k \in Slots : k # q.at => we[q.row][k] = version[q.row][k]
  BY <1>2, <1>3, <1>7, <1>12
<1>13. MoverKnows(w, copy, we)
  <2>1. LeftKnows(w)
    BY <1>9 DEF LeftKnows
  <2>2. ASSUME ~q.lost, NEW k \in DOMAIN q.archive, k < q.at PROVE WholeCopy(w, k, we[q.row][k])
    <3>1. WholeCopy(q, k, version[q.row][k])
      BY <1>1, <1>2, <2>2 DEF MoverKnows
    <3>2. k \in Slots /\ k # q.at
      BY <1>1, <1>3, <2>2 DEF MoverRecords
    <3> QED BY <1>9, <1>11, <3>1, <3>2 DEF WholeCopy, CopiedScripts
  <2> QED BY <1>3, <1>7, <1>9, <1>10, <1>11, <2>1, <2>2 DEF MoverKnows, Writing
<1> QED BY <1>2, <1>3, <1>4, <1>7, <1>9, <1>13, OwnWriteKeepsInv DEF q, we

-----------------------------------------------------------------------------
(* One item less is left of the version at hand.                           *)
LeftBut(q, item) == [q EXCEPT !.left = @ \ {item}]

LEMMA LeftButTyped ==
    ASSUME NEW q \in MoverRecords, NEW item
    PROVE  /\ LeftBut(q, item) \in MoverRecords /\ LeftBut(q, item).left = q.left \ {item}
           /\ LeftBut(q, item).next = q.next /\ LeftBut(q, item).row = q.row
           /\ LeftBut(q, item).at = q.at /\ LeftBut(q, item).archive = q.archive
           /\ LeftBut(q, item).lost = q.lost /\ LeftBut(q, item).kind = q.kind
           /\ LeftBut(q, item).urn = q.urn
BY DEF LeftBut, MoverRecords

(* It is known to be left of it still.                                     *)
LEMMA LeftKnowsOn ==
    ASSUME NEW q \in MoverRecords, NEW item, LeftKnows(q)
    PROVE  LeftKnows(LeftBut(q, item))
<1> DEFINE w == LeftBut(q, item)
<1>1. w.left = q.left \ {item} /\ w.next = q.next /\ w.at = q.at /\ w.archive = q.archive
  BY LeftButTyped
<1> HIDE DEF w
<1>2. LeftKnows(w)
  BY <1>1 DEF LeftKnows
<1> QED BY <1>2 DEF w

LEMMA ItemKeepsInv ==
    ASSUME TransferInv, NEW r \in Movers, NEW item, NEW content \in ModuleContents,
           mover[r].next \in Writing, CopyItem(r, item, content),
           At(r).state = "draft" /\ ~mover[r].lost =>
             PartCopy(LeftBut(mover[r], item), [At(r) EXCEPT !.content = content])
    PROVE  TransferInv'
<1> DEFINE q == mover[r]
           w == LeftBut(q, item)
           v == version[q.row][q.at]
           u == [v EXCEPT !.content = content]
           we == version'
<1>1. q \in MoverRecords /\ MoverKnows(q, copy, version)
  BY DEF TransferInv
<1>2. /\ q.row \in Copies /\ copy[q.row].status # "none" /\ DOMAIN q.archive \subseteq Slots
      /\ q.at \in DOMAIN q.archive /\ LeftKnows(q) /\ q.at \in Slots
  BY <1>1 DEF MoverKnows, Writing
<1>3. /\ v.state = "draft" => we = [version EXCEPT ![q.row][q.at].content = content]
      /\ v.state # "draft" => we = version
      /\ MoverGoto(r, w) \/ (MoverDone(r) /\ v.state # "draft")
      /\ UNCHANGED <<original, copy>>
  BY DEF CopyItem, Writable, At, LeftBut
<1>4. /\ w \in MoverRecords /\ w.left = q.left \ {item} /\ w.next = q.next /\ w.row = q.row
      /\ w.at = q.at /\ w.archive = q.archive /\ w.lost = q.lost /\ w.kind = q.kind
      /\ w.urn = q.urn /\ LeftKnows(w)
  BY <1>1, <1>2, LeftButTyped, LeftKnowsOn
<1>5. version \in [Copies -> [Slots -> VersionRows]] /\ v \in VersionRows
  BY <1>2 DEF TransferInv
<1>6. u \in VersionRows /\ u.state = v.state
  BY <1>5 DEF VersionRows
<1>7. v.state = "draft" /\ ~q.lost => PartCopy(w, u)
  BY DEF At
<1>8. ~q.lost => PartCopy(q, v)
  BY <1>1 DEF MoverKnows
<1>9. v.state = "draft" => we = [version EXCEPT ![q.row][q.at] = u]
  BY <1>3
<1>10. ASSUME NEW vr \in VersionRows, we = [version EXCEPT ![q.row][q.at] = vr],
              ~q.lost => PartCopy(w, vr)
       PROVE  MoverKnows(w, copy, we)
  <2> HIDE DEF w, u, v, q, we
  <2>1. /\ we[q.row][q.at] = vr
        /\ \A k \in Slots : k # q.at => we[q.row][k] = version[q.row][k]
    BY <1>2, <1>5, <1>10
  <2>2. ASSUME ~q.lost, NEW k \in DOMAIN q.archive, k < q.at PROVE WholeCopy(w, k, we[q.row][k])
    <3>1. WholeCopy(q, k, version[q.row][k])
      BY <1>1, <2>2 DEF MoverKnows, Writing, q
    <3>2. k \in Slots /\ k # q.at
      BY <1>1, <1>2, <2>2 DEF MoverRecords
    <3> QED BY <1>4, <2>1, <3>1, <3>2 DEF WholeCopy, CopiedScripts
  <2>3. q.next \in Writing
    BY DEF q
  <2>4. PartCopy(w, we[w.row][w.at]) \/ q.lost
    BY <1>4, <1>10, <2>1
  <2> QED BY <1>2, <1>4, <2>2, <2>3, <2>4 DEF MoverKnows, Writing
<1>11. CASE v.state = "draft"
  <2>1. MoverGoto(r, w) /\ MoverKnows(w, copy, we)
    BY <1>3, <1>6, <1>7, <1>9, <1>10, <1>11
  <2>2. /\ mover[r].row \in Copies /\ w.row = mover[r].row /\ q.at \in Slots
        /\ w \in MoverRecords /\ u \in VersionRows /\ UNCHANGED <<original, copy>>
    BY <1>2, <1>3, <1>4, <1>6
  <2>3. version' = [version EXCEPT ![mover[r].row][q.at] = u]
    BY <1>9, <1>11
  <2>4. MoverKnows(w, copy, version')
    BY <2>1
  <2> HIDE DEF w, u, v, we
  <2> QED BY <2>1, <2>2, <2>3, <2>4, OwnWriteKeepsInv
<1>12. CASE v.state # "draft"
  <2>1. PartCopy(w, v) \/ q.lost
    BY <1>8, <1>12 DEF PartCopy
  <2>2. we = [version EXCEPT ![q.row][q.at] = v]
    BY <1>2, <1>3, <1>5, <1>12
  <2>3. MoverKnows(w, copy, we)
    BY <1>5, <1>10, <2>1, <2>2
  <2> HIDE DEF w, v
  <2>4. CASE MoverGoto(r, w)
    BY <1>2, <1>3, <1>4, <1>5, <2>2, <2>3, <2>4, OwnWriteKeepsInv
  <2>5. CASE MoverDone(r)
    BY <1>3, <1>12, <2>5, MoverDoneKeepsInv
  <2> QED BY <1>3, <2>4, <2>5
<1> QED BY <1>11, <1>12

-----------------------------------------------------------------------------
(* The row a request writes, and the version it copies.                    *)
LEMMA RowAtHand ==
    ASSUME TransferInv, NEW r \in Movers, mover[r].next \in Writing
    PROVE  /\ mover[r] \in MoverRecords /\ mover[r].at \in DOMAIN mover[r].archive
           /\ At(r) \in VersionRows /\ At(r).content \in ModuleContents /\ LeftKnows(mover[r])
           /\ ~mover[r].lost => PartCopy(mover[r], At(r))
<1> DEFINE q == mover[r]
<1>1. q \in MoverRecords /\ MoverKnows(q, copy, version)
  BY DEF TransferInv
<1>2. /\ q.row \in Copies /\ q.at \in DOMAIN q.archive /\ LeftKnows(q) /\ q.at \in Slots
      /\ ~q.lost => PartCopy(q, version[q.row][q.at])
  BY <1>1 DEF MoverKnows, Writing
<1>3. At(r) \in VersionRows
  BY <1>2 DEF TransferInv, At
<1>4. At(r).content \in ModuleContents
  BY <1>3 DEF VersionRows
<1> QED BY <1>1, <1>2, <1>3, <1>4 DEF At

Content(s, t, a) == [scripts |-> s, tests |-> t, any |-> a]
WithScripts(c, s) == [c EXCEPT !.scripts = s]
WithTests(c, t) == [c EXCEPT !.tests = t]
WithAny(c, a) == [c EXCEPT !.any = a]

(* A field of a content is written.                                        *)
LEMMA FieldWritten ==
    ASSUME NEW s, NEW t, NEW a, NEW x
    PROVE  /\ WithScripts(Content(s, t, a), x) = Content(x, t, a)
           /\ WithTests(Content(s, t, a), x) = Content(s, x, a)
           /\ WithAny(Content(s, t, a), x) = Content(s, t, x)
<1> DEFINE X == {s, t, a, x}
           c == Content(s, t, a)
<1>1. s \in X /\ t \in X /\ a \in X /\ x \in X /\ c = Content(s, t, a)
  OBVIOUS
<1> HIDE DEF X, c
<1>2. /\ WithScripts(c, x) = Content(x, t, a) /\ WithTests(c, x) = Content(s, x, a)
      /\ WithAny(c, x) = Content(s, t, x)
  BY <1>1 DEF Content, WithScripts, WithTests, WithAny
<1> QED BY <1>2 DEF c

LEMMA ScriptWritten ==
    ASSUME NEW s, NEW t, NEW x, NEW c, c = [scripts |-> s, tests |-> t, any |-> FALSE]
    PROVE  [c EXCEPT !.scripts = x] = [scripts |-> x, tests |-> t, any |-> FALSE]
<1> DEFINE a == FALSE
<1>1. c = Content(s, t, a)
  BY DEF Content
<1> HIDE DEF a
<1>2. WithScripts(c, x) = Content(x, t, a)
  <2>1. WithScripts(Content(s, t, a), x) = Content(x, t, a)
    BY FieldWritten
  <2> QED BY <1>1, <2>1
<1> QED BY <1>2 DEF a, WithScripts, Content

LEMMA TestWritten ==
    ASSUME NEW s, NEW t, NEW c, c = [scripts |-> s, tests |-> t, any |-> FALSE]
    PROVE  [c EXCEPT !.tests = @ + 1] = [scripts |-> s, tests |-> t + 1, any |-> FALSE]
<1> DEFINE a == FALSE
           x == t + 1
<1>1. c = Content(s, t, a) /\ c.tests = t
  BY DEF Content
<1>2. [c EXCEPT !.tests = @ + 1] = WithTests(c, x)
  BY <1>1 DEF WithTests
<1> HIDE DEF a, x
<1>3. WithTests(c, x) = Content(s, x, a)
  <2>1. WithTests(Content(s, t, a), x) = Content(s, x, a)
    BY FieldWritten
  <2> QED BY <1>1, <2>1
<1>4. Content(s, x, a) = [scripts |-> s, tests |-> t + 1, any |-> FALSE]
  BY DEF Content, a, x
<1> QED BY <1>2, <1>3, <1>4

LEMMA ModeWritten ==
    ASSUME NEW s, NEW t, NEW a, NEW c, c = [scripts |-> s, tests |-> t, any |-> a]
    PROVE  [c EXCEPT !.any = TRUE] = [scripts |-> s, tests |-> t, any |-> TRUE]
<1> DEFINE x == TRUE
<1>1. c = Content(s, t, a)
  BY DEF Content
<1> HIDE DEF x
<1>2. WithAny(c, x) = Content(s, t, x)
  BY <1>1, FieldWritten
<1> QED BY <1>2 DEF x, WithAny, Content

LEMMA TestKeepsInv ==
    ASSUME TransferInv, NEW r \in Movers, NEW t, CopyTest(r, t)
    PROVE  TransferInv'
<1> DEFINE q == mover[r]
           v == At(r)
           w == LeftBut(q, t)
           content == [v.content EXCEPT !.tests = @ + 1]
<1>1. q.next = "tests" /\ CopyItem(r, t, content) /\ t \in q.left
  BY DEF CopyTest, MoverAt, CopyItem
<1>2. /\ q \in MoverRecords /\ q.at \in DOMAIN q.archive /\ v \in VersionRows
      /\ v.content \in ModuleContents /\ LeftKnows(q)
      /\ ~q.lost => PartCopy(q, v)
  BY <1>1, RowAtHand DEF Writing
<1>3. q.archive[q.at].tests \in Nat
  BY <1>2, AtHand
<1>4. content \in ModuleContents
  BY <1>2 DEF ModuleContents
<1>5. /\ w.left = q.left \ {t} /\ w.next = "tests" /\ w.at = q.at /\ w.archive = q.archive
      /\ w.kind = q.kind
  BY <1>1, <1>2, LeftButTyped
<1>6. Cardinality(q.left \ {t}) = Cardinality(q.left) - 1 /\ Cardinality(q.left) \in Nat
  <2>1. q.left \subseteq 1 .. q.archive[q.at].tests
    BY <1>1, <1>2 DEF LeftKnows
  <2>2. IsFiniteSet(1 .. q.archive[q.at].tests)
    BY <1>3, FS_Interval
  <2> HIDE DEF q
  <2>3. IsFiniteSet(q.left)
    BY <2>1, <2>2, FS_Subset
  <2> QED BY <1>1, <2>3, FS_RemoveElement, FS_CardinalityType
<1> HIDE DEF q, v, w
<1>7. ASSUME v.state = "draft", ~q.lost PROVE PartCopy(w, [v EXCEPT !.content = content])
  <2> DEFINE u == [v EXCEPT !.content = content]
             S == CopiedScripts(q, q.at, DOMAIN q.archive[q.at].scripts)
             n == q.archive[q.at].tests - Cardinality(q.left)
  <2>1. u.state = "draft" /\ u.taken = v.taken /\ u.content = content
    BY <1>2, <1>7 DEF VersionRows
  <2>2. ~v.taken => v.content = [scripts |-> S, tests |-> n, any |-> FALSE]
    BY <1>1, <1>2, <1>7 DEF PartCopy
  <2>3. ~v.taken => content = [scripts |-> S, tests |-> n + 1, any |-> FALSE]
    <3> SUFFICES ASSUME ~v.taken, v.content = [scripts |-> S, tests |-> n, any |-> FALSE]
                 PROVE  content = [scripts |-> S, tests |-> n + 1, any |-> FALSE]
      BY <2>2
    <3> HIDE DEF S, n
    <3> QED BY TestWritten
  <2>4. n + 1 = q.archive[q.at].tests - Cardinality(w.left)
    BY <1>3, <1>5, <1>6
  <2>5. CopiedScripts(w, w.at, DOMAIN w.archive[w.at].scripts) = S
    BY <1>5 DEF CopiedScripts
  <2> HIDE DEF u, S, n
  <2> QED BY <1>5, <2>1, <2>3, <2>4, <2>5 DEF PartCopy, u
<1> QED BY <1>1, <1>4, <1>7, ItemKeepsInv DEF Writing, q, v, w

LEMMA ModeKeepsInv ==
    ASSUME TransferInv, NEW r \in Movers, CopyMode(r)
    PROVE  TransferInv'
<1> DEFINE q == mover[r]
           v == At(r)
           w == LeftBut(q, "any")
           content == [v.content EXCEPT !.any = TRUE]
<1>1. q.next = "mode" /\ CopyItem(r, "any", content) /\ "any" \in q.left
  BY DEF CopyMode, MoverAt, CopyItem
<1>2. /\ q \in MoverRecords /\ q.at \in DOMAIN q.archive /\ v \in VersionRows
      /\ v.content \in ModuleContents /\ LeftKnows(q)
      /\ ~q.lost => PartCopy(q, v)
  BY <1>1, RowAtHand DEF Writing
<1>4. content \in ModuleContents
  BY <1>2 DEF ModuleContents
<1>5. /\ w.left = q.left \ {"any"} /\ w.next = "mode" /\ w.at = q.at /\ w.archive = q.archive
      /\ w.kind = q.kind
  BY <1>1, <1>2, LeftButTyped
<1>6. q.left = {"any"} /\ q.archive[q.at].any /\ w.left = {}
  BY <1>1, <1>2, <1>5 DEF LeftKnows
<1>8. q.archive[q.at].any = TRUE
  <2>1. q.archive[q.at].any \in BOOLEAN
    BY <1>2, AtHand
  <2> QED BY <1>6, <2>1
<1> HIDE DEF q, v, w
<1>7. ASSUME v.state = "draft", ~q.lost PROVE PartCopy(w, [v EXCEPT !.content = content])
  <2> DEFINE u == [v EXCEPT !.content = content]
             S == CopiedScripts(q, q.at, DOMAIN q.archive[q.at].scripts)
             n == q.archive[q.at].tests
  <2>1. u.state = "draft" /\ u.taken = v.taken /\ u.content = content
    BY <1>2, <1>7 DEF VersionRows
  <2>2. ~v.taken => v.content = [scripts |-> S, tests |-> n,
                                 any |-> IF q.left = {} THEN q.archive[q.at].any ELSE FALSE]
    BY <1>1, <1>2, <1>7 DEF PartCopy
  <2>3. ~v.taken => content = [scripts |-> S, tests |-> n, any |-> TRUE]
    <3> SUFFICES ASSUME ~v.taken, NEW x,
                        v.content = [scripts |-> S, tests |-> n, any |-> x]
                 PROVE  content = [scripts |-> S, tests |-> n, any |-> TRUE]
      BY <2>2
    <3> HIDE DEF S, n
    <3> QED BY ModeWritten
  <2>5. CopiedScripts(w, w.at, DOMAIN w.archive[w.at].scripts) = S /\ w.archive[w.at].tests = n
        /\ (IF w.left = {} THEN w.archive[w.at].any ELSE FALSE) = TRUE
    BY <1>5, <1>6, <1>8 DEF CopiedScripts
  <2> HIDE DEF u, S, n
  <2> QED BY <1>5, <2>1, <2>3, <2>5 DEF PartCopy, u
<1> QED BY <1>1, <1>4, <1>7, ItemKeepsInv DEF Writing, q, v, w

LEMMA ScriptKeepsInv ==
    ASSUME TransferInv, NEW r \in Movers, NEW n \in ScriptNames, CopyScript(r, n)
    PROVE  TransferInv'
<1> DEFINE q == mover[r]
           v == At(r)
           w == LeftBut(q, n)
           old == v.content.scripts
           new == [x \in DOMAIN old \cup {n} |-> IF x = n THEN Language(r, n) ELSE old[x]]
           content == [v.content EXCEPT !.scripts = new]
           D == DOMAIN q.archive[q.at].scripts
<1>1. q.next = "scripts" /\ CopyItem(r, n, content) /\ n \in q.left /\ Acceptable(r, n)
  BY DEF CopyScript, MoverAt, CopyItem
<1>2. /\ q \in MoverRecords /\ q.at \in DOMAIN q.archive /\ v \in VersionRows
      /\ v.content \in ModuleContents /\ LeftKnows(q)
      /\ ~q.lost => PartCopy(q, v)
  BY <1>1, RowAtHand DEF Writing
<1>3. n \in D /\ q.left \subseteq D
  BY <1>1, <1>2 DEF LeftKnows
<1>4. Language(r, n) = (IF q.kind = "import" THEN PhaseLanguage[n] ELSE q.archive[q.at].scripts[n])
  BY DEF Language, Wanted
<1>5. Language(r, n) \in Languages
  <2>1. q.archive[q.at].scripts[n] \in Languages
    BY <1>2, <1>3, AtHand
  <2>2. q.kind = "import" => PhaseLanguage[n] \in Languages
    BY <1>1, TransferConstants DEF Acceptable
  <2> QED BY <1>4, <2>1, <2>2
<1>6. content \in ModuleContents
  <2>1. old \in [DOMAIN old -> Languages] /\ DOMAIN old \in SUBSET ScriptNames
    <3>1. \A c \in ModuleContents : /\ c.scripts \in [DOMAIN c.scripts -> Languages]
                              /\ DOMAIN c.scripts \in SUBSET ScriptNames
      BY DEF ModuleContents
    <3> HIDE DEF v
    <3> QED BY <1>2, <3>1
  <2>2. new \in [DOMAIN old \cup {n} -> Languages] /\ DOMAIN old \cup {n} \in SUBSET ScriptNames
    BY <1>5, <2>1
  <2> HIDE DEF new, v
  <2>3. new \in UNION {[E -> Languages] : E \in SUBSET ScriptNames}
    BY <2>2
  <2> QED BY <1>2, <2>3 DEF ModuleContents
<1>7. /\ w.left = q.left \ {n} /\ w.next = "scripts" /\ w.at = q.at /\ w.archive = q.archive
      /\ w.kind = q.kind
  BY <1>1, <1>2, LeftButTyped
<1> DEFINE L == Language(r, n)
<1> HIDE DEF q, v, w, L
<1>8. ASSUME v.state = "draft", ~q.lost PROVE PartCopy(w, [v EXCEPT !.content = content])
  <2> DEFINE u == [v EXCEPT !.content = content]
             S == CopiedScripts(q, q.at, D \ q.left)
             T == CopiedScripts(q, q.at, D \ w.left)
  <2>1. u.state = "draft" /\ u.taken = v.taken /\ u.content = content
    BY <1>2, <1>8 DEF VersionRows
  <2>2. ~v.taken => v.content = [scripts |-> S, tests |-> 0, any |-> FALSE]
    BY <1>1, <1>2, <1>8 DEF PartCopy
  <2>3. ~v.taken => content = [scripts |-> T, tests |-> 0, any |-> FALSE]
    <3> SUFFICES ASSUME ~v.taken
                 PROVE  content = [scripts |-> T, tests |-> 0, any |-> FALSE]
      OBVIOUS
    <3>1. old = S
      BY <2>2
    <3>2. (D \ q.left) \cup {n} = D \ w.left
      BY <1>1, <1>3, <1>7
    <3>3. new = T
      BY <1>4, <3>1, <3>2 DEF CopiedScripts
    <3>4. v.content = [scripts |-> S, tests |-> 0, any |-> FALSE]
      BY <2>2
    <3> HIDE DEF new, S, T
    <3>5. content = [v.content EXCEPT !.scripts = T]
      BY <3>3
    <3>6. [v.content EXCEPT !.scripts = T] = [scripts |-> T, tests |-> 0, any |-> FALSE]
      BY <3>4, ScriptWritten
    <3> QED BY <3>5, <3>6
  <2>4. CopiedScripts(w, w.at, DOMAIN w.archive[w.at].scripts \ w.left) = T
    BY <1>7 DEF CopiedScripts
  <2> HIDE DEF u, S, T
  <2> QED BY <1>7, <2>1, <2>3, <2>4 DEF PartCopy, u
<1> QED BY <1>1, <1>6, <1>8, ItemKeepsInv DEF Writing, q, v, w

-----------------------------------------------------------------------------
LEMMA LosesKeepsInv ==
    ASSUME TransferInv, NEW r \in Movers, CloneLoses(r)
    PROVE  TransferInv'
<1> DEFINE q == mover[r]
<1>1. q \in MoverRecords /\ MoverKnows(q, copy, version)
  BY DEF TransferInv
<1>2. /\ UNCHANGED <<original, copy, version>>
      /\ \/ q.next = "draft" /\ MoverGoto(r, [q EXCEPT !.at = 2, !.lost = TRUE])
         \/ \E item \in q.left : MoverGoto(r, [q EXCEPT !.left = @ \ {item}, !.lost = TRUE])
  BY DEF CloneLoses, MoverAt
<1>3. CASE q.next = "draft" /\ MoverGoto(r, [q EXCEPT !.at = 2, !.lost = TRUE])
  <2> DEFINE w == [q EXCEPT !.at = 2, !.lost = TRUE]
  <2>1. /\ w \in MoverRecords /\ w.next = "draft" /\ w.row = q.row /\ w.at = 2
        /\ w.archive = q.archive /\ w.lost /\ MoverGoto(r, w)
    BY <1>1, <1>3 DEF MoverRecords
  <2> HIDE DEF q, w
  <2>2. MoverKnows(w, copy, version)
    BY <1>1, <1>3, <2>1 DEF MoverKnows, Writing
  <2> QED BY <1>2, <2>1, <2>2, MoverGoesKeepsInv DEF q
<1>4. ASSUME NEW item \in q.left, MoverGoto(r, [q EXCEPT !.left = @ \ {item}, !.lost = TRUE])
      PROVE  TransferInv'
  <2> DEFINE w == [q EXCEPT !.left = @ \ {item}, !.lost = TRUE]
  <2>1. /\ w \in MoverRecords /\ w.next = q.next /\ w.row = q.row /\ w.at = q.at
        /\ w.left = q.left \ {item} /\ w.urn = q.urn
        /\ w.archive = q.archive /\ w.lost /\ MoverGoto(r, w)
    BY <1>1, <1>4 DEF MoverRecords
  <2> HIDE DEF q, w
  <2>2. LeftKnows(q) => LeftKnows(w)
    BY <2>1 DEF LeftKnows
  <2>3. MoverKnows(w, copy, version)
    BY <1>1, <2>1, <2>2 DEF MoverKnows
  <2> QED BY <1>2, <2>1, <2>3, MoverGoesKeepsInv DEF q
<1> QED BY <1>2, <1>3, <1>4

LEMMA GoesOnKeepsInv ==
    ASSUME TransferInv, NEW r \in Movers, CopyGoesOn(r)
    PROVE  TransferInv'
<1> DEFINE q == mover[r]
           wanted == q.archive[q.at]
           v == At(r)
           S == CopiedScripts(q, q.at, DOMAIN wanted.scripts)
<1>1. q \in MoverRecords /\ MoverKnows(q, copy, version)
  BY DEF TransferInv
<1>2. q.next \in Writing /\ q.left = {} /\ UNCHANGED <<original, copy, version>>
  BY DEF CopyGoesOn, Writing
<1>3. /\ q.at \in DOMAIN q.archive /\ v \in VersionRows /\ v.content \in ModuleContents
      /\ ~q.lost => PartCopy(q, v)
  BY <1>2, RowAtHand
<1>4. wanted.tests \in Nat /\ wanted.any \in BOOLEAN
  <2> HIDE DEF q
  <2> QED BY <1>1, <1>3, AtHand
<1>5. v = version[q.row][q.at]
  BY DEF At
<1>6. q.row \in Copies /\ copy[q.row].status # "none" /\ DOMAIN q.archive \subseteq Slots
  BY <1>1, <1>2 DEF MoverKnows, Writing
<1>7. ~q.lost => v.state # "none"
  BY <1>3 DEF PartCopy
<1>8. CASE q.next = "scripts"
  <2> DEFINE L == TestsOf(wanted)
             w == [q EXCEPT !.next = "tests", !.left = L]
  <2>1. MoverGoto(r, w)
    BY <1>8 DEF CopyGoesOn, MoverAt, Wanted
  <2>2. L = 1 .. wanted.tests /\ Cardinality(L) = wanted.tests
    <3>1. L = 1 .. wanted.tests
      BY DEF TestsOf
    <3>2. Cardinality(1 .. wanted.tests) = wanted.tests
      <4> DEFINE m == wanted.tests
      <4> HIDE DEF m
      <4>1. m \in Nat
        BY <1>4 DEF m
      <4>2. Cardinality(1 .. m) = IF 1 > m THEN 0 ELSE m - 1 + 1
        BY <4>1, FS_Interval
      <4>3. Cardinality(1 .. m) = m
        BY <4>1, <4>2
      <4> QED BY <4>3 DEF m
    <3> QED BY <3>1, <3>2
  <2>3. L \in SUBSET (ScriptNames \cup Nat \cup {"any"})
    BY <1>4, <2>2
  <2> HIDE DEF L, q
  <2>4. /\ w \in MoverRecords /\ w.next = "tests" /\ w.left = L /\ w.row = q.row /\ w.at = q.at
        /\ w.archive = q.archive /\ w.lost = q.lost /\ w.kind = q.kind
    BY <1>1, <2>3 DEF MoverRecords, Writing
  <2> HIDE DEF w, v
  <2>5. ~q.lost => PartCopy(w, v)
    <3> SUFFICES ASSUME ~q.lost, v.state = "draft", ~v.taken
                 PROVE  v.content = [scripts |-> S, tests |-> wanted.tests - Cardinality(L),
                                     any |-> FALSE]
      <4>1. CopiedScripts(w, w.at, DOMAIN w.archive[w.at].scripts) = S
        BY <2>4 DEF CopiedScripts
      <4> HIDE DEF S
      <4> QED BY <1>7, <2>4, <4>1 DEF PartCopy
    <3>1. v.content = [scripts |-> CopiedScripts(q, q.at, DOMAIN wanted.scripts \ q.left),
                       tests |-> 0, any |-> FALSE]
      BY <1>3, <1>8 DEF PartCopy
    <3>2. DOMAIN wanted.scripts \ q.left = DOMAIN wanted.scripts
      BY <1>2
    <3>3. wanted.tests - Cardinality(L) = 0
      BY <1>4, <2>2
    <3> QED BY <3>1, <3>2, <3>3
  <2>6. LeftKnows(w)
    BY <2>2, <2>4 DEF LeftKnows
  <2>7. \A k : WholeCopy(q, k, version[q.row][k]) => WholeCopy(w, k, version[w.row][k])
    BY <2>4 DEF WholeCopy, CopiedScripts
  <2>8. MoverKnows(w, copy, version)
    BY <1>1, <1>2, <1>3, <1>5, <1>6, <2>4, <2>5, <2>6, <2>7 DEF MoverKnows, Writing
  <2> QED BY <1>2, <2>1, <2>4, <2>8, MoverGoesKeepsInv DEF q
<1>9. CASE q.next = "tests"
  <2> DEFINE L == IF wanted.any THEN {"any"} ELSE {}
             w == [q EXCEPT !.next = "mode", !.left = L]
  <2>1. MoverGoto(r, w)
    BY <1>9 DEF CopyGoesOn, MoverAt, Wanted
  <2>2. L \in SUBSET (ScriptNames \cup Nat \cup {"any"})
    OBVIOUS
  <2>3. (L = {} /\ ~wanted.any) \/ (L = {"any"} /\ wanted.any)
    OBVIOUS
  <2>9. (IF L = {} THEN wanted.any ELSE FALSE) = FALSE
    BY <1>4
  <2> HIDE DEF L, q
  <2>4. /\ w \in MoverRecords /\ w.next = "mode" /\ w.left = L /\ w.row = q.row /\ w.at = q.at
        /\ w.archive = q.archive /\ w.lost = q.lost /\ w.kind = q.kind
    BY <1>1, <2>2 DEF MoverRecords, Writing
  <2> HIDE DEF w, v
  <2>5. ~q.lost => PartCopy(w, v)
    <3> SUFFICES ASSUME ~q.lost, v.state = "draft", ~v.taken
                 PROVE  v.content = [scripts |-> S, tests |-> wanted.tests,
                                     any |-> IF L = {} THEN wanted.any ELSE FALSE]
      <4>1. CopiedScripts(w, w.at, DOMAIN w.archive[w.at].scripts) = S
        BY <2>4 DEF CopiedScripts
      <4> HIDE DEF S
      <4> QED BY <1>7, <2>4, <4>1 DEF PartCopy
    <3>1. v.content = [scripts |-> S, tests |-> wanted.tests - Cardinality(q.left), any |-> FALSE]
      BY <1>3, <1>9 DEF PartCopy
    <3>2. wanted.tests - Cardinality(q.left) = wanted.tests
      BY <1>2, <1>4, FS_EmptySet
    <3> QED BY <2>9, <3>1, <3>2
  <2>6. LeftKnows(w)
    BY <2>3, <2>4 DEF LeftKnows
  <2>7. \A k : WholeCopy(q, k, version[q.row][k]) => WholeCopy(w, k, version[w.row][k])
    BY <2>4 DEF WholeCopy, CopiedScripts
  <2>8. MoverKnows(w, copy, version)
    BY <1>1, <1>2, <1>3, <1>5, <1>6, <2>4, <2>5, <2>6, <2>7 DEF MoverKnows, Writing
  <2> QED BY <1>2, <2>1, <2>4, <2>8, MoverGoesKeepsInv DEF q
<1>10. CASE q.next = "mode"
  <2> DEFINE n == q.at + 1
             w == [q EXCEPT !.next = "draft", !.at = n]
  <2>1. MoverGoto(r, w)
    BY <1>10 DEF CopyGoesOn, MoverAt
  <2>2. q.at \in Nat /\ n \in Nat /\ n # 0 /\ n = q.at + 1
    BY <1>1 DEF MoverRecords
  <2> HIDE DEF q, n
  <2>4. /\ w \in MoverRecords /\ w.next = "draft" /\ w.row = q.row /\ w.at = n
        /\ w.archive = q.archive /\ w.lost = q.lost /\ w.kind = q.kind
    BY <1>1, <2>2 DEF MoverRecords
  <2> HIDE DEF w, v
  <2>5. ~q.lost => WholeCopy(q, q.at, v)
    <3> SUFFICES ASSUME ~q.lost, v.state = "draft", ~v.taken
                 PROVE  v.content = [scripts |-> S, tests |-> wanted.tests, any |-> wanted.any]
      BY <1>7 DEF WholeCopy
    <3>1. v.content = [scripts |-> S, tests |-> wanted.tests,
                       any |-> IF q.left = {} THEN wanted.any ELSE FALSE]
      BY <1>3, <1>10 DEF PartCopy
    <3>2. (IF q.left = {} THEN wanted.any ELSE FALSE) = wanted.any
      BY <1>2, <1>4
    <3> QED BY <3>1, <3>2
  <2>6. ASSUME ~q.lost, NEW k \in DOMAIN q.archive, k < q.at + 1
        PROVE  WholeCopy(q, k, version[q.row][k])
    <3>1. k \in Nat
      BY <1>1 DEF MoverRecords
    <3>2. k < q.at \/ k = q.at
      BY <2>2, <2>6, <3>1
    <3> QED BY <1>1, <1>2, <1>5, <2>5, <2>6, <3>2 DEF MoverKnows
  <2>7. \A k : WholeCopy(q, k, version[q.row][k]) => WholeCopy(w, k, version[w.row][k])
    BY <2>4 DEF WholeCopy, CopiedScripts
  <2>8. MoverKnows(w, copy, version)
    BY <1>1, <1>6, <2>2, <2>4, <2>6, <2>7 DEF MoverKnows, Writing
  <2> QED BY <1>2, <2>1, <2>4, <2>8, MoverGoesKeepsInv DEF q
<1> QED BY <1>2, <1>8, <1>9, <1>10 DEF Writing

-----------------------------------------------------------------------------
(* What other requests do to a copy.                                       *)
LEMMA VersionStepKeepsInv ==
    ASSUME TransferInv, NEW c \in Copies, NEW k \in Slots,
           PublishCopy(c, k) \/ DeleteCopiedDraft(c, k) \/ EditCopy(c, k)
    PROVE  TransferInv'
<1> DEFINE v == version[c][k]
           gone == [NoVersion EXCEPT !.state = "gone"]
<1>1. version \in [Copies -> [Slots -> VersionRows]] /\ v \in VersionRows
  BY DEF TransferInv
<1>2. gone \in VersionRows /\ gone.state = "gone"
  BY NoContentTyped DEF NoVersion, VersionRows
<1> HIDE DEF gone
<1>3. PICK w \in VersionRows : /\ version' = [version EXCEPT ![c][k] = w]
                               /\ StaysOrTaken(v, w) /\ UNCHANGED <<original, copy, mover>>
  <2>1. CASE PublishCopy(c, k)
    <3> DEFINE w == [v EXCEPT !.state = "published"]
    <3>1. w \in VersionRows /\ w.state = "published"
      BY <1>1 DEF VersionRows
    <3>2. version' = [version EXCEPT ![c][k] = w] /\ UNCHANGED <<original, copy, mover>>
      BY <2>1 DEF PublishCopy
    <3> HIDE DEF w
    <3> QED BY <3>1, <3>2 DEF StaysOrTaken
  <2>2. CASE DeleteCopiedDraft(c, k)
    BY <1>2, <2>2 DEF DeleteCopiedDraft, StaysOrTaken, gone
  <2>3. CASE EditCopy(c, k)
    <3> DEFINE w == [v EXCEPT !.content = NoContent, !.taken = TRUE]
    <3>1. w \in VersionRows /\ w.state = v.state /\ w.taken
      BY <1>1, NoContentTyped DEF VersionRows
    <3>2. version' = [version EXCEPT ![c][k] = w] /\ UNCHANGED <<original, copy, mover>>
      BY <2>3 DEF EditCopy
    <3> HIDE DEF w
    <3> QED BY <3>1, <3>2 DEF StaysOrTaken
  <2> QED BY <2>1, <2>2, <2>3
<1>4. version' \in [Copies -> [Slots -> VersionRows]]
  BY <1>1, <1>3
<1>5. \A d \in Copies, j \in Slots : StaysOrTaken(version[d][j], version'[d][j])
  BY <1>1, <1>3 DEF StaysOrTaken
<1>6. /\ UNCHANGED <<original, mover>> /\ UNCHANGED copy
      /\ copy' \in [Copies -> [status : {"none", "created", "owned", "imported", "gone"},
                               urn : Nat \cup {NoRow}]]
  BY <1>3 DEF TransferInv
<1>7. \A d \in Copies : /\ copy[d].status # "none" => copy'[d].status # "none"
                        /\ \A j \in Slots : StaysOrTaken(version[d][j], version'[d][j])
  BY <1>5, <1>6
<1> QED BY <1>4, <1>6, <1>7, OthersKeepInv

LEMMA PurgeKeepsInv ==
    ASSUME TransferInv, NEW c \in Copies, PurgeCopy(c)
    PROVE  TransferInv'
<1> DEFINE gone == [NoVersion EXCEPT !.state = "gone"]
           row == [NoCopy EXCEPT !.status = "gone"]
           rows == [k \in Slots |-> gone]
<1>1. version \in [Copies -> [Slots -> VersionRows]]
  BY DEF TransferInv
<1>2. gone \in VersionRows /\ gone.state = "gone"
  BY NoContentTyped DEF NoVersion, VersionRows
<1>3. row \in [status : {"none", "created", "owned", "imported", "gone"}, urn : Nat \cup {NoRow}]
      /\ row.status = "gone"
  BY DEF NoCopy
<1>4. /\ copy' = [copy EXCEPT ![c] = row] /\ version' = [version EXCEPT ![c] = rows]
      /\ UNCHANGED <<original, mover>>
  BY DEF PurgeCopy
<1> HIDE DEF gone, row
<1>5. rows \in [Slots -> VersionRows] /\ \A k \in Slots : rows[k].state = "gone"
  BY <1>2
<1> HIDE DEF rows
<1>6. /\ copy' \in [Copies -> [status : {"none", "created", "owned", "imported", "gone"},
                               urn : Nat \cup {NoRow}]]
      /\ \A d \in Copies : copy[d].status # "none" => copy'[d].status # "none"
  BY <1>3, <1>4 DEF TransferInv
<1>7. /\ version' \in [Copies -> [Slots -> VersionRows]]
      /\ \A d \in Copies, k \in Slots : StaysOrTaken(version[d][k], version'[d][k])
  BY <1>1, <1>4, <1>5 DEF StaysOrTaken
<1> QED BY <1>4, <1>6, <1>7, OthersKeepInv

-----------------------------------------------------------------------------
LEMMA TransferInvInitially == TransferInit => TransferInv
<1> SUFFICES ASSUME TransferInit PROVE TransferInv
  OBVIOUS
<1>1. /\ original \in Sources
      /\ copy = [c \in Copies |-> NoCopy] /\ version = [c \in Copies |-> [k \in Slots |-> NoVersion]]
      /\ mover = [r \in Movers |-> MoverIdle]
  BY DEF TransferInit
<1>2. /\ copy \in [Copies -> [status : {"none", "created", "owned", "imported", "gone"},
                              urn : Nat \cup {NoRow}]]
      /\ version \in [Copies -> [Slots -> VersionRows]] /\ mover \in [Movers -> MoverRecords]
  BY <1>1, NoContentTyped, MoverIdleKnows DEF NoCopy
<1>3. \A r \in Movers : MoverKnows(mover[r], copy, version) /\ mover[r].row = NoRow
  BY <1>1, MoverIdleKnows
<1> QED BY <1>1, <1>2, <1>3 DEF TransferInv

LEMMA TransferInvKept == TransferInv /\ [TransferNext]_transferVars => TransferInv'
<1> SUFFICES ASSUME TransferInv, [TransferNext]_transferVars PROVE TransferInv'
  OBVIOUS
<1>1. ASSUME NEW r \in Movers,
             \E ks \in ExportVersionIDs(original) : ImportModule(r, ExportModule(original, ks))
      PROVE  TransferInv'
  BY <1>1, StartsKeepInv
<1>2. ASSUME NEW r \in Movers, ImportCandidate(r) PROVE TransferInv'
  BY <1>2, CandidateKeepsInv
<1>3. ASSUME NEW r \in Movers, CreateRefused(r) PROVE TransferInv'
  BY <1>3, MoverDoneKeepsInv DEF CreateRefused
<1>4. ASSUME NEW r \in Movers, SetModuleOwner(r) PROVE TransferInv'
  <2>1. PICK next \in {"origin", "draft"} : SetCopyStatus(r, "owner", "owned", next)
    BY <1>4 DEF SetModuleOwner
  <2> QED BY <2>1, StatusKeepsInv
<1>5. ASSUME NEW r \in Movers, SetModuleOrigin(r) PROVE TransferInv'
  BY <1>5, StatusKeepsInv DEF SetModuleOrigin
<1>6. ASSUME NEW r \in Movers, NEW c \in Copies, CreateModule(r, c) PROVE TransferInv'
  BY <1>6, CreateKeepsInv
<1>7. ASSUME NEW r \in Movers, ClonePolicyModule(r) PROVE TransferInv'
  BY <1>7, StartsKeepInv
<1>8. ASSUME NEW r \in Movers, CopyDraft(r) PROVE TransferInv'
  BY <1>8, DraftKeepsInv
<1>9. ASSUME NEW r \in Movers, CopyMode(r) PROVE TransferInv'
  BY <1>9, ModeKeepsInv
<1>10. ASSUME NEW r \in Movers, CopyGoesOn(r) PROVE TransferInv'
  BY <1>10, GoesOnKeepsInv
<1>11. ASSUME NEW r \in Movers, NEW n \in ScriptNames, CopyScript(r, n) PROVE TransferInv'
  BY <1>11, ScriptKeepsInv
<1>12. ASSUME NEW r \in Movers, NEW n \in ScriptNames, ScriptRefused(r, n) PROVE TransferInv'
  BY <1>12, MoverDoneKeepsInv DEF ScriptRefused
<1>13. ASSUME NEW r \in Movers, NEW t \in mover[r].left, CopyTest(r, t) PROVE TransferInv'
  BY <1>13, TestKeepsInv
<1>14. ASSUME NEW r \in Movers, CopyEnds(r) PROVE TransferInv'
  BY <1>14, MoverDoneKeepsInv DEF CopyEnds
<1>15. ASSUME NEW r \in Movers, CloneLoses(r) PROVE TransferInv'
  BY <1>15, LosesKeepsInv
<1>16. ASSUME NEW r \in Movers, MoverFails(r) PROVE TransferInv'
  BY <1>16, MoverDoneKeepsInv DEF MoverFails
<1>17. ASSUME NEW c \in Copies, NEW k \in Slots,
              PublishCopy(c, k) \/ DeleteCopiedDraft(c, k) \/ EditCopy(c, k)
       PROVE  TransferInv'
  BY <1>17, VersionStepKeepsInv
<1>18. ASSUME NEW c \in Copies, PurgeCopy(c) PROVE TransferInv'
  BY <1>18, PurgeKeepsInv
<1>19. CASE UNCHANGED transferVars
  BY <1>19 DEF transferVars, TransferInv
<1> QED
  BY <1>1, <1>2, <1>3, <1>4, <1>5, <1>6, <1>7, <1>8, <1>9, <1>10, <1>11, <1>12, <1>13, <1>14,
     <1>15, <1>16, <1>17, <1>18, <1>19 DEF TransferNext

(* Whatever is copied, by however many requests at once, and whatever      *)
(* others do to the copies: a request knows what of its archive its row    *)
(* has (WholeCopy, PartCopy), and no two write the same row.               *)
THEOREM TransferInvHolds == TransferSpec => []TransferInv
<1>1. TransferInit => TransferInv
  BY TransferInvInitially
<1>2. TransferInv /\ [TransferNext]_transferVars => TransferInv'
  BY TransferInvKept
<1> QED BY <1>1, <1>2, PTL DEF TransferSpec

-----------------------------------------------------------------------------
(* What a request writes is what was exported.                             *)
ArchiveKnows(q) ==
    \A k \in ToCopy(q) :
      /\ PlaceIn(ToCopy(q), k) \in DOMAIN q.archive
      /\ q.archive[PlaceIn(ToCopy(q), k)] =
           IF q.kind = "import" THEN FoundScripts(q.sent[k].content) ELSE q.sent[k].content

ArchivesKnow == \A r \in Movers : ArchiveKnows(mover[r])

(* A request keeps to what it has begun with.                              *)
SameArchive(q, w) == w.kind = q.kind /\ w.sent = q.sent /\ w.archive = q.archive

LEMMA StartKnows ==
    ASSUME TransferInv, NEW r \in Movers,
           \/ \E ks \in ExportVersionIDs(original) : ImportModule(r, ExportModule(original, ks))
           \/ ClonePolicyModule(r)
    PROVE  \E q : MoverGoto(r, q) /\ ArchiveKnows(q)
<1>1. original \in Sources /\ MoverIdle \in MoverRecords
  BY MoverIdleKnows DEF TransferInv
<1>2. ASSUME NEW ks \in ExportVersionIDs(original), ImportModule(r, ExportModule(original, ks))
      PROVE  \E q : MoverGoto(r, q) /\ ArchiveKnows(q)
  <2> DEFINE sent == ExportModule(original, ks)
             q == [MoverIdle EXCEPT !.next = "number", !.kind = "import", !.sent = sent,
                                    !.archive = FoundIn(sent), !.urn = 1]
  <2>1. MoverGoto(r, q)
    BY <1>2 DEF ImportModule, FoundIn
  <2>2. sent \in Seq(Exported)
    BY <1>1, ExportsAreTyped
  <2> HIDE DEF sent
  <2>3. q.kind = "import" /\ q.sent = sent /\ q.archive = FoundIn(sent)
    BY DEF MoverIdle
  <2> HIDE DEF q
  <2>4. ArchiveKnows(q)
    BY <2>2, <2>3, FoundInPlace DEF ArchiveKnows, ToCopy
  <2> QED BY <2>1, <2>4
<1>3. ASSUME ClonePolicyModule(r) PROVE \E q : MoverGoto(r, q) /\ ArchiveKnows(q)
  <2> DEFINE latest == original[LatestOf(original)].of
             q == [MoverIdle EXCEPT !.next = "create", !.kind = "clone", !.urn = NoRow,
                                    !.sent = <<latest>>, !.archive = <<latest.content>>]
  <2>1. MoverGoto(r, q)
    BY <1>3 DEF ClonePolicyModule
  <2> HIDE DEF latest
  <2>2. q.kind = "clone" /\ q.sent = <<latest>> /\ q.archive = <<latest.content>>
    BY DEF MoverIdle
  <2> HIDE DEF q
  <2>3. ToCopy(q) = {1}
    BY <2>2 DEF ToCopy
  <2>4. {1} \cap (1 .. 1) = {1} /\ Cardinality({1}) = 1
    <3>1. Cardinality({1}) = 1
      BY FS_Singleton
    <3>2. {1} \cap (1 .. 1) = {1}
      OBVIOUS
    <3> QED BY <3>1, <3>2
  <2>5. PlaceIn(ToCopy(q), 1) = 1
    BY <2>3, <2>4 DEF PlaceIn
  <2>6. ArchiveKnows(q)
    BY <2>2, <2>3, <2>5 DEF ArchiveKnows
  <2> QED BY <2>1, <2>6
<1> QED BY <1>2, <1>3

LEMMA GoesOnWithArchive ==
    ASSUME TransferInv, NEW r \in Movers,
           \/ ImportCandidate(r) \/ CreateRefused(r) \/ SetModuleOwner(r) \/ SetModuleOrigin(r)
           \/ \E c \in Copies : CreateModule(r, c)
           \/ CopyDraft(r) \/ CopyMode(r) \/ CopyGoesOn(r)
           \/ \E n \in ScriptNames : CopyScript(r, n) \/ ScriptRefused(r, n)
           \/ \E t \in mover[r].left : CopyTest(r, t)
           \/ CopyEnds(r) \/ CloneLoses(r) \/ MoverFails(r)
    PROVE  \E q : MoverGoto(r, q) /\ (q = MoverIdle \/ SameArchive(mover[r], q))
<1> DEFINE q == mover[r]
<1>1. q \in MoverRecords
  BY DEF TransferInv
<1>2. ASSUME NEW next, NEW place PROVE SameArchive(q, [q EXCEPT !.next = next, !.at = place])
  BY <1>1 DEF SameArchive, MoverRecords
<1>3. ASSUME NEW next, NEW left PROVE SameArchive(q, [q EXCEPT !.next = next, !.left = left])
  BY <1>1 DEF SameArchive, MoverRecords
<1>4. ASSUME NEW item PROVE SameArchive(q, [q EXCEPT !.left = @ \ {item}])
  BY <1>1 DEF SameArchive, MoverRecords
<1>5. CASE ImportCandidate(r)
  <2>1. SameArchive(q, [q EXCEPT !.urn = @ + 1]) /\ SameArchive(q, [q EXCEPT !.next = "create"])
    BY <1>1 DEF SameArchive, MoverRecords
  <2> QED BY <1>5, <2>1 DEF ImportCandidate
<1>6. CASE CreateRefused(r) \/ CopyEnds(r) \/ MoverFails(r)
           \/ \E n \in ScriptNames : ScriptRefused(r, n)
  BY <1>6 DEF CreateRefused, CopyEnds, MoverFails, ScriptRefused, MoverDone
<1>7. CASE SetModuleOwner(r) \/ SetModuleOrigin(r)
  BY <1>2, <1>7 DEF SetModuleOwner, SetModuleOrigin, SetCopyStatus
<1>8. ASSUME NEW c \in Copies, CreateModule(r, c)
      PROVE  \E w : MoverGoto(r, w) /\ (w = MoverIdle \/ SameArchive(q, w))
  <2>1. SameArchive(q, [q EXCEPT !.next = "owner", !.row = c])
    BY <1>1 DEF SameArchive, MoverRecords
  <2> QED BY <1>8, <2>1 DEF CreateModule
<1>9. CASE CopyDraft(r)
  BY <1>3, <1>9 DEF CopyDraft
<1>10. ASSUME NEW item, NEW content, CopyItem(r, item, content)
       PROVE  \E w : MoverGoto(r, w) /\ (w = MoverIdle \/ SameArchive(q, w))
  BY <1>4, <1>10 DEF CopyItem, MoverDone
<1>11. CASE CopyMode(r)
  BY <1>10, <1>11 DEF CopyMode
<1>12. CASE \E n \in ScriptNames : CopyScript(r, n)
  BY <1>10, <1>12 DEF CopyScript
<1>13. CASE \E t \in mover[r].left : CopyTest(r, t)
  BY <1>10, <1>13 DEF CopyTest
<1>14. CASE CopyGoesOn(r)
  <2>1. \/ MoverGoto(r, [q EXCEPT !.next = "tests", !.left = TestsOf(Wanted(r))])
        \/ MoverGoto(r, [q EXCEPT !.next = "mode", !.left = IF Wanted(r).any THEN {"any"} ELSE {}])
        \/ MoverGoto(r, [q EXCEPT !.next = "draft", !.at = @ + 1])
    BY <1>14 DEF CopyGoesOn, MoverAt
  <2> QED BY <1>2, <1>3, <2>1
<1>15. CASE CloneLoses(r)
  <2>1. PICK place, left : MoverGoto(r, [q EXCEPT !.at = place, !.lost = TRUE])
                        \/ MoverGoto(r, [q EXCEPT !.left = left, !.lost = TRUE])
    BY <1>15 DEF CloneLoses
  <2>2. /\ SameArchive(q, [q EXCEPT !.at = place, !.lost = TRUE])
        /\ SameArchive(q, [q EXCEPT !.left = left, !.lost = TRUE])
    BY <1>1 DEF SameArchive, MoverRecords
  <2> QED BY <2>1, <2>2
<1> QED BY <1>5, <1>6, <1>7, <1>8, <1>9, <1>11, <1>12, <1>13, <1>14, <1>15

LEMMA ArchivesKept ==
    ASSUME TransferInv, ArchivesKnow, [TransferNext]_transferVars
    PROVE  ArchivesKnow'
<1>1. ASSUME NEW r \in Movers, NEW q, MoverGoto(r, q), ArchiveKnows(q) PROVE ArchivesKnow'
  <2>1. mover \in [Movers -> MoverRecords] /\ mover' = [mover EXCEPT ![r] = q]
    BY <1>1 DEF TransferInv, MoverGoto
  <2>2. \A s \in Movers : mover'[s] = IF s = r THEN q ELSE mover[s]
    BY <2>1
  <2>3. \A s \in Movers : ArchiveKnows(mover'[s])
    BY <1>1, <2>2 DEF ArchivesKnow
  <2> QED BY <2>3 DEF ArchivesKnow
<1>2. ASSUME NEW q, NEW w, ArchiveKnows(q), w = MoverIdle \/ SameArchive(q, w)
      PROVE  ArchiveKnows(w)
  <2>1. CASE SameArchive(q, w)
    <3>1. ToCopy(w) = ToCopy(q)
      BY <2>1 DEF SameArchive, ToCopy
    <3> QED BY <1>2, <2>1, <3>1 DEF SameArchive, ArchiveKnows
  <2>2. CASE w = MoverIdle
    <3>1. ToCopy(w) = {}
      BY <2>2 DEF MoverIdle, ToCopy, Arrives
    <3> QED BY <3>1 DEF ArchiveKnows
  <2> QED BY <1>2, <2>1, <2>2
<1>3. ASSUME NEW r \in Movers,
             \/ \E ks \in ExportVersionIDs(original) : ImportModule(r, ExportModule(original, ks))
             \/ ClonePolicyModule(r)
      PROVE  ArchivesKnow'
  BY <1>1, <1>3, StartKnows
<1>4. ASSUME NEW r \in Movers,
             \/ ImportCandidate(r) \/ CreateRefused(r) \/ SetModuleOwner(r) \/ SetModuleOrigin(r)
             \/ \E c \in Copies : CreateModule(r, c)
             \/ CopyDraft(r) \/ CopyMode(r) \/ CopyGoesOn(r)
             \/ \E n \in ScriptNames : CopyScript(r, n) \/ ScriptRefused(r, n)
             \/ \E t \in mover[r].left : CopyTest(r, t)
             \/ CopyEnds(r) \/ CloneLoses(r) \/ MoverFails(r)
      PROVE  ArchivesKnow'
  <2>1. PICK q : MoverGoto(r, q) /\ (q = MoverIdle \/ SameArchive(mover[r], q))
    BY <1>4, GoesOnWithArchive
  <2>2. ArchiveKnows(mover[r])
    BY DEF ArchivesKnow
  <2> QED BY <1>1, <1>2, <2>1, <2>2
<1>5. CASE UNCHANGED mover
  BY <1>5 DEF ArchivesKnow
<1>6. ASSUME \/ \E c \in Copies, k \in Slots : PublishCopy(c, k) \/ DeleteCopiedDraft(c, k) \/ EditCopy(c, k)
             \/ \E c \in Copies : PurgeCopy(c)
             \/ UNCHANGED transferVars
      PROVE  UNCHANGED mover
  BY <1>6 DEF PublishCopy, DeleteCopiedDraft, EditCopy, PurgeCopy, transferVars
<1> QED BY <1>3, <1>4, <1>5, <1>6 DEF TransferNext

(* What a request writes is all of what was exported that a reader finds   *)
(* in the archive, each version in its place (ParsePmdl, ImportModule).    *)
THEOREM ArchivesHold == TransferSpec => []ArchivesKnow
<1>1. TransferInit => ArchivesKnow
  <2> SUFFICES ASSUME TransferInit PROVE ArchivesKnow
    OBVIOUS
  <2>1. ToCopy(MoverIdle) = {}
    BY DEF MoverIdle, ToCopy, Arrives
  <2>2. \A r \in Movers : mover[r] = MoverIdle
    BY DEF TransferInit
  <2> QED BY <2>1, <2>2 DEF ArchivesKnow, ArchiveKnows
<1>2. TransferInv /\ ArchivesKnow /\ [TransferNext]_transferVars => ArchivesKnow'
  BY ArchivesKept
<1> QED BY <1>1, <1>2, TransferInvHolds, PTL DEF TransferSpec

(* An import that reports success, and a clone none of whose statements    *)
(* has failed, leave a copy of every version that was exported under a     *)
(* directory of its own, with all of its scripts that can be found, its    *)
(* tests and its match mode (ParsePmdl, ImportModule, clonePolicyModule).  *)
THEOREM CopiesHold == TransferSpec => CopiesAreComplete
<1> DEFINE Complete(r) ==
             \A k \in ToCopy(mover[r]) :
               LET copied == version[mover[r].row][PlaceIn(ToCopy(mover[r]), k)] IN
               /\ copied.state # "none"
               /\ copied.state = "draft" /\ ~copied.taken =>
                    IsCopy(mover[r].kind, mover[r].sent[k], copied)
           Ends == \A r \in Movers : CopyEnds(r) /\ ~mover[r].lost => Complete(r)
<1>1. ASSUME TransferInv, ArchivesKnow, NEW r \in Movers, CopyEnds(r), ~mover[r].lost
      PROVE  Complete(r)
  <2> DEFINE q == mover[r]
  <2>1. q \in MoverRecords /\ MoverKnows(q, copy, version) /\ ArchiveKnows(q)
    BY <1>1 DEF TransferInv, ArchivesKnow
  <2>2. q.next = "draft" /\ q.at > Len(q.archive) /\ ~q.lost
    BY <1>1 DEF CopyEnds, MoverAt
  <2>3. ASSUME NEW k \in DOMAIN q.archive PROVE WholeCopy(q, k, version[q.row][k])
    <3>1. k < q.at
      BY <2>1, <2>2 DEF MoverRecords
    <3> QED BY <2>1, <2>2, <3>1 DEF MoverKnows
  <2> SUFFICES ASSUME NEW k \in ToCopy(q)
               PROVE  LET copied == version[q.row][PlaceIn(ToCopy(q), k)] IN
                      /\ copied.state # "none"
                      /\ copied.state = "draft" /\ ~copied.taken =>
                           IsCopy(q.kind, q.sent[k], copied)
    OBVIOUS
  <2> DEFINE p == PlaceIn(ToCopy(q), k)
             v == version[q.row][p]
             e == q.sent[k].content
             all == e.scripts
             came == IF q.kind = "import" THEN FoundScripts(e) ELSE e
             S == CopiedScripts(q, p, DOMAIN came.scripts)
  <2>4. p \in DOMAIN q.archive /\ q.archive[p] = came /\ WholeCopy(q, p, v)
    BY <2>1, <2>3 DEF ArchiveKnows
  <2>5. e \in ModuleContents
    <3>1. k \in DOMAIN q.sent /\ q.sent \in Seq(Exported)
      BY <2>1 DEF ToCopy, Arrives, MoverRecords
    <3>2. q.sent[k] \in Exported
      BY <3>1
    <3> QED BY <3>2 DEF Exported
  <2> HIDE DEF q, p, v, e
  <2>6. came.tests = e.tests /\ came.any = e.any
    BY <2>5 DEF FoundScripts, ModuleContents
  <2>7. ~(v.state = "none")
        /\ (v.state = "draft" /\ ~v.taken =>
               v.content = [scripts |-> S, tests |-> e.tests, any |-> e.any])
    BY <2>4, <2>6 DEF WholeCopy
  <2>8. S = IF q.kind = "import" THEN [n \in DOMAIN all \ Tangled |-> PhaseLanguage[n]] ELSE all
    <3>1. CASE q.kind = "import"
      <4>1. came.scripts = [n \in DOMAIN all \ Tangled |-> all[n]]
        BY <2>5, <3>1 DEF FoundScripts, ModuleContents
      <4>2. DOMAIN came.scripts = DOMAIN all \ Tangled
        BY <4>1
      <4> QED BY <3>1, <4>2 DEF CopiedScripts
    <3>2. CASE q.kind # "import"
      <4>1. came = e /\ q.archive[p].scripts = all
        BY <2>4, <3>2
      <4>2. all = [n \in DOMAIN all |-> all[n]]
        <5>1. \A c \in ModuleContents : c.scripts = [n \in DOMAIN c.scripts |-> c.scripts[n]]
          BY DEF ModuleContents
        <5> QED BY <2>5, <5>1
      <4> QED BY <3>2, <4>1, <4>2 DEF CopiedScripts
    <3> QED BY <3>1, <3>2
  <2> HIDE DEF S, came
  <2>9. [e EXCEPT !.scripts = S] = [scripts |-> S, tests |-> e.tests, any |-> e.any]
    BY <2>5 DEF ModuleContents
  <2>10. v.state = "draft" /\ ~v.taken => IsCopy(q.kind, q.sent[k], v)
    <3> SUFFICES ASSUME v.content = [e EXCEPT !.scripts = S] PROVE IsCopy(q.kind, q.sent[k], v)
      BY <2>7, <2>9
    <3> QED BY <2>8 DEF IsCopy, e
  <2> QED BY <2>7, <2>10 DEF v, p
<1>2. TransferInv /\ ArchivesKnow /\ [TransferNext]_transferVars => [Ends]_transferVars
  BY <1>1
<1> QED BY <1>2, TransferInvHolds, ArchivesHold, PTL DEF TransferSpec, CopiesAreComplete

-----------------------------------------------------------------------------
(* BindingValues.                                                          *)

(* A release of every version of every module; what a form holds.          *)
ReleaseTyped ==
    /\ release \in [LibraryModules -> UNION {[VersionNumbers(m) -> ReleaseStates] : m \in LibraryModules}]
    /\ \A m \in LibraryModules : release[m] \in [VersionNumbers(m) -> ReleaseStates]

BindingRows ==
    [there  : BOOLEAN,
     module : LibraryModules \cup {Default},
     pin    : Pins,
     value  : Given \cup {Default}]

SaverType ==
    [next   : {"none", "list", "row", "version", "write"},
     adding : BOOLEAN,
     row    : BindingRows,
     picked : LibraryModules \cup {Default},
     orphan : BOOLEAN,
     steady : BOOLEAN,
     blind  : BOOLEAN]

Candidates == shown \cap Satisfying \cap Bundled

(* Nobody has disturbed the save, and its lookups have been answered.      *)
Told(q) == q.steady /\ ~q.blind

(* Such a save holds its override, or else the first bundled module there  *)
(* is; before it writes, it has checked its values against that module,    *)
(* unless the module is gone.                                              *)
SaveFollows(q) ==
    /\ q \in SaverType
    /\ q.next = "list" => q.row.module = Default
    /\ q.next \in {"row", "version", "write"} /\ Told(q) =>
         /\ q.row.module = Default => (Candidates # {} => q.picked = FirstBundled)
         /\ q.row.module # Default => q.picked = q.row.module
    /\ q.next = "write" /\ Told(q) /\ q.picked \in shown =>
         ValidateParamValues(q.picked, q.row.value)

BindingInv ==
    /\ shown \subseteq LibraryModules
    /\ ReleaseTyped
    /\ {tenantDefault.module, binding.module} \subseteq LibraryModules \cup {Default}
    /\ binding.value \in Given \cup {Default}
    /\ saver \in [Savers -> SaverType]
    /\ \A r \in Savers : SaveFollows(saver[r])

-----------------------------------------------------------------------------
(* The first of a set of modules is one of them.                           *)
LEMMA EarliestIsOne ==
    ASSUME NEW S \in SUBSET LibraryModules, S # {}
    PROVE  Earliest(S) \in S
<1> DEFINE T == {n \in DOMAIN Library : Library[n] \in S}
<1>1. DOMAIN Library = 1 .. Len(Library) /\ Len(Library) \in Nat
  BY LibraryAssumption
<1>2. T \in SUBSET Nat /\ T # {}
  BY <1>1 DEF LibraryModules
<1>3. PICK n \in T : \A k \in T : n <= k
  <2> HIDE DEF T
  <2> QED BY <1>2, LeastNat
<1>4. \A k \in 1 .. (n - 1) : Library[k] \notin S
  <2> SUFFICES ASSUME NEW k \in 1 .. (n - 1), Library[k] \in S PROVE FALSE
    OBVIOUS
  <2>1. n \in 1 .. Len(Library) /\ k \in 1 .. Len(Library) /\ k < n
    BY <1>1
  <2>2. k \in T
    BY <1>1, <2>1
  <2> QED BY <1>3, <2>1, <2>2
<1> QED BY <1>3, <1>4 DEF Earliest

LEMMA BindingConstants ==
    /\ Satisfying \subseteq LibraryModules /\ Bundled \subseteq LibraryModules
    /\ Default \notin LibraryModules
    /\ Default \in Pins
BY LibraryAssumption DEF Pins

LEMMA SaverIdleFollows == SaveFollows(SaverIdle)
<1>1. NoBinding \in BindingRows
  BY BindingConstants DEF NoBinding, BindingRows
<1>2. SaverIdle \in SaverType
  BY <1>1 DEF SaverIdle, SaverType
<1> QED BY <1>2 DEF SaveFollows, SaverIdle

(* A step of one request that writes no binding.                           *)
LEMMA SaverStepKeepsInv ==
    ASSUME BindingInv, NEW r \in Savers, NEW q, SaveFollows(q),
           saver' = [saver EXCEPT ![r] = q],
           binding'.module \in LibraryModules \cup {Default},
           binding'.value \in Given \cup {Default},
           UNCHANGED <<shown, release, tenantDefault>>
    PROVE  BindingInv'
<1>1. \A p : SaveFollows(p)' <=> SaveFollows(p)
  BY DEF SaveFollows, Told, Candidates, FirstBundled, Earliest, ValidateParamValues, Published
<1>2. saver' \in [Savers -> SaverType] /\ \A s \in Savers : SaveFollows(saver'[s])
  BY DEF BindingInv, SaveFollows
<1>3. \A s \in Savers : SaveFollows(saver[s])'
  BY <1>1, <1>2
<1> QED BY <1>2, <1>3 DEF BindingInv, ReleaseTyped

LEMMA SaveStartsKeepsInv ==
    ASSUME BindingInv, NEW r \in Savers, NEW adding \in BOOLEAN,
           NEW m \in LibraryModules \cup {Default}, NEW pin \in Pins, NEW value \in Given,
           SaveStarts(r, adding, m, pin, value)
    PROVE  BindingInv'
<1> DEFINE row == [there |-> TRUE, module |-> m, pin |-> pin, value |-> value]
           q == [SaverIdle EXCEPT
                  !.next = IF m = Default THEN "list" ELSE "row", !.adding = adding,
                  !.picked = m, !.row = row]
<1>1. row \in BindingRows /\ row.module = m
  BY DEF BindingRows
<1>2. q \in SaverType /\ q.next = (IF m = Default THEN "list" ELSE "row")
        /\ q.picked = m /\ q.row = row
  <2> HIDE DEF row
  <2> QED BY <1>1, SaverIdleFollows DEF SaveFollows, SaverType, SaverIdle
<1>3. SaveFollows(q)
  <2> HIDE DEF q, row
  <2> QED BY <1>1, <1>2 DEF SaveFollows
<1>4. saver' = [saver EXCEPT ![r] = q] /\ UNCHANGED <<shown, release, tenantDefault, binding>>
  BY DEF SaveStarts
<1> HIDE DEF q
<1> QED BY <1>3, <1>4, SaverStepKeepsInv DEF BindingInv

LEMMA ListKeepsInv ==
    ASSUME BindingInv, NEW r \in Savers, ListForSchema(r)
    PROVE  BindingInv'
<1> DEFINE found == shown \cap Satisfying
           picked == IF found = {} THEN Default ELSE DefaultAmong(found)
           next == IF found = {} THEN "write" ELSE "row"
           q == [saver[r] EXCEPT !.next = next, !.picked = picked]
<1>1. SaveFollows(saver[r]) /\ saver \in [Savers -> SaverType] /\ saver[r].next = "list"
  BY DEF BindingInv, ListForSchema, SaverAt
<1>2. picked \in LibraryModules \cup {Default}
  <2>1. found \in SUBSET LibraryModules /\ found \cap Bundled \in SUBSET LibraryModules
    BY BindingConstants
  <2> QED BY <2>1, EarliestIsOne DEF DefaultAmong
<1>3. Candidates # {} => picked = FirstBundled
  BY DEF Candidates, FirstBundled, DefaultAmong
<1>4. found = {} => picked \notin shown
  BY BindingConstants DEF BindingInv
<1>5. next \in {"row", "write"} /\ (next = "write" => picked \notin shown)
  BY <1>4
<1>6. saver' = [saver EXCEPT ![r] = q] /\ UNCHANGED <<shown, release, tenantDefault, binding>>
  BY DEF ListForSchema
<1> HIDE DEF next, picked, found
<1>7. q \in SaverType /\ q.next = next /\ q.picked = picked /\ q.row = saver[r].row
  BY <1>1, <1>2, <1>5 DEF SaverType
<1> HIDE DEF q
<1>8. SaveFollows(q)
  BY <1>1, <1>3, <1>5, <1>7 DEF SaveFollows
<1> QED BY <1>6, <1>8, SaverStepKeepsInv DEF BindingInv

LEMMA RowKeepsInv ==
    ASSUME BindingInv, NEW r \in Savers, GetModuleRow(r)
    PROVE  BindingInv'
<1> DEFINE next == IF saver[r].picked \in shown THEN "version" ELSE "write"
           q == [saver[r] EXCEPT !.next = next]
<1>1. SaveFollows(saver[r]) /\ saver \in [Savers -> SaverType] /\ saver[r].next = "row"
  BY DEF BindingInv, GetModuleRow, SaverAt
<1>2. next \in {"version", "write"} /\ (next = "write" => saver[r].picked \notin shown)
  OBVIOUS
<1>3. saver' = [saver EXCEPT ![r] = q] /\ UNCHANGED <<shown, release, tenantDefault, binding>>
  BY DEF GetModuleRow, SaverGoto
<1> HIDE DEF next
<1>4. q \in SaverType /\ q.next = next /\ q.picked = saver[r].picked
        /\ q.row = saver[r].row /\ q.steady = saver[r].steady /\ q.blind = saver[r].blind
  BY <1>1, <1>2 DEF SaverType
<1> HIDE DEF q
<1>5. SaveFollows(q)
  BY <1>1, <1>2, <1>4 DEF SaveFollows, Told
<1> QED BY <1>3, <1>5, SaverStepKeepsInv DEF BindingInv

LEMMA LookupKeepsInv ==
    ASSUME BindingInv, NEW r \in Savers, LookupFails(r)
    PROVE  BindingInv'
<1> DEFINE q == [saver[r] EXCEPT !.next = "write", !.blind = TRUE]
<1>1. saver[r] \in SaverType
  BY DEF BindingInv
<1>2. saver' = [saver EXCEPT ![r] = q] /\ UNCHANGED <<shown, release, tenantDefault, binding>>
  BY DEF LookupFails
<1>3. q \in SaverType /\ q.next = "write" /\ q.blind
  BY <1>1 DEF SaverType
<1> HIDE DEF q
<1>4. SaveFollows(q)
  BY <1>3 DEF SaveFollows, Told
<1> QED BY <1>2, <1>4, SaverStepKeepsInv DEF BindingInv

LEMMA SaverDoneKeepsInv ==
    ASSUME BindingInv, NEW r \in Savers, SaverDone(r),
           binding'.module \in LibraryModules \cup {Default},
           binding'.value \in Given \cup {Default},
           UNCHANGED <<shown, release, tenantDefault>>
    PROVE  BindingInv'
<1>1. saver' = [saver EXCEPT ![r] = SaverIdle]
  BY DEF SaverDone
<1> QED BY <1>1, SaverIdleFollows, SaverStepKeepsInv

LEMMA CheckKeepsInv ==
    ASSUME BindingInv, NEW r \in Savers, CheckValues(r)
    PROVE  BindingInv'
<1> DEFINE q == [saver[r] EXCEPT !.next = "write"]
<1>0. UNCHANGED <<shown, release, tenantDefault, binding>>
  BY DEF CheckValues
<1>1. SaveFollows(saver[r]) /\ saver \in [Savers -> SaverType] /\ saver[r].next = "version"
  BY DEF BindingInv, CheckValues, SaverAt
<1>2. CASE ValidateParamValues(saver[r].picked, saver[r].row.value)
  <2>1. saver' = [saver EXCEPT ![r] = q]
    BY <1>2 DEF CheckValues, SaverGoto
  <2>2. q \in SaverType /\ q.next = "write" /\ q.picked = saver[r].picked
          /\ q.row = saver[r].row /\ q.steady = saver[r].steady /\ q.blind = saver[r].blind
    BY <1>1 DEF SaverType
  <2> HIDE DEF q
  <2>3. SaveFollows(q)
    BY <1>1, <1>2, <2>2 DEF SaveFollows, Told
  <2> QED BY <1>0, <2>1, <2>3, SaverStepKeepsInv DEF BindingInv
<1>3. CASE ~ValidateParamValues(saver[r].picked, saver[r].row.value)
  <2>1. SaverDone(r)
    BY <1>3 DEF CheckValues
  <2> QED BY <1>0, <2>1, SaverDoneKeepsInv DEF BindingInv
<1> QED BY <1>2, <1>3

LEMMA WriteKeepsInv ==
    ASSUME BindingInv, NEW r \in Savers, WriteBinding(r)
    PROVE  BindingInv'
<1>1. binding' = saver[r].row /\ SaverDone(r) /\ UNCHANGED <<shown, release, tenantDefault>>
  BY DEF WriteBinding
<1>2. saver[r].row \in BindingRows
  BY DEF BindingInv, SaverType
<1> QED BY <1>1, <1>2, SaverDoneKeepsInv DEF BindingRows

LEMMA RemoveKeepsInv ==
    ASSUME BindingInv, RemoveCheckedBinding
    PROVE  BindingInv'
<1> DEFINE gone(r) == ~SaverAt(r, "none") /\ ~saver[r].adding
           q(r) == [saver[r] EXCEPT !.orphan = gone(r)]
<1>1. UNCHANGED <<shown, release, tenantDefault>> /\ binding' = NoBinding
        /\ saver' = [r \in Savers |-> q(r)]
  BY DEF RemoveCheckedBinding
<1>2. binding'.module = Default /\ binding'.value = Default
  BY <1>1 DEF NoBinding
<1>3. \A p : SaveFollows(p)' <=> SaveFollows(p)
  BY <1>1 DEF SaveFollows, Told, Candidates, FirstBundled, Earliest, ValidateParamValues, Published
<1>4. ASSUME NEW r \in Savers PROVE SaveFollows(q(r))
  <2>1. SaveFollows(saver[r]) /\ saver[r] \in SaverType
    BY DEF BindingInv
  <2>2. gone(r) \in BOOLEAN
    OBVIOUS
  <2> HIDE DEF gone
  <2>3. q(r) \in SaverType /\ q(r).next = saver[r].next /\ q(r).picked = saver[r].picked
          /\ q(r).row = saver[r].row /\ q(r).steady = saver[r].steady
          /\ q(r).blind = saver[r].blind
    BY <2>1, <2>2 DEF SaverType
  <2> HIDE DEF q
  <2> QED BY <2>1, <2>3 DEF SaveFollows, Told
<1> HIDE DEF q
<1>5. saver' \in [Savers -> SaverType] /\ \A r \in Savers : SaveFollows(saver'[r])
  BY <1>1, <1>4 DEF SaveFollows
<1>6. \A r \in Savers : SaveFollows(saver[r])'
  BY <1>3, <1>5
<1> QED BY <1>1, <1>2, <1>5, <1>6 DEF BindingInv, ReleaseTyped

(* A change others make leaves no request steady.                          *)
LEMMA OthersKeepBindingInv ==
    ASSUME BindingInv, OthersChange, shown' \subseteq LibraryModules, ReleaseTyped',
           tenantDefault'.module \in LibraryModules \cup {Default}
    PROVE  BindingInv'
<1> DEFINE idle(r) == SaverAt(r, "none")
           q(r) == [saver[r] EXCEPT !.steady = idle(r)]
<1>1. UNCHANGED binding /\ saver' = [r \in Savers |-> q(r)]
  BY DEF OthersChange
<1>2. ASSUME NEW r \in Savers
      PROVE  /\ q(r) \in SaverType /\ q(r).row = saver[r].row /\ q(r).next = saver[r].next
             /\ q(r).next # "none" => ~q(r).steady
             /\ q(r).next = "list" => q(r).row.module = Default
  <2>1. SaveFollows(saver[r]) /\ saver[r] \in SaverType
    BY DEF BindingInv
  <2>2. idle(r) \in BOOLEAN /\ (idle(r) <=> saver[r].next = "none")
    BY DEF SaverAt
  <2> HIDE DEF idle
  <2>3. q(r) \in SaverType /\ q(r).next = saver[r].next
          /\ q(r).row = saver[r].row /\ q(r).steady = idle(r)
    BY <2>1, <2>2 DEF SaverType
  <2> HIDE DEF q
  <2> QED BY <2>1, <2>2, <2>3 DEF SaveFollows
<1> HIDE DEF q
<1>3. saver' \in [Savers -> SaverType]
  BY <1>1, <1>2
<1>4. ASSUME NEW r \in Savers PROVE SaveFollows(saver[r])'
  <2>1. saver'[r] = q(r)
    BY <1>1
  <2> QED BY <1>2, <2>1 DEF SaveFollows, Told
<1> QED BY <1>1, <1>3, <1>4 DEF BindingInv

LEMMA OtherChangesKeepInv ==
    ASSUME BindingInv, NEW m \in LibraryModules,
           \/ DeleteOrRestoreModule(m)
           \/ \E n \in VersionNumbers(m) : PublishRelease(m, n) \/ RevokeRelease(m, n)
    PROVE  BindingInv'
<1>0. tenantDefault'.module \in LibraryModules \cup {Default} /\ OthersChange
  BY DEF BindingInv, DeleteOrRestoreModule, PublishRelease, RevokeRelease
<1>1. CASE DeleteOrRestoreModule(m)
  <2>1. shown' \subseteq LibraryModules /\ UNCHANGED release
    BY <1>1 DEF DeleteOrRestoreModule, BindingInv
  <2>2. ReleaseTyped'
    BY <2>1 DEF ReleaseTyped, BindingInv
  <2> QED BY <1>0, <2>1, <2>2, OthersKeepBindingInv
<1>2. ASSUME NEW f \in [VersionNumbers(m) -> ReleaseStates], release' = [release EXCEPT ![m] = f],
             UNCHANGED shown
      PROVE  BindingInv'
  <2>1. ReleaseTyped'
    BY <1>2 DEF ReleaseTyped, BindingInv
  <2>2. shown' \subseteq LibraryModules
    BY <1>2 DEF BindingInv
  <2> QED BY <1>0, <2>1, <2>2, OthersKeepBindingInv
<1>3. ASSUME NEW n \in VersionNumbers(m), PublishRelease(m, n)
      PROVE  BindingInv'
  <2> DEFINE f == [k \in VersionNumbers(m) |->
         IF k = n THEN "published" ELSE IF release[m][k] = "published" THEN "superseded" ELSE release[m][k]]
  <2>1. f \in [VersionNumbers(m) -> ReleaseStates]
    BY DEF BindingInv, ReleaseTyped, ReleaseStates
  <2>2. release' = [release EXCEPT ![m] = f] /\ UNCHANGED shown
    BY <1>3 DEF PublishRelease
  <2> HIDE DEF f
  <2> QED BY <1>2, <2>1, <2>2
<1>4. ASSUME NEW n \in VersionNumbers(m), RevokeRelease(m, n)
      PROVE  BindingInv'
  <2> DEFINE f == [release[m] EXCEPT ![n] = "revoked"]
  <2>1. f \in [VersionNumbers(m) -> ReleaseStates]
    BY DEF BindingInv, ReleaseTyped, ReleaseStates
  <2>2. release' = [release EXCEPT ![m] = f] /\ UNCHANGED shown
    BY <1>4 DEF RevokeRelease
  <2> HIDE DEF f
  <2> QED BY <1>2, <2>1, <2>2
<1> QED BY <1>1, <1>3, <1>4

LEMMA BindingInitInv == BindingInit => BindingInv
<1> SUFFICES ASSUME BindingInit PROVE BindingInv
  OBVIOUS
<1>1. release \in Catalogs /\ shown = LibraryModules /\ tenantDefault.module = Default
        /\ binding = NoBinding /\ saver = [r \in Savers |-> SaverIdle]
  BY DEF BindingInit
<1>2. ReleaseTyped
  <2>1. ASSUME NEW m \in LibraryModules
        PROVE  release[m] \in [VersionNumbers(m) -> ReleaseStates]
    <3>1. release[m] \in Seq(ReleaseStates) /\ DOMAIN release[m] = VersionNumbers(m)
      BY <1>1, LibraryAssumption
    <3> QED BY <3>1
  <2>2. release = [m \in LibraryModules |-> release[m]]
    BY <1>1, LibraryAssumption
  <2> QED BY <2>1, <2>2 DEF ReleaseTyped
<1>3. binding.module = Default /\ binding.value = Default
  BY <1>1 DEF NoBinding
<1>4. saver \in [Savers -> SaverType] /\ \A r \in Savers : SaveFollows(saver[r])
  <2>1. SaverIdle \in SaverType
    BY SaverIdleFollows DEF SaveFollows
  <2>2. \A r \in Savers : saver[r] = SaverIdle
    BY <1>1
  <2> QED BY <1>1, <2>1, <2>2, SaverIdleFollows
<1> QED BY <1>1, <1>2, <1>3, <1>4 DEF BindingInv

LEMMA BindingNextKeepsInv == BindingInv /\ [BindingNext]_bindingVars => BindingInv'
<1> SUFFICES ASSUME BindingInv, [BindingNext]_bindingVars PROVE BindingInv'
  OBVIOUS
<1>1. ASSUME NEW r \in Savers, NEW m \in LibraryModules \cup {Default}, NEW pin \in Pins,
             NEW value \in Given,
             AddCheckedBinding(r, m, pin, value) \/ UpdateBinding(r, m, pin, value)
      PROVE  BindingInv'
  BY <1>1, SaveStartsKeepsInv DEF AddCheckedBinding, UpdateBinding
<1>2. ASSUME NEW r \in Savers, SaverFails(r) PROVE BindingInv'
  <2>1. SaverDone(r) /\ UNCHANGED <<shown, release, tenantDefault, binding>>
    BY <1>2 DEF SaverFails
  <2> QED BY <2>1, SaverDoneKeepsInv DEF BindingInv
<1>3. ASSUME NEW m \in LibraryModules \cup {Default}, NEW pin \in Pins, SetTenantDefault(m, pin)
      PROVE  BindingInv'
  <2>1. OthersChange /\ UNCHANGED <<shown, release>> /\ tenantDefault'.module = m
    BY <1>3 DEF SetTenantDefault
  <2>2. ReleaseTyped' /\ shown' \subseteq LibraryModules
    BY <2>1 DEF ReleaseTyped, BindingInv
  <2> QED BY <2>1, <2>2, OthersKeepBindingInv
<1>4. CASE UNCHANGED bindingVars
  <2>1. \A p : SaveFollows(p)' <=> SaveFollows(p)
    BY <1>4 DEF bindingVars, SaveFollows, Told, Candidates, FirstBundled, Earliest,
                ValidateParamValues, Published
  <2>2. saver' = saver
    BY <1>4 DEF bindingVars
  <2>3. \A r \in Savers : SaveFollows(saver[r])'
    BY <2>1, <2>2 DEF BindingInv
  <2> QED BY <1>4, <2>3 DEF bindingVars, BindingInv, ReleaseTyped
<1> QED BY <1>1, <1>2, <1>3, <1>4, ListKeepsInv, RowKeepsInv, LookupKeepsInv, CheckKeepsInv,
           WriteKeepsInv, RemoveKeepsInv, OtherChangesKeepInv DEF BindingNext

LEMMA BindingInvHolds == BindingSpec => []BindingInv
BY BindingInitInv, BindingNextKeepsInv, PTL DEF BindingSpec

LEMMA BindingTypeCorrect == BindingSpec => []BindingTypeOK
<1>1. BindingInv => BindingTypeOK
  <2> SUFFICES ASSUME BindingInv PROVE BindingTypeOK
    OBVIOUS
  <2>1. \A m \in LibraryModules : \A n \in VersionNumbers(m) : release[m][n] \in ReleaseStates
    BY DEF BindingInv, ReleaseTyped
  <2>2. \A r \in Savers : saver[r].next \in {"none", "list", "row", "version", "write"}
    BY DEF BindingInv, SaverType
  <2> QED BY <2>1, <2>2 DEF BindingInv, BindingTypeOK
<1> QED BY <1>1, BindingInvHolds, PTL

(* What a save writes unless something overlaps it or a lookup fails has   *)
(* been checked against the module and the version that the binding then   *)
(* resolves to, for any library, versions, schemas, values and requests.   *)
THEOREM SavedAsResolved == BindingSpec => ValidatedAsResolved
<1>1. ASSUME BindingInv, NEW r \in Savers, WriteBinding(r), saver[r].steady, ~saver[r].blind,
             binding'.pin = Default,
             LET pick == ResolveBindingModule(binding') IN
               \/ pick.source = "binding"
               \/ /\ pick.source = "pluris" /\ binding'.module = Default
                  /\ pick.module = FirstBundled
      PROVE  LET pick == ResolveBindingModule(binding')
             IN  binding'.value \in Accepted[pick.module][pick.version]
  <2> DEFINE pick == ResolveBindingModule(binding')
             b == binding'
             chosen(m) == CHOOSE n \in Published(m) : TRUE
  <2>1. SaveFollows(saver[r]) /\ saver[r].next = "write" /\ b = saver[r].row
    BY <1>1 DEF BindingInv, WriteBinding, SaverAt
  <2>2. pick.module \in shown /\ Published(pick.module) # {}
          /\ pick.version = chosen(pick.module) /\ saver[r].picked = pick.module
    <3>1. CASE b.module # Default /\ Choosable(b.module, b.pin)
      <4>1. pick = Pick("binding", b.module, Default)
        BY <1>1, <3>1 DEF ResolveBindingModule
      <4>2. pick.module = b.module /\ pick.version = chosen(b.module)
        BY <4>1 DEF Pick, PickVersion
      <4>3. b.module \in shown /\ Published(b.module) # {}
        BY <1>1, <3>1 DEF Choosable, PickVersion
      <4>4. saver[r].picked = b.module
        BY <1>1, <2>1, <3>1 DEF SaveFollows, Told
      <4> QED BY <4>2, <4>3, <4>4
    <3>2. CASE ~(b.module # Default /\ Choosable(b.module, b.pin))
      <4>1. pick.source # "binding"
        BY <3>2 DEF ResolveBindingModule, Pick
      <4>2. pick.source = "pluris" /\ b.module = Default /\ pick.module = FirstBundled
        BY <1>1, <4>1
      <4>3. PlurisDefaults # {} /\ pick = Pick("pluris", Earliest(PlurisDefaults), Default)
        BY <3>2, <4>2 DEF ResolveBindingModule, Pick
      <4>4. pick.module = Earliest(PlurisDefaults) /\ pick.version = chosen(pick.module)
        BY <4>3 DEF Pick, PickVersion
      <4>5. PlurisDefaults \in SUBSET LibraryModules
        BY BindingConstants DEF PlurisDefaults
      <4>6. pick.module \in PlurisDefaults
        BY <4>3, <4>4, <4>5, EarliestIsOne
      <4>7. pick.module \in Candidates /\ Published(pick.module) # {}
        BY <4>6 DEF PlurisDefaults, Choosable, PickVersion, Candidates
      <4>8. saver[r].picked = FirstBundled
        BY <1>1, <2>1, <4>2, <4>7 DEF SaveFollows, Told
      <4> QED BY <4>2, <4>4, <4>7, <4>8 DEF Candidates
    <3> QED BY <3>1, <3>2
  <2>3. ValidateParamValues(pick.module, b.value)
    BY <1>1, <2>1, <2>2 DEF SaveFollows, Told
  <2>4. chosen(pick.module) \in Published(pick.module)
    BY <2>2
  <2> QED BY <2>2, <2>3, <2>4 DEF ValidateParamValues
<1>2. BindingInv /\ [BindingNext]_bindingVars =>
        [\A r \in Savers :
           WriteBinding(r) /\ saver[r].steady /\ ~saver[r].blind /\ binding'.pin = Default =>
             LET pick == ResolveBindingModule(binding') IN
             (\/ pick.source = "binding"
              \/ pick.source = "pluris" /\ binding'.module = Default /\ pick.module = FirstBundled)
             => binding'.value \in Accepted[pick.module][pick.version]]_bindingVars
  BY <1>1
<1> QED BY <1>2, BindingInvHolds, PTL DEF BindingSpec, ValidatedAsResolved

-----------------------------------------------------------------------------
(* DemoSeed.                                                               *)

(* The rows a list of entries is about.                                    *)
RowsOf(entries) == {entries[n].row : n \in DOMAIN entries}

NamedRows ==
    {TenantSeed} \cup Range(SiteSeeds) \cup Range(ComputerSeeds) \cup Range(ServerSeeds)
      \cup Range(PrinterSeeds) \cup Range(DeskSeeds) \cup Range(IdentitySeeds)
      \cup Range(GroupSeeds)

NamedEntries == [stage : {"row", "asset", "identity", "group"}, row : NamedRows]

NamedLen == Len(NamedStages)

SoftwareLen == Len(SoftwareSeeds)

LEMMA ConcatPlaces ==
    ASSUME NEW S, NEW s \in Seq(S), NEW t \in Seq(S)
    PROVE  /\ s \o t \in Seq(S) /\ Len(s \o t) = Len(s) + Len(t)
           /\ \A n \in 1 .. Len(s) : (s \o t)[n] = s[n]
           /\ \A n \in 1 .. Len(t) : (s \o t)[Len(s) + n] = t[n]
OBVIOUS

LEMMA RangeOfConcat ==
    ASSUME NEW S, NEW s \in Seq(S), NEW t \in Seq(S)
    PROVE  Range(s \o t) = Range(s) \cup Range(t)
<1> DEFINE st == s \o t
<1>1. /\ st \in Seq(S) /\ Len(st) = Len(s) + Len(t) /\ Len(s) \in Nat /\ Len(t) \in Nat
      /\ DOMAIN st = 1 .. Len(st) /\ DOMAIN s = 1 .. Len(s) /\ DOMAIN t = 1 .. Len(t)
  OBVIOUS
<1>2. \A n \in 1 .. Len(s) : st[n] = s[n]
  OBVIOUS
<1>3. \A n \in 1 .. Len(t) : st[Len(s) + n] = t[n]
  OBVIOUS
<1> HIDE DEF st
<1>4. \A n \in DOMAIN st : st[n] \in Range(s) \cup Range(t)
  <2> TAKE n \in DOMAIN st
  <2>1. CASE n <= Len(s)
    BY <1>1, <1>2, <2>1 DEF Range
  <2>2. CASE n > Len(s)
    <3>1. n - Len(s) \in DOMAIN t /\ n = Len(s) + (n - Len(s))
      BY <1>1, <2>2
    <3> QED BY <1>1, <1>3, <3>1 DEF Range
  <2> QED BY <1>1, <2>1, <2>2
<1>5. Range(s) \subseteq Range(st)
  BY <1>1, <1>2 DEF Range
<1>6. Range(t) \subseteq Range(st)
  <2>1. \A n \in DOMAIN t : Len(s) + n \in DOMAIN st
    BY <1>1
  <2> QED BY <1>1, <1>3, <2>1 DEF Range
<1> QED BY <1>4, <1>5, <1>6 DEF Range, st

LEMMA OfIsSeq ==
    ASSUME NEW stage \in {"row", "asset", "identity", "group"}, NEW list \in Seq(NamedRows)
    PROVE  /\ Of(stage, list) \in Seq(NamedEntries)
           /\ RowsOf(Of(stage, list)) = Range(list)
<1> DEFINE of == Of(stage, list)
           n == Len(list)
<1>1. n \in Nat /\ DOMAIN list = 1 .. n /\ \A k \in 1 .. n : list[k] \in NamedRows
  OBVIOUS
<1>2. of = [k \in 1 .. n |-> [stage |-> stage, row |-> list[k]]]
  BY <1>1 DEF Of
<1> HIDE DEF n
<1>3. of \in [1 .. n -> NamedEntries]
  BY <1>1, <1>2 DEF NamedEntries
<1>4. of \in Seq(NamedEntries) /\ DOMAIN of = DOMAIN list
  BY <1>1, <1>3
<1>5. \A k \in DOMAIN of : of[k].row = list[k]
  BY <1>1, <1>2, <1>4
<1> HIDE DEF of
<1>6. RowsOf(of) = Range(list)
  BY <1>4, <1>5 DEF RowsOf, Range
<1> QED BY <1>4, <1>6 DEF of

LEMMA RowsOfConcat ==
    ASSUME NEW s \in Seq(NamedEntries), NEW t \in Seq(NamedEntries)
    PROVE  s \o t \in Seq(NamedEntries) /\ RowsOf(s \o t) = RowsOf(s) \cup RowsOf(t)
<1> DEFINE st == s \o t
<1>1. /\ st \in Seq(NamedEntries) /\ Len(st) = Len(s) + Len(t)
      /\ Len(s) \in Nat /\ Len(t) \in Nat
      /\ DOMAIN st = 1 .. Len(st) /\ DOMAIN s = 1 .. Len(s) /\ DOMAIN t = 1 .. Len(t)
  OBVIOUS
<1>2. Range(st) = Range(s) \cup Range(t)
  BY RangeOfConcat
<1> HIDE DEF st
<1>3. \A u \in {s, t, st} : RowsOf(u) = {e.row : e \in Range(u)}
  BY DEF RowsOf, Range
<1>4. RowsOf(st) = RowsOf(s) \cup RowsOf(t)
  BY <1>2, <1>3
<1> QED BY <1>1, <1>4 DEF st

LEMMA NamedStagesShape == NamedStages \in Seq(NamedEntries) /\ Rows = NamedRows
<1>1. /\ <<TenantSeed>> \in Seq(NamedRows) /\ Range(<<TenantSeed>>) = {TenantSeed}
      /\ SiteSeeds \in Seq(NamedRows) /\ ComputerSeeds \in Seq(NamedRows)
      /\ ServerSeeds \in Seq(NamedRows) /\ PrinterSeeds \in Seq(NamedRows)
      /\ DeskSeeds \in Seq(NamedRows) /\ IdentitySeeds \in Seq(NamedRows)
      /\ GroupSeeds \in Seq(NamedRows)
  <2>1. ASSUME NEW list, list \in Seq(Range(list)), Range(list) \subseteq NamedRows
        PROVE  list \in Seq(NamedRows)
    BY <2>1, SeqMonotonic
  <2>2. <<TenantSeed>> \in Seq(NamedRows) /\ Range(<<TenantSeed>>) = {TenantSeed}
    BY DEF NamedRows, Range
  <2> QED BY <2>1, <2>2, SeedListsAreSequences DEF NamedRows
<1>2. /\ TenantStage \in Seq(NamedEntries) /\ RowsOf(TenantStage) = {TenantSeed}
      /\ SiteStage \in Seq(NamedEntries) /\ RowsOf(SiteStage) = Range(SiteSeeds)
      /\ ComputerStage \in Seq(NamedEntries) /\ RowsOf(ComputerStage) = Range(ComputerSeeds)
      /\ ServerStage \in Seq(NamedEntries) /\ RowsOf(ServerStage) = Range(ServerSeeds)
      /\ PrinterStage \in Seq(NamedEntries) /\ RowsOf(PrinterStage) = Range(PrinterSeeds)
      /\ DeskStage \in Seq(NamedEntries) /\ RowsOf(DeskStage) = Range(DeskSeeds)
      /\ IdentityStage \in Seq(NamedEntries) /\ RowsOf(IdentityStage) = Range(IdentitySeeds)
      /\ GroupStage \in Seq(NamedEntries) /\ RowsOf(GroupStage) = Range(GroupSeeds)
  BY <1>1, OfIsSeq DEF TenantStage, SiteStage, ComputerStage, ServerStage, PrinterStage,
                       DeskStage, IdentityStage, GroupStage
<1> DEFINE S2 == TenantStage \o SiteStage
           S3 == S2 \o ComputerStage
           S4 == S3 \o ServerStage
           S5 == S4 \o PrinterStage
           S6 == S5 \o DeskStage
           S7 == S6 \o IdentityStage
           S8 == S7 \o GroupStage
<1>10. NamedStages = S8
  BY DEF NamedStages
<1> HIDE DEF S8
<1>3. S2 \in Seq(NamedEntries) /\ RowsOf(S2) = RowsOf(TenantStage) \cup RowsOf(SiteStage)
  BY <1>2, RowsOfConcat
<1> HIDE DEF S2
<1>4. S3 \in Seq(NamedEntries) /\ RowsOf(S3) = RowsOf(S2) \cup RowsOf(ComputerStage)
  BY <1>2, <1>3, RowsOfConcat
<1> HIDE DEF S3
<1>5. S4 \in Seq(NamedEntries) /\ RowsOf(S4) = RowsOf(S3) \cup RowsOf(ServerStage)
  BY <1>2, <1>4, RowsOfConcat
<1> HIDE DEF S4
<1>6. S5 \in Seq(NamedEntries) /\ RowsOf(S5) = RowsOf(S4) \cup RowsOf(PrinterStage)
  BY <1>2, <1>5, RowsOfConcat
<1> HIDE DEF S5
<1>7. S6 \in Seq(NamedEntries) /\ RowsOf(S6) = RowsOf(S5) \cup RowsOf(DeskStage)
  BY <1>2, <1>6, RowsOfConcat
<1> HIDE DEF S6
<1>8. S7 \in Seq(NamedEntries) /\ RowsOf(S7) = RowsOf(S6) \cup RowsOf(IdentityStage)
  BY <1>2, <1>7, RowsOfConcat
<1> HIDE DEF S7
<1>9. S8 \in Seq(NamedEntries) /\ RowsOf(S8) = RowsOf(S7) \cup RowsOf(GroupStage)
  BY <1>2, <1>8, RowsOfConcat DEF S8
<1>11. Rows = RowsOf(NamedStages)
  BY DEF Rows, RowsOf
<1>12. RowsOf(S8) = NamedRows
  BY <1>2, <1>3, <1>4, <1>5, <1>6, <1>7, <1>8, <1>9 DEF NamedRows
<1> QED BY <1>9, <1>10, <1>11, <1>12

(* Where in the plan what stands.                                          *)
LEMMA PlanShape ==
    /\ NamedLen \in Nat /\ SoftwareLen \in Nat /\ Len(Plan) = NamedLen + SoftwareLen + 5
    /\ \A n \in 1 .. NamedLen : Plan[n].row \in Rows
         /\ Plan[n].stage \in {"row", "asset", "identity", "group"}
    /\ \A x \in Rows : \E n \in 1 .. NamedLen : Plan[n].row = x
    /\ Plan[NamedLen + 1].stage = "members" /\ Plan[NamedLen + 2].stage = "baseline"
    /\ Plan[NamedLen + 3].stage = "binding" /\ Plan[NamedLen + 4].stage = "assignment"
    /\ \A n \in 1 .. SoftwareLen : Plan[NamedLen + 4 + n].stage = "software"
                                /\ Plan[NamedLen + 4 + n].row = SoftwareSeeds[n]
    /\ Plan[NamedLen + SoftwareLen + 5].stage = "extras"
<1> DEFINE A == NamedStages
           B == [n \in 1 .. 4 |-> [stage |-> <<"members", "baseline", "binding", "assignment">>[n]]]
           C == Of("software", SoftwareSeeds)
           D == <<[stage |-> "extras"]>>
           S == Range(A) \cup Range(B) \cup Range(C) \cup Range(D)
<1>1. A \in Seq(S) /\ Len(A) = NamedLen /\ NamedLen \in Nat /\ A \in Seq(NamedEntries)
  <2>1. A \in Seq(NamedEntries)
    BY NamedStagesShape
  <2>2. Len(A) \in Nat /\ DOMAIN A = 1 .. Len(A) /\ A \in [1 .. Len(A) -> S]
    BY <2>1 DEF Range
  <2> HIDE DEF S, A
  <2> QED BY <2>1, <2>2 DEF NamedLen, A
<1>2. /\ B \in Seq(S) /\ Len(B) = 4 /\ B[1].stage = "members" /\ B[2].stage = "baseline"
      /\ B[3].stage = "binding" /\ B[4].stage = "assignment"
  <2>1. DOMAIN B = 1 .. 4 /\ B \in [1 .. 4 -> S]
    BY DEF Range
  <2>2. /\ B[1].stage = "members" /\ B[2].stage = "baseline"
        /\ B[3].stage = "binding" /\ B[4].stage = "assignment"
    OBVIOUS
  <2> QED BY <2>1, <2>2
<1>3. /\ C \in Seq(S) /\ Len(C) = SoftwareLen /\ SoftwareLen \in Nat
      /\ \A n \in 1 .. SoftwareLen : C[n].stage = "software" /\ C[n].row = SoftwareSeeds[n]
  <2>1. SoftwareSeeds \in Seq(Range(SoftwareSeeds))
    BY SeedListsAreSequences
  <2>2. SoftwareLen \in Nat /\ DOMAIN SoftwareSeeds = 1 .. SoftwareLen
    BY <2>1 DEF SoftwareLen
  <2>3. C = [n \in 1 .. SoftwareLen |-> [stage |-> "software", row |-> SoftwareSeeds[n]]]
    BY <2>2 DEF Of
  <2>4. DOMAIN C = 1 .. SoftwareLen /\ C \in [1 .. SoftwareLen -> S]
    BY <2>3 DEF Range
  <2> HIDE DEF C, S
  <2>5. \A n \in 1 .. SoftwareLen : C[n].stage = "software" /\ C[n].row = SoftwareSeeds[n]
    BY <2>3
  <2> QED BY <2>2, <2>4, <2>5
<1>4. D \in Seq(S) /\ Len(D) = 1 /\ D[1].stage = "extras"
  <2>1. D[1] \in S
    BY DEF Range
  <2> QED BY <2>1
<1>5. Plan = ((A \o B) \o C) \o D
  BY DEF Plan
<1> HIDE DEF A, B, C, D, S
<1> DEFINE AB == A \o B
           ABC == AB \o C
           ABCD == ABC \o D
<1>6. /\ AB \in Seq(S) /\ Len(AB) = NamedLen + 4
      /\ \A n \in 1 .. NamedLen : AB[n] = A[n]
      /\ \A n \in 1 .. 4 : AB[NamedLen + n] = B[n]
  <2>0. A \in Seq(S) /\ B \in Seq(S)
    BY <1>1, <1>2
  <2>1. /\ AB \in Seq(S) /\ Len(AB) = Len(A) + Len(B)
        /\ \A n \in 1 .. Len(A) : AB[n] = A[n]
        /\ \A n \in 1 .. Len(B) : AB[Len(A) + n] = B[n]
    BY <2>0, ConcatPlaces
  <2> HIDE DEF AB
  <2> QED BY <1>1, <1>2, <2>1
<1> HIDE DEF AB
<1>7. /\ ABC \in Seq(S) /\ Len(ABC) = NamedLen + 4 + SoftwareLen
      /\ \A n \in 1 .. NamedLen + 4 : ABC[n] = AB[n]
      /\ \A n \in 1 .. SoftwareLen : ABC[NamedLen + 4 + n] = C[n]
  <2>0. AB \in Seq(S) /\ C \in Seq(S)
    BY <1>3, <1>6
  <2>1. /\ ABC \in Seq(S) /\ Len(ABC) = Len(AB) + Len(C)
        /\ \A n \in 1 .. Len(AB) : ABC[n] = AB[n]
        /\ \A n \in 1 .. Len(C) : ABC[Len(AB) + n] = C[n]
    BY <2>0, ConcatPlaces
  <2> HIDE DEF ABC
  <2> QED BY <1>1, <1>3, <1>6, <2>1
<1> HIDE DEF ABC
<1>8. /\ Len(ABCD) = NamedLen + 4 + SoftwareLen + 1
      /\ \A n \in 1 .. NamedLen + 4 + SoftwareLen : ABCD[n] = ABC[n]
      /\ ABCD[NamedLen + 4 + SoftwareLen + 1] = D[1]
  <2>0. ABC \in Seq(S) /\ D \in Seq(S)
    BY <1>4, <1>7
  <2>1. /\ Len(ABCD) = Len(ABC) + Len(D)
        /\ \A n \in 1 .. Len(ABC) : ABCD[n] = ABC[n]
        /\ \A n \in 1 .. Len(D) : ABCD[Len(ABC) + n] = D[n]
    BY <2>0, ConcatPlaces
  <2> HIDE DEF ABCD
  <2> QED BY <1>1, <1>3, <1>4, <1>7, <2>1
<1>9. Plan = ABCD
  BY <1>5 DEF AB, ABC
<1> HIDE DEF ABCD
<1>10. \A n \in 1 .. NamedLen : Plan[n] = A[n]
  BY <1>1, <1>3, <1>6, <1>7, <1>8, <1>9
<1>11. \A n \in 1 .. NamedLen : A[n] \in NamedEntries /\ DOMAIN A = 1 .. NamedLen
  BY <1>1
<1>12. \A n \in 1 .. NamedLen : Plan[n].row \in Rows
         /\ Plan[n].stage \in {"row", "asset", "identity", "group"}
  BY <1>10, <1>11, NamedStagesShape DEF NamedEntries
<1>13. \A x \in Rows : \E n \in 1 .. NamedLen : Plan[n].row = x
  <2>1. \A x \in Rows : \E n \in DOMAIN A : A[n].row = x
    BY DEF Rows, A
  <2>2. DOMAIN A = 1 .. NamedLen
    BY <1>1
  <2> QED BY <1>10, <2>1, <2>2
<1>14. \A n \in 1 .. 4 : Plan[NamedLen + n] = B[n]
  BY <1>1, <1>3, <1>6, <1>7, <1>8, <1>9
<1>15. /\ Plan[NamedLen + 1].stage = "members" /\ Plan[NamedLen + 2].stage = "baseline"
       /\ Plan[NamedLen + 3].stage = "binding" /\ Plan[NamedLen + 4].stage = "assignment"
  BY <1>2, <1>14
<1>16. \A n \in 1 .. SoftwareLen : Plan[NamedLen + 4 + n] = C[n]
  BY <1>1, <1>3, <1>7, <1>8, <1>9
<1>17. NamedLen + 4 + SoftwareLen + 1 = NamedLen + SoftwareLen + 5
  BY <1>1, <1>3
<1> QED BY <1>1, <1>3, <1>4, <1>8, <1>9, <1>12, <1>13, <1>15, <1>16, <1>17

-----------------------------------------------------------------------------

FullMembers ==
    Range(FirstComputerIDs(3) \o FirstOf(KeepAt(IdentitySeeds, DOMAIN IdentitySeeds), 2))

FullDescribed == Range(FirstComputerIDs(2))

Live(bl) == {b \in BaselineRows : bl[b].state = "active"}

(* What the entries before p of the plan leave behind.                     *)
DoneUpTo(p, sd, ms, bl, sw, ds) ==
    /\ \A n \in 1 .. NamedLen : n < p => sd[Plan[n].row] = "active"
    /\ p > NamedLen + 1 => ms = FullMembers
    /\ p > NamedLen + 2 => Live(bl) # {}
    /\ p > NamedLen + 3 => \E b \in Live(bl) : bl[b].bound = TRUE
    /\ p > NamedLen + 4 => \E b \in Live(bl) : bl[b].bound = TRUE /\ bl[b].assigned = TRUE
    /\ \A n \in 1 .. SoftwareLen : NamedLen + 4 + n < p => sw[SoftwareSeeds[n]] = 1
    /\ p > NamedLen + SoftwareLen + 5 => ds = FullDescribed

SeedDone(p) == DoneUpTo(p, seeded, members, baselines, software, described)

(* As long as nobody has deleted anything, what lies behind the run is     *)
(* done, to the baseline it uses, and so is everything once a run has been *)
(* complete.                                                               *)
Undisturbed ==
    /\ \A x \in Rows : seeded[x] # "binned"
    /\ \A b \in BaselineRows : baselines[b].state # "active" => baselines[b] = NoBaseline
    /\ members \subseteq FullMembers
    /\ SeedDone(at.entry)
    /\ at.second => SeedDone(at.entry + 1)
    /\ seedLog.complete => SeedDone(Len(Plan) + 1)
    /\ at.entry > NamedLen + 2 => at.base \in Live(baselines)
    /\ at.entry > NamedLen + 3 => baselines[at.base].bound = TRUE

SeedStates == {"none", "active", "binned"}

BaselineType == [state : SeedStates, bound : BOOLEAN, assigned : BOOLEAN]

(* The tables, with one baseline or maybe two, and the run.                *)
TablesTyped(sd, hf, ms, bl, sw, ds, two) ==
    /\ sd \in [Rows -> SeedStates]
    /\ hf \subseteq Rows /\ ms \subseteq Rows /\ ds \subseteq FullDescribed
    /\ bl \in [BaselineRows -> BaselineType]
    /\ sw \in [Range(SoftwareSeeds) -> 0 .. 1]
    /\ ~two => \A b, c \in Live(bl) : b = c

RunTyped(a) ==
    /\ a \in [entry : 0 .. Len(Plan), second : BOOLEAN, base : BaselineRows]
    /\ a.entry = 0 => a = NoRun
    /\ a.second => a.entry \in 1 .. NamedLen

LogType == [complete : BOOLEAN, deleted : BOOLEAN, restored : BOOLEAN, mistaken : BOOLEAN]

MayBeTwo == seedLog.restored \/ seedLog.mistaken

SeedInv ==
    /\ TablesTyped(seeded, half, members, baselines, software, described, MayBeTwo)
    /\ RunTyped(at) /\ seedLog \in LogType
    /\ ~seedLog.deleted => Undisturbed

(* How a run changes the tables.                                           *)
SeededGrows(sd, sd2) ==
    \A x \in Rows : sd2[x] # "binned" /\ (sd[x] = "active" => sd2[x] = "active")

BaselinesGrow(bl, bl2) ==
    /\ \A b \in BaselineRows : bl2[b].state # "active" => bl2[b] = NoBaseline
    /\ Live(bl) \subseteq Live(bl2)
    /\ \A b \in Live(bl) : /\ bl[b].bound = TRUE => bl2[b].bound = TRUE
                           /\ bl[b].assigned = TRUE => bl2[b].assigned = TRUE

TablesGrow(sd, ms, bl, sw, ds, sd2, ms2, bl2, sw2, ds2) ==
    /\ SeededGrows(sd, sd2) /\ BaselinesGrow(bl, bl2)
    /\ ms \subseteq ms2 /\ ms2 \subseteq FullMembers
    /\ ds \subseteq ds2 /\ ds2 \subseteq FullDescribed
    /\ \A x \in Range(SoftwareSeeds) : sw[x] = 1 => sw2[x] = 1

Grow == TablesGrow(seeded, members, baselines, software, described,
                   seeded', members', baselines', software', described')

Typed(two) == TablesTyped(seeded', half', members', baselines', software', described', two)

DoneAfter(p) == DoneUpTo(p, seeded', members', baselines', software', described')

-----------------------------------------------------------------------------

LEMMA DoneGrows ==
    ASSUME NEW p \in Int, NEW sd, NEW ms, NEW bl, NEW sw, NEW ds,
           NEW sd2, NEW ms2, NEW bl2, NEW sw2, NEW ds2,
           DoneUpTo(p, sd, ms, bl, sw, ds),
           TablesGrow(sd, ms, bl, sw, ds, sd2, ms2, bl2, sw2, ds2)
    PROVE  DoneUpTo(p, sd2, ms2, bl2, sw2, ds2)
<1>0. NamedLen \in Nat /\ SoftwareLen \in Nat
  BY PlanShape
<1>1. \A n \in 1 .. NamedLen : n < p => sd2[Plan[n].row] = "active"
  BY PlanShape DEF DoneUpTo, TablesGrow, SeededGrows
<1>2. p > NamedLen + 1 => ms2 = FullMembers
  BY DEF DoneUpTo, TablesGrow
<1>3. p > NamedLen + 2 => Live(bl2) # {}
  BY DEF DoneUpTo, TablesGrow, BaselinesGrow
<1>4. p > NamedLen + 3 => \E b \in Live(bl2) : bl2[b].bound = TRUE
  BY DEF DoneUpTo, TablesGrow, BaselinesGrow
<1>5. p > NamedLen + 4 => \E b \in Live(bl2) : bl2[b].bound = TRUE /\ bl2[b].assigned = TRUE
  BY DEF DoneUpTo, TablesGrow, BaselinesGrow
<1>6. \A n \in 1 .. SoftwareLen : NamedLen + 4 + n < p => sw2[SoftwareSeeds[n]] = 1
  <2>1. DOMAIN SoftwareSeeds = 1 .. SoftwareLen
    BY SeedListsAreSequences DEF SoftwareLen
  <2>2. \A n \in 1 .. SoftwareLen : SoftwareSeeds[n] \in Range(SoftwareSeeds)
    BY <2>1 DEF Range
  <2> QED BY <2>2 DEF DoneUpTo, TablesGrow
<1>7. p > NamedLen + SoftwareLen + 5 => ds2 = FullDescribed
  BY DEF DoneUpTo, TablesGrow
<1> QED BY <1>1, <1>2, <1>3, <1>4, <1>5, <1>6, <1>7 DEF DoneUpTo

LEMMA StayingGrows ==
    ASSUME SeedInv, ~seedLog.deleted
    PROVE  /\ SeededGrows(seeded, seeded) /\ BaselinesGrow(baselines, baselines)
           /\ members \subseteq FullMembers /\ described \subseteq FullDescribed
BY DEF SeedInv, Undisturbed, SeededGrows, BaselinesGrow, TablesTyped

(* Where the run is by what it does next.                                  *)
LEMMA StagePlace ==
    ASSUME SeedInv, at # NoRun
    PROVE  /\ at.entry \in 1 .. Len(Plan) /\ at.base \in BaselineRows
           /\ Plan[at.entry].stage \in {"row", "asset", "identity", "group"} =>
                at.entry \in 1 .. NamedLen /\ Entry \in Rows
           /\ Plan[at.entry].stage = "members" => at.entry = NamedLen + 1
           /\ Plan[at.entry].stage = "baseline" => at.entry = NamedLen + 2
           /\ Plan[at.entry].stage = "binding" => at.entry = NamedLen + 3
           /\ Plan[at.entry].stage = "assignment" => at.entry = NamedLen + 4
           /\ Plan[at.entry].stage = "software" =>
                \E n \in 1 .. SoftwareLen : at.entry = NamedLen + 4 + n /\ Entry = SoftwareSeeds[n]
           /\ Plan[at.entry].stage = "extras" => at.entry = NamedLen + SoftwareLen + 5
<1> DEFINE e == at.entry
           stage == Plan[e].stage
<1>1. e \in 1 .. Len(Plan) /\ at.base \in BaselineRows /\ NamedLen \in Nat /\ SoftwareLen \in Nat
        /\ Len(Plan) = NamedLen + SoftwareLen + 5
  <2>1. at \in [entry : 0 .. Len(Plan), second : BOOLEAN, base : BaselineRows] /\ e # 0
    BY DEF SeedInv, RunTyped
  <2>2. e \in 0 .. Len(Plan) /\ at.base \in BaselineRows
    BY <2>1
  <2> HIDE DEF e
  <2> QED BY <2>1, <2>2, PlanShape
<1>2. CASE e \in 1 .. NamedLen
  <2>1. stage \in {"row", "asset", "identity", "group"} /\ Plan[e].row \in Rows
    BY <1>2, PlanShape
  <2> QED BY <1>1, <1>2, <2>1 DEF Entry
<1>3. CASE e \in {NamedLen + 1, NamedLen + 2, NamedLen + 3, NamedLen + 4, NamedLen + SoftwareLen + 5}
  <2>1. Plan[NamedLen + 1].stage = "members" /\ Plan[NamedLen + 2].stage = "baseline"
          /\ Plan[NamedLen + 3].stage = "binding" /\ Plan[NamedLen + 4].stage = "assignment"
          /\ Plan[NamedLen + SoftwareLen + 5].stage = "extras"
    BY PlanShape
  <2> QED BY <1>1, <1>3, <2>1
<1>4. CASE \E n \in 1 .. SoftwareLen : e = NamedLen + 4 + n
  <2>1. PICK n \in 1 .. SoftwareLen : e = NamedLen + 4 + n
    BY <1>4
  <2>2. stage = "software" /\ Plan[e].row = SoftwareSeeds[n]
    BY <2>1, PlanShape
  <2> QED BY <1>1, <2>1, <2>2 DEF Entry
<1>5. e > NamedLen + 4 /\ e < NamedLen + SoftwareLen + 5 =>
        \E n \in 1 .. SoftwareLen : e = NamedLen + 4 + n
  <2>1. e > NamedLen + 4 /\ e < NamedLen + SoftwareLen + 5 =>
          /\ e - (NamedLen + 4) \in 1 .. SoftwareLen
          /\ e = NamedLen + 4 + (e - (NamedLen + 4))
    BY <1>1
  <2> QED BY <2>1
<1> HIDE DEF e, stage
<1>6. \/ e \in 1 .. NamedLen
      \/ e \in {NamedLen + 1, NamedLen + 2, NamedLen + 3, NamedLen + 4, NamedLen + SoftwareLen + 5}
      \/ e > NamedLen + 4 /\ e < NamedLen + SoftwareLen + 5
  BY <1>1
<1> QED BY <1>2, <1>3, <1>4, <1>5, <1>6

(* A statement of a run.                                                   *)
LEMMA RunKeepsInv ==
    ASSUME SeedInv, at # NoRun, seedLog' \in LogType,
           seedLog'.deleted = seedLog.deleted, Typed(MayBeTwo'), RunTyped(at'),
           ~seedLog.deleted => Grow,
           ~seedLog.deleted => DoneAfter(at'.entry) \/ at'.entry = 0,
           ~seedLog.deleted => (at'.second => DoneAfter(at'.entry + 1)),
           ~seedLog.deleted /\ seedLog'.complete => seedLog.complete \/ DoneAfter(Len(Plan) + 1),
           ~seedLog.deleted => (at'.entry > NamedLen + 2 => at'.base \in Live(baselines')),
           ~seedLog.deleted => (at'.entry > NamedLen + 3 => baselines'[at'.base].bound = TRUE)
    PROVE  SeedInv'
<1>1. ASSUME ~seedLog.deleted PROVE Undisturbed'
  <2>0. NamedLen \in Nat /\ SoftwareLen \in Nat /\ Len(Plan) \in Nat
    BY PlanShape
  <2>1. DoneAfter(0)
    BY <2>0 DEF DoneAfter, DoneUpTo
  <2>2. DoneAfter(at'.entry)
    BY <1>1, <2>1
  <2>3. seedLog'.complete => DoneAfter(Len(Plan) + 1)
    <3>1. CASE seedLog.complete
      <4>1. SeedDone(Len(Plan) + 1) /\ Len(Plan) + 1 \in Int
        BY <1>1, <2>0, <3>1 DEF SeedInv, Undisturbed
      <4> QED BY <1>1, <4>1, DoneGrows DEF SeedDone, DoneAfter, Grow
    <3> QED BY <1>1, <3>1
  <2>4. /\ \A x \in Rows : seeded'[x] # "binned"
        /\ \A b \in BaselineRows : baselines'[b].state # "active" => baselines'[b] = NoBaseline
        /\ members' \subseteq FullMembers
    BY <1>1 DEF Grow, TablesGrow, SeededGrows, BaselinesGrow
  <2> QED BY <1>1, <2>2, <2>3, <2>4 DEF Undisturbed, SeedDone, DoneAfter
<1>2. ~seedLog'.deleted => Undisturbed'
  BY <1>1
<1> QED BY <1>2 DEF SeedInv, Typed

LEMMA BreakKeepsInv ==
    ASSUME SeedInv, at # NoRun, at' = NoRun, UNCHANGED seedLog, Typed(MayBeTwo),
           ~seedLog.deleted => Grow
    PROVE  SeedInv'
<1>1. RunTyped(NoRun) /\ NoRun.entry = 0 /\ NoRun.second = FALSE
  BY PlanShape DEF RunTyped, NoRun, BaselineRows
<1>2. NamedLen \in Nat /\ ~(0 > NamedLen + 2) /\ ~(0 > NamedLen + 3)
  BY PlanShape
<1>3. seedLog' = seedLog /\ seedLog \in LogType /\ MayBeTwo' = MayBeTwo
  BY DEF SeedInv, MayBeTwo
<1> QED BY <1>1, <1>2, <1>3, RunKeepsInv

(* To the next entry, or the end.                                          *)
LEMMA NextKeepsInv ==
    ASSUME SeedInv, at # NoRun, NextEntry, Typed(MayBeTwo),
           ~seedLog.deleted => Grow, ~seedLog.deleted => DoneAfter(at.entry + 1),
           at.entry # NamedLen + 2,
           ~seedLog.deleted /\ at.entry = NamedLen + 3 => baselines'[at.base].bound = TRUE
    PROVE  SeedInv'
<1>0. /\ at.entry \in 1 .. Len(Plan) /\ at.base \in BaselineRows /\ Len(Plan) \in Nat
      /\ NamedLen \in Nat /\ seedLog \in LogType
      /\ at \in [entry : 0 .. Len(Plan), second : BOOLEAN, base : BaselineRows]
  BY StagePlace, PlanShape DEF SeedInv, RunTyped
<1>1. CASE at.entry < Len(Plan)
  <2> DEFINE m == at.entry + 1
             next == [at EXCEPT !.entry = m, !.second = FALSE]
  <2>0. m \in 0 .. Len(Plan)
    BY <1>0, <1>1
  <2>1. at' = next /\ seedLog' = seedLog
    BY <1>1 DEF NextEntry
  <2> HIDE DEF m
  <2>2. next.entry = m /\ next.second = FALSE /\ next.base = at.base
          /\ next \in [entry : 0 .. Len(Plan), second : BOOLEAN, base : BaselineRows]
    BY <1>0, <2>0
  <2> HIDE DEF next
  <2>3. RunTyped(next)
    BY <1>0, <2>2 DEF RunTyped, m
  <2>4. ~seedLog.deleted => (at.entry + 1 > NamedLen + 2 => at.base \in Live(baselines'))
    <3>1. SUFFICES ASSUME ~seedLog.deleted, at.entry + 1 > NamedLen + 2
                   PROVE  at.base \in Live(baselines')
      OBVIOUS
    <3>2. at.entry > NamedLen + 2
      BY <1>0, <3>1
    <3>3. at.base \in Live(baselines)
      BY <3>1, <3>2 DEF SeedInv, Undisturbed
    <3> QED BY <3>1, <3>3 DEF Grow, TablesGrow, BaselinesGrow
  <2>5. ~seedLog.deleted => (at.entry + 1 > NamedLen + 3 => baselines'[at.base].bound = TRUE)
    <3>1. SUFFICES ASSUME ~seedLog.deleted, at.entry + 1 > NamedLen + 3, at.entry # NamedLen + 3
                   PROVE  baselines'[at.base].bound = TRUE
      OBVIOUS
    <3>2. at.entry > NamedLen + 2 /\ at.entry > NamedLen + 3
      BY <1>0, <3>1
    <3>3. at.base \in Live(baselines) /\ baselines[at.base].bound = TRUE
      BY <3>1, <3>2 DEF SeedInv, Undisturbed
    <3> QED BY <3>1, <3>3 DEF Grow, TablesGrow, BaselinesGrow
  <2>6. MayBeTwo' = MayBeTwo
    BY <2>1 DEF MayBeTwo
  <2> QED BY <1>0, <2>1, <2>2, <2>3, <2>4, <2>5, <2>6, RunKeepsInv DEF m
<1>2. CASE ~(at.entry < Len(Plan))
  <2>1. at' = NoRun /\ seedLog' = [seedLog EXCEPT !.complete = TRUE] /\ at.entry = Len(Plan)
    BY <1>0, <1>2 DEF NextEntry
  <2>2. seedLog' \in LogType /\ seedLog'.deleted = seedLog.deleted /\ MayBeTwo' = MayBeTwo
    BY <1>0, <2>1 DEF LogType, MayBeTwo
  <2>3. RunTyped(NoRun) /\ NoRun.entry = 0 /\ NoRun.second = FALSE
    BY PlanShape DEF RunTyped, NoRun, BaselineRows
  <2>4. ~(0 > NamedLen + 2) /\ ~(0 > NamedLen + 3)
    BY <1>0
  <2> QED BY <2>1, <2>2, <2>3, <2>4, RunKeepsInv
<1> QED BY <1>1, <1>2

-----------------------------------------------------------------------------
(* One more entry of the plan.                                             *)
LEMMA DoneOneMore ==
    ASSUME NEW p \in Int, NEW sd, NEW ms, NEW bl, NEW sw, NEW ds,
           DoneUpTo(p, sd, ms, bl, sw, ds),
           p \in 1 .. NamedLen => sd[Plan[p].row] = "active",
           p = NamedLen + 1 => ms = FullMembers,
           p = NamedLen + 2 => Live(bl) # {},
           p = NamedLen + 3 => \E b \in Live(bl) : bl[b].bound = TRUE,
           p = NamedLen + 4 => \E b \in Live(bl) : bl[b].bound = TRUE /\ bl[b].assigned = TRUE,
           \A n \in 1 .. SoftwareLen : p = NamedLen + 4 + n => sw[SoftwareSeeds[n]] = 1,
           p = NamedLen + SoftwareLen + 5 => ds = FullDescribed
    PROVE  DoneUpTo(p + 1, sd, ms, bl, sw, ds)
<1>0. NamedLen \in Nat /\ SoftwareLen \in Nat
  BY PlanShape
<1>1. \A n \in 1 .. NamedLen : n < p + 1 => sd[Plan[n].row] = "active"
  <2> TAKE n \in 1 .. NamedLen
  <2>1. n < p + 1 => n < p \/ n = p
    BY <1>0
  <2> QED BY <2>1 DEF DoneUpTo
<1>2. \A n \in 1 .. SoftwareLen : NamedLen + 4 + n < p + 1 => sw[SoftwareSeeds[n]] = 1
  <2> TAKE n \in 1 .. SoftwareLen
  <2>1. NamedLen + 4 + n < p + 1 => NamedLen + 4 + n < p \/ p = NamedLen + 4 + n
    BY <1>0
  <2> QED BY <2>1 DEF DoneUpTo
<1>3. \A k \in Nat : p + 1 > NamedLen + k => p > NamedLen + k \/ p = NamedLen + k
  BY <1>0
<1>4. p + 1 > NamedLen + SoftwareLen + 5 =>
        p > NamedLen + SoftwareLen + 5 \/ p = NamedLen + SoftwareLen + 5
  BY <1>0
<1> QED BY <1>1, <1>2, <1>3, <1>4 DEF DoneUpTo

LEMMA DoneNow ==
    ASSUME SeedInv, at # NoRun, ~seedLog.deleted, Grow
    PROVE  DoneAfter(at.entry)
<1>1. at.entry \in Int
  BY StagePlace, PlanShape
<1>2. SeedDone(at.entry)
  BY DEF SeedInv, Undisturbed
<1> QED BY <1>1, <1>2, DoneGrows DEF SeedDone, DoneAfter, Grow

-----------------------------------------------------------------------------
(* Named rows.                                                             *)

LEMMA SkipKeepsInv ==
    ASSUME SeedInv, at # NoRun, at.entry \in 1 .. NamedLen, Entry \in Rows,
           seeded[Entry] # "none", SkipEntry,
           UNCHANGED <<members, baselines, software, described>>
    PROVE  SeedInv'
<1>1. UNCHANGED <<seeded, half>> /\ NextEntry
  BY DEF SkipEntry
<1>2. Typed(MayBeTwo)
  BY <1>1 DEF SeedInv, Typed
<1>3. ASSUME ~seedLog.deleted PROVE Grow
  BY <1>1, <1>3, StayingGrows DEF Grow, TablesGrow
<1>4. ASSUME ~seedLog.deleted PROVE DoneAfter(at.entry + 1)
  <2>1. seeded'[Plan[at.entry].row] = "active"
    BY <1>1, <1>4 DEF SeedInv, TablesTyped, SeedStates, Undisturbed, Entry
  <2>2. NamedLen \in Nat /\ SoftwareLen \in Nat
    BY PlanShape
  <2>3. DoneAfter(at.entry)
    BY <1>3, <1>4, DoneNow
  <2>4. at.entry \in Int /\ at.entry # NamedLen + 1 /\ at.entry # NamedLen + 2
          /\ at.entry # NamedLen + 3 /\ at.entry # NamedLen + 4
          /\ at.entry # NamedLen + SoftwareLen + 5
          /\ \A n \in 1 .. SoftwareLen : at.entry # NamedLen + 4 + n
    BY <2>2
  <2> QED BY <2>1, <2>3, <2>4, DoneOneMore DEF DoneAfter
<1>5. at.entry # NamedLen + 2 /\ at.entry # NamedLen + 3
  BY PlanShape
<1> QED BY <1>1, <1>2, <1>3, <1>4, <1>5, NextKeepsInv

LEMMA InsertKeepsInv ==
    ASSUME SeedInv, at # NoRun, at.entry \in 1 .. NamedLen, Entry \in Rows,
           NEW completed, InsertEntry(completed),
           UNCHANGED <<members, baselines, software, described>>
    PROVE  SeedInv'
<1>0. NamedLen \in Nat /\ SoftwareLen \in Nat /\ seeded \in [Rows -> SeedStates]
        /\ Len(Plan) = NamedLen + SoftwareLen + 5
  BY PlanShape DEF SeedInv, TablesTyped
<1>1. seeded' = [seeded EXCEPT ![Entry] = "active"] /\ half' \subseteq Rows
  BY DEF InsertEntry, SeedInv, TablesTyped
<1>2. seeded' \in [Rows -> SeedStates] /\ seeded'[Entry] = "active"
        /\ \A x \in Rows : x # Entry => seeded'[x] = seeded[x]
  BY <1>0, <1>1 DEF SeedStates
<1>3. Typed(MayBeTwo)
  BY <1>1, <1>2 DEF SeedInv, Typed, TablesTyped
<1>4. ASSUME ~seedLog.deleted PROVE Grow
  <2>1. SeededGrows(seeded, seeded')
    BY <1>2, <1>4, StayingGrows DEF SeededGrows
  <2> QED BY <1>4, <2>1, StayingGrows DEF Grow, TablesGrow
<1>5. ASSUME ~seedLog.deleted PROVE DoneAfter(at.entry) /\ DoneAfter(at.entry + 1)
  <2>1. seeded'[Plan[at.entry].row] = "active"
    BY <1>2 DEF Entry
  <2>3. DoneAfter(at.entry)
    BY <1>4, <1>5, DoneNow
  <2>4. at.entry \in Int /\ at.entry # NamedLen + 1 /\ at.entry # NamedLen + 2
          /\ at.entry # NamedLen + 3 /\ at.entry # NamedLen + 4
          /\ at.entry # NamedLen + SoftwareLen + 5
          /\ \A n \in 1 .. SoftwareLen : at.entry # NamedLen + 4 + n
    BY <1>0
  <2> QED BY <2>1, <2>3, <2>4, DoneOneMore DEF DoneAfter
<1>6. CASE completed
  <2>1. NextEntry
    BY <1>6 DEF InsertEntry
  <2>2. at.entry # NamedLen + 2 /\ at.entry # NamedLen + 3
    BY <1>0
  <2> QED BY <1>3, <1>4, <1>5, <2>1, <2>2, NextKeepsInv
<1>7. CASE ~completed
  <2> DEFINE next == [at EXCEPT !.second = TRUE]
  <2>1. at' = next /\ seedLog' = seedLog /\ seedLog \in LogType
    BY <1>7 DEF InsertEntry, SeedInv
  <2>2. next.entry = at.entry /\ next.second = TRUE /\ next.base = at.base
          /\ next \in [entry : 0 .. Len(Plan), second : BOOLEAN, base : BaselineRows]
    BY DEF SeedInv, RunTyped
  <2> HIDE DEF next
  <2>3. RunTyped(next)
    BY <2>2 DEF RunTyped
  <2>4. ~(at.entry > NamedLen + 2) /\ ~(at.entry > NamedLen + 3)
    BY <1>0
  <2>5. MayBeTwo' = MayBeTwo
    BY <2>1 DEF MayBeTwo
  <2> QED BY <1>3, <1>4, <1>5, <2>1, <2>2, <2>3, <2>4, <2>5, RunKeepsInv
<1> QED BY <1>6, <1>7

LEMMA NamedKeepInv ==
    ASSUME SeedInv,
           GetOrCreateSite \/ SeedAsset \/ SeedIdentity \/ GetOrCreateGroup
    PROVE  SeedInv'
<1>0. at # NoRun /\ Plan[at.entry].stage \in {"row", "asset", "identity", "group"}
  BY DEF GetOrCreateSite, SeedAsset, SeedIdentity, GetOrCreateGroup, AtStage
<1>1. at.entry \in 1 .. NamedLen /\ Entry \in Rows
  BY <1>0, StagePlace
<1>2. ASSUME NEW completed, InsertUnlessTaken(completed) PROVE SeedInv'
  <2>1. CASE seeded[Entry] = "none"
    BY <1>0, <1>1, <1>2, <2>1, InsertKeepsInv DEF InsertUnlessTaken
  <2>2. CASE seeded[Entry] # "none"
    BY <1>0, <1>1, <1>2, <2>2, SkipKeepsInv DEF InsertUnlessTaken
  <2> QED BY <2>1, <2>2
<1>3. CASE GetOrCreateGroup
  <2>1. CASE seeded[Entry] = "active"
    BY <1>0, <1>1, <1>3, <2>1, SkipKeepsInv DEF GetOrCreateGroup
  <2>2. CASE seeded[Entry] # "active"
    BY <1>0, <1>1, <1>3, <2>2, InsertKeepsInv DEF GetOrCreateGroup
  <2> QED BY <2>1, <2>2
<1>4. CASE GetOrCreateSite
  BY <1>2, <1>4 DEF GetOrCreateSite
<1>5. CASE SeedAsset
  BY <1>2, <1>5 DEF SeedAsset
<1>6. CASE SeedIdentity
  <2>1. InsertUnlessTaken(Entry \notin Flagged)
    BY <1>6 DEF SeedIdentity
  <2> QED BY <1>2, <2>1
<1> QED BY <1>3, <1>4, <1>5, <1>6

LEMMA SecondKeepsInv ==
    ASSUME SeedInv, SecondStatement
    PROVE  SeedInv'
<1>0. NamedLen \in Nat /\ at.second = TRUE
  BY PlanShape DEF SecondStatement, SeedInv, RunTyped
<1>1. at # NoRun
  BY <1>0 DEF NoRun
<1>2. at.entry \in 1 .. NamedLen /\ at.entry \in Int /\ at.entry # NamedLen + 2
        /\ at.entry # NamedLen + 3
  BY <1>0 DEF SeedInv, RunTyped
<1>3. NextEntry /\ half' \subseteq Rows /\ UNCHANGED <<seeded, members, baselines, software, described>>
  BY DEF SecondStatement, SeedInv, TablesTyped
<1>4. Typed(MayBeTwo)
  BY <1>3 DEF SeedInv, Typed, TablesTyped
<1>5. ASSUME ~seedLog.deleted PROVE Grow
  BY <1>3, <1>5, StayingGrows DEF Grow, TablesGrow
<1>6. ASSUME ~seedLog.deleted PROVE DoneAfter(at.entry + 1)
  BY <1>0, <1>3, <1>6 DEF SeedInv, Undisturbed, SeedDone, DoneAfter
<1> QED BY <1>1, <1>2, <1>3, <1>4, <1>5, <1>6, NextKeepsInv

-----------------------------------------------------------------------------
(* The lists that are gone through by one statement each.                  *)

LEMMA StartOfList ==
    ASSUME NEW S, NEW list \in Seq(S), NEW k \in 0 .. Len(list)
    PROVE  /\ Range(SubSeq(list, 1, k)) \subseteq Range(list)
           /\ k = Len(list) => Range(SubSeq(list, 1, k)) = Range(list)
           /\ SubSeq(list, 1, k) \in Seq(S)
<1> DEFINE part == SubSeq(list, 1, k)
<1>1. Len(list) \in Nat /\ DOMAIN list = 1 .. Len(list) /\ k \in Nat
        /\ \A i \in 1 .. Len(list) : list[i] \in S
  OBVIOUS
<1>2. part \in Seq(S) /\ Len(part) = k /\ \A i \in 1 .. k : part[i] = list[i]
  OBVIOUS
<1>3. DOMAIN part = 1 .. k
  BY <1>1, <1>2
<1> HIDE DEF part
<1>4. Range(part) \subseteq Range(list)
  BY <1>1, <1>2, <1>3 DEF Range
<1>5. k = Len(list) => Range(part) = Range(list)
  BY <1>1, <1>2, <1>3 DEF Range
<1> QED BY <1>2, <1>4, <1>5 DEF part

LEMMA FirstOfIsSeq ==
    ASSUME NEW S, NEW list \in Seq(S), NEW k \in Nat
    PROVE  FirstOf(list, k) \in Seq(S) /\ Range(FirstOf(list, k)) \subseteq Range(list)
<1> DEFINE l == IF k < Len(list) THEN k ELSE Len(list)
<1>1. l \in 0 .. Len(list)
  OBVIOUS
<1> HIDE DEF l
<1>2. FirstOf(list, k) = SubSeq(list, 1, l)
  BY DEF FirstOf, l
<1> QED BY <1>1, <1>2, StartOfList

LEMMA SeedListsInRows ==
    /\ ComputerSeeds \in Seq(Rows) /\ IdentitySeeds \in Seq(Rows)
    /\ FirstComputerIDs(2) \in Seq(Rows) /\ FirstComputerIDs(3) \in Seq(Rows)
    /\ FirstIdentities \in Seq(Rows)
    /\ FullDescribed \subseteq Rows
<1>1. ComputerSeeds \in Seq(Rows) /\ IdentitySeeds \in Seq(Rows)
  <2>1. ASSUME NEW list, list \in Seq(Range(list)), Range(list) \subseteq NamedRows
        PROVE  list \in Seq(Rows)
    BY <2>1, SeqMonotonic, NamedStagesShape
  <2> QED BY <2>1, SeedListsAreSequences DEF NamedRows
<1>2. FirstComputerIDs(2) \in Seq(Rows) /\ FirstComputerIDs(3) \in Seq(Rows)
  BY <1>1, FirstOfIsSeq DEF FirstComputerIDs
<1>3. FirstIdentities \in Seq(Rows)
  <2> DEFINE active == {n \in DOMAIN IdentitySeeds : seeded[IdentitySeeds[n]] = "active"}
  <2>1. KeepAt(IdentitySeeds, active) \in Seq(Rows)
    BY <1>1, KeptOnce
  <2>2. FirstOf(KeepAt(IdentitySeeds, active), 2) \in Seq(Rows)
    BY <2>1, FirstOfIsSeq
  <2> QED BY <2>2 DEF FirstIdentities
<1>4. FullDescribed \subseteq Rows
  BY <1>2 DEF FullDescribed, Range
<1> QED BY <1>1, <1>2, <1>3, <1>4

(* Once every row is there, the members are those of all identities.       *)
LEMMA AllMembers ==
    ASSUME \A x \in Rows : seeded[x] = "active"
    PROVE  FullMembers = Range(FirstComputerIDs(3) \o FirstIdentities)
<1> DEFINE active == {n \in DOMAIN IdentitySeeds : seeded[IdentitySeeds[n]] = "active"}
<1>1. \A n \in DOMAIN IdentitySeeds : IdentitySeeds[n] \in Rows
  BY SeedListsInRows
<1>2. active = DOMAIN IdentitySeeds
  BY <1>1
<1>3. FirstIdentities = FirstOf(KeepAt(IdentitySeeds, active), 2)
  BY DEF FirstIdentities
<1> HIDE DEF active
<1> QED BY <1>2, <1>3 DEF FullMembers

LEMMA MembersKeepInv ==
    ASSUME SeedInv, SeedMembers
    PROVE  SeedInv'
<1> DEFINE list == FirstComputerIDs(3) \o FirstIdentities
<1>0. /\ at # NoRun /\ at.entry = NamedLen + 1 /\ NamedLen \in Nat /\ SoftwareLen \in Nat
      /\ UNCHANGED <<seeded, half, baselines, software, described>>
  BY StagePlace, PlanShape DEF SeedMembers, AtStage
<1>1. PICK k \in 0 .. Len(list) :
        members' = members \cup Range(SubSeq(list, 1, k)) /\ EachOf(list, k)
  BY DEF SeedMembers
<1>2. list \in Seq(Rows)
  BY SeedListsInRows, ConcatPlaces
<1>3. ~seedLog.deleted => FullMembers = Range(list)
  <2> SUFFICES ASSUME ~seedLog.deleted PROVE FullMembers = Range(list)
    OBVIOUS
  <2>1. \A n \in 1 .. NamedLen : seeded[Plan[n].row] = "active"
    BY <1>0 DEF SeedInv, Undisturbed, SeedDone, DoneUpTo
  <2>2. \A x \in Rows : \E n \in 1 .. NamedLen : Plan[n].row = x
    BY PlanShape
  <2>3. \A x \in Rows : seeded[x] = "active"
    BY <2>1, <2>2
  <2> QED BY <2>3, AllMembers
<1> DEFINE part == Range(SubSeq(list, 1, k))
<1> HIDE DEF list
<1>4. part \subseteq Range(list) /\ (k = Len(list) => part = Range(list))
  BY <1>2, StartOfList
<1>5. Range(list) \subseteq Rows
  BY <1>2 DEF Range
<1>6. members' = members \cup part
  BY <1>1
<1> HIDE DEF part
<1>7. Typed(MayBeTwo)
  BY <1>0, <1>4, <1>5, <1>6 DEF SeedInv, Typed, TablesTyped
<1>8. ASSUME ~seedLog.deleted PROVE Grow
  BY <1>0, <1>3, <1>4, <1>6, <1>8, StayingGrows DEF Grow, TablesGrow
<1>9. CASE k = Len(list)
  <2>1. NextEntry
    BY <1>1, <1>9 DEF EachOf
  <2>2. ASSUME ~seedLog.deleted PROVE DoneAfter(at.entry + 1)
    <3>1. members' = FullMembers
      BY <1>3, <1>4, <1>6, <1>8, <1>9, <2>2 DEF Grow, TablesGrow
    <3>2. DoneAfter(at.entry)
      BY <1>0, <1>8, <2>2, DoneNow
    <3>3. at.entry \in Int /\ at.entry \notin 1 .. NamedLen /\ at.entry # NamedLen + 2
            /\ at.entry # NamedLen + 3 /\ at.entry # NamedLen + 4
            /\ at.entry # NamedLen + SoftwareLen + 5
            /\ \A n \in 1 .. SoftwareLen : at.entry # NamedLen + 4 + n
      BY <1>0
    <3> QED BY <3>1, <3>2, <3>3, DoneOneMore DEF DoneAfter
  <2>3. at.entry # NamedLen + 2 /\ at.entry # NamedLen + 3
    BY <1>0
  <2> QED BY <1>0, <1>7, <1>8, <2>1, <2>2, <2>3, NextKeepsInv
<1>10. CASE k # Len(list)
  <2>1. at' = NoRun /\ UNCHANGED seedLog
    BY <1>1, <1>10 DEF EachOf
  <2> QED BY <1>0, <1>7, <1>8, <2>1, BreakKeepsInv
<1> QED BY <1>9, <1>10

LEMMA ExtrasKeepInv ==
    ASSUME SeedInv, SeedExtras
    PROVE  SeedInv'
<1> DEFINE list == FirstComputerIDs(2)
<1>0. /\ at # NoRun /\ at.entry = NamedLen + SoftwareLen + 5 /\ NamedLen \in Nat /\ SoftwareLen \in Nat
      /\ UNCHANGED <<seeded, half, members, baselines, software>>
  BY StagePlace, PlanShape DEF SeedExtras, AtStage
<1>1. PICK k \in 0 .. Len(list) :
        described' = described \cup Range(SubSeq(list, 1, k)) /\ EachOf(list, k)
  BY DEF SeedExtras
<1>2. list \in Seq(Rows) /\ Range(list) = FullDescribed
  BY SeedListsInRows DEF FullDescribed
<1> DEFINE part == Range(SubSeq(list, 1, k))
<1> HIDE DEF list
<1>4. part \subseteq FullDescribed /\ (k = Len(list) => part = FullDescribed)
  BY <1>2, StartOfList
<1>6. described' = described \cup part
  BY <1>1
<1> HIDE DEF part
<1>7. Typed(MayBeTwo)
  BY <1>0, <1>4, <1>6 DEF SeedInv, Typed, TablesTyped
<1>8. ASSUME ~seedLog.deleted PROVE Grow
  BY <1>0, <1>4, <1>6, <1>8, StayingGrows DEF Grow, TablesGrow
<1>9. CASE k = Len(list)
  <2>1. NextEntry
    BY <1>1, <1>9 DEF EachOf
  <2>2. ASSUME ~seedLog.deleted PROVE DoneAfter(at.entry + 1)
    <3>1. described' = FullDescribed
      BY <1>4, <1>6, <1>8, <1>9, <2>2 DEF Grow, TablesGrow
    <3>2. DoneAfter(at.entry)
      BY <1>0, <1>8, <2>2, DoneNow
    <3>3. at.entry \in Int /\ at.entry \notin 1 .. NamedLen /\ at.entry # NamedLen + 1
            /\ at.entry # NamedLen + 2 /\ at.entry # NamedLen + 3 /\ at.entry # NamedLen + 4
            /\ \A n \in 1 .. SoftwareLen : at.entry # NamedLen + 4 + n
      BY <1>0
    <3> QED BY <3>1, <3>2, <3>3, DoneOneMore DEF DoneAfter
  <2>3. at.entry # NamedLen + 2 /\ at.entry # NamedLen + 3
    BY <1>0
  <2> QED BY <1>0, <1>7, <1>8, <2>1, <2>2, <2>3, NextKeepsInv
<1>10. CASE k # Len(list)
  <2>1. at' = NoRun /\ UNCHANGED seedLog
    BY <1>1, <1>10 DEF EachOf
  <2> QED BY <1>0, <1>7, <1>8, <2>1, BreakKeepsInv
<1> QED BY <1>9, <1>10

-----------------------------------------------------------------------------
(* The baseline, its binding and its assignment.                           *)

LEMMA BaselineKeepsInv ==
    ASSUME SeedInv, NEW b \in BaselineRows, SeedBaseline(b)
    PROVE  SeedInv'
<1>0. /\ at # NoRun /\ at.entry = NamedLen + 2 /\ NamedLen \in Nat /\ SoftwareLen \in Nat
      /\ UNCHANGED <<seeded, half, members, software, described>>
      /\ Len(Plan) = NamedLen + SoftwareLen + 5
      /\ at \in [entry : 0 .. Len(Plan), second : BOOLEAN, base : BaselineRows]
      /\ seedLog \in LogType
  BY StagePlace, PlanShape DEF SeedBaseline, AtStage, SeedInv, RunTyped
<1>1. at.second = FALSE
  BY <1>0 DEF SeedInv, RunTyped
<1>2. /\ baselines' \in [BaselineRows -> BaselineType] /\ b \in Live(baselines')
      /\ Live(baselines) \subseteq Live(baselines')
      /\ \A c \in BaselineRows : baselines'[c].state # "active" => baselines'[c] = baselines[c]
      /\ \A c \in Live(baselines) : baselines'[c] = baselines[c]
      /\ ~MayBeTwo' => \A c, d \in Live(baselines') : c = d
      /\ seedLog' \in LogType /\ seedLog'.deleted = seedLog.deleted
      /\ seedLog'.complete = seedLog.complete
  <2>0. baselines \in [BaselineRows -> BaselineType] /\ LiveBaselines = Live(baselines)
          /\ (~MayBeTwo => \A c, d \in Live(baselines) : c = d)
    BY DEF SeedInv, TablesTyped, LiveBaselines, Live
  <2>1. CASE b \in LiveBaselines /\ UNCHANGED <<baselines, seedLog>>
    <3>1. MayBeTwo' = MayBeTwo
      BY <2>1 DEF MayBeTwo
    <3> QED BY <1>0, <2>0, <2>1, <3>1
  <2>2. CASE /\ baselines[b].state = "none"
             /\ baselines' = [baselines EXCEPT ![b].state = "active"]
             /\ seedLog' = [seedLog EXCEPT !.mistaken = @ \/ LiveBaselines # {}]
    <3> DEFINE rec == [baselines[b] EXCEPT !.state = "active"]
    <3>1. baselines' = [baselines EXCEPT ![b] = rec]
      BY <2>2
    <3>2. rec \in BaselineType /\ rec.state = "active"
      BY <2>0 DEF BaselineType, SeedStates
    <3> HIDE DEF rec
    <3>3. baselines' \in [BaselineRows -> BaselineType] /\ baselines'[b] = rec
            /\ \A c \in BaselineRows : c # b => baselines'[c] = baselines[c]
      BY <2>0, <3>1, <3>2
    <3>4. Live(baselines') = Live(baselines) \cup {b} /\ b \notin Live(baselines)
      BY <2>0, <2>2, <3>2, <3>3 DEF Live
    <3>5. /\ seedLog' \in LogType /\ seedLog'.deleted = seedLog.deleted
          /\ seedLog'.complete = seedLog.complete
          /\ ~MayBeTwo' => Live(baselines) = {}
      <4>1. seedLog' = [seedLog EXCEPT !.mistaken = seedLog.mistaken \/ Live(baselines) # {}]
        BY <2>0, <2>2
      <4> QED BY <1>0, <4>1 DEF LogType, MayBeTwo
    <3>6. \A c \in BaselineRows : baselines'[c].state # "active" => baselines'[c] = baselines[c]
      BY <3>2, <3>3
    <3>7. \A c \in Live(baselines) : baselines'[c] = baselines[c]
      BY <3>3, <3>4 DEF Live
    <3>8. ~MayBeTwo' => \A c, d \in Live(baselines') : c = d
      BY <3>4, <3>5
    <3> QED BY <3>3, <3>4, <3>5, <3>6, <3>7, <3>8
  <2> QED BY <2>1, <2>2 DEF SeedBaseline
<1>3. Typed(MayBeTwo')
  BY <1>0, <1>2 DEF SeedInv, Typed, TablesTyped
<1>4. ASSUME ~seedLog.deleted PROVE Grow
  <2>1. \A c \in BaselineRows : baselines'[c].state # "active" => baselines'[c] = NoBaseline
    BY <1>2, <1>4 DEF SeedInv, Undisturbed
  <2>2. BaselinesGrow(baselines, baselines')
    BY <1>2, <2>1 DEF BaselinesGrow
  <2> QED BY <1>0, <1>4, <2>2, StayingGrows DEF Grow, TablesGrow
<1>5. ASSUME ~seedLog.deleted PROVE DoneAfter(at.entry + 1)
  <2>1. DoneAfter(at.entry)
    BY <1>0, <1>4, <1>5, DoneNow
  <2>2. Live(baselines') # {}
    BY <1>2
  <2>3. at.entry \in Int /\ at.entry \notin 1 .. NamedLen /\ at.entry # NamedLen + 1
          /\ at.entry # NamedLen + 3 /\ at.entry # NamedLen + 4
          /\ at.entry # NamedLen + SoftwareLen + 5
          /\ \A n \in 1 .. SoftwareLen : at.entry # NamedLen + 4 + n
    BY <1>0
  <2> QED BY <2>1, <2>2, <2>3, DoneOneMore DEF DoneAfter
<1> DEFINE m == at.entry + 1
           next == [at EXCEPT !.entry = m, !.base = b]
<1>6. at' = next /\ m \in 0 .. Len(Plan) /\ m # 0 /\ ~(m > NamedLen + 3)
  BY <1>0 DEF SeedBaseline
<1> HIDE DEF m
<1>7. next.entry = m /\ next.second = FALSE /\ next.base = b
        /\ next \in [entry : 0 .. Len(Plan), second : BOOLEAN, base : BaselineRows]
  BY <1>0, <1>1, <1>6
<1> HIDE DEF next
<1>8. RunTyped(next)
  BY <1>6, <1>7 DEF RunTyped
<1> QED BY <1>0, <1>2, <1>3, <1>4, <1>5, <1>6, <1>7, <1>8, RunKeepsInv DEF m

(* Either column of the baseline the run uses.                             *)
LEMMA ColumnKeepsInv ==
    ASSUME SeedInv, at # NoRun, NEW rec \in BaselineType,
           at.entry \in {NamedLen + 3, NamedLen + 4},
           baselines' = [baselines EXCEPT ![at.base] = rec],
           rec.state = baselines[at.base].state,
           baselines[at.base].bound = TRUE => rec.bound = TRUE,
           baselines[at.base].assigned = TRUE => rec.assigned = TRUE,
           at.entry = NamedLen + 3 => rec.bound = TRUE,
           at.entry = NamedLen + 4 => rec.assigned = TRUE,
           NextEntry, UNCHANGED <<seeded, half, members, software, described>>
    PROVE  SeedInv'
<1>0. /\ NamedLen \in Nat /\ SoftwareLen \in Nat /\ at.base \in BaselineRows
      /\ baselines \in [BaselineRows -> BaselineType]
      /\ (~MayBeTwo => \A c, d \in Live(baselines) : c = d)
  BY StagePlace, PlanShape DEF SeedInv, TablesTyped
<1>1. /\ baselines' \in [BaselineRows -> BaselineType] /\ baselines'[at.base] = rec
      /\ \A c \in BaselineRows : c # at.base => baselines'[c] = baselines[c]
  BY <1>0
<1>2. Live(baselines') = Live(baselines)
  BY <1>0, <1>1 DEF Live
<1>3. Typed(MayBeTwo)
  BY <1>0, <1>1, <1>2 DEF SeedInv, Typed, TablesTyped
<1>4. ASSUME ~seedLog.deleted
      PROVE  /\ at.base \in Live(baselines)
             /\ at.entry = NamedLen + 4 => baselines[at.base].bound = TRUE
             /\ \A c \in BaselineRows : baselines[c].state # "active" => baselines[c] = NoBaseline
  <2>1. at.entry > NamedLen + 2 /\ (at.entry = NamedLen + 4 => at.entry > NamedLen + 3)
    BY <1>0
  <2> QED BY <1>0, <1>4, <2>1 DEF SeedInv, Undisturbed
<1>5. ASSUME ~seedLog.deleted PROVE Grow
  <2>1. \A c \in BaselineRows : baselines'[c].state # "active" => baselines'[c] = NoBaseline
    BY <1>0, <1>1, <1>4, <1>5 DEF Live
  <2>2. \A c \in Live(baselines) : /\ baselines[c].bound = TRUE => baselines'[c].bound = TRUE
                                   /\ baselines[c].assigned = TRUE => baselines'[c].assigned = TRUE
    BY <1>1, <1>4, <1>5 DEF Live
  <2>3. BaselinesGrow(baselines, baselines')
    BY <1>2, <2>1, <2>2 DEF BaselinesGrow
  <2> QED BY <1>5, <2>3, StayingGrows DEF Grow, TablesGrow
<1>6. ASSUME ~seedLog.deleted PROVE DoneAfter(at.entry + 1)
  <2>1. DoneAfter(at.entry)
    BY <1>5, <1>6, DoneNow
  <2>2. at.entry = NamedLen + 3 => \E c \in Live(baselines') : baselines'[c].bound = TRUE
    BY <1>1, <1>2, <1>4, <1>6
  <2>3. at.entry = NamedLen + 4 =>
          \E c \in Live(baselines') : baselines'[c].bound = TRUE /\ baselines'[c].assigned = TRUE
    BY <1>1, <1>2, <1>4, <1>6
  <2>4. at.entry \in Int /\ at.entry \notin 1 .. NamedLen /\ at.entry # NamedLen + 1
          /\ at.entry # NamedLen + 2 /\ at.entry # NamedLen + SoftwareLen + 5
          /\ \A n \in 1 .. SoftwareLen : at.entry # NamedLen + 4 + n
    BY <1>0
  <2> QED BY <2>1, <2>2, <2>3, <2>4, DoneOneMore DEF DoneAfter
<1>7. at.entry # NamedLen + 2 /\ (at.entry = NamedLen + 3 => baselines'[at.base].bound = TRUE)
  BY <1>0, <1>1
<1> QED BY <1>3, <1>5, <1>6, <1>7, NextKeepsInv

LEMMA BindingKeepsInv ==
    ASSUME SeedInv, SeedBinding
    PROVE  SeedInv'
<1> DEFINE rec == [baselines[at.base] EXCEPT !.bound = TRUE]
<1>0. /\ at # NoRun /\ at.entry = NamedLen + 3 /\ NamedLen \in Nat /\ at.base \in BaselineRows
      /\ NextEntry /\ UNCHANGED <<seeded, half, members, software, described>>
      /\ baselines' = [baselines EXCEPT ![at.base] = rec]
  BY StagePlace, PlanShape DEF SeedBinding, AtStage
<1>1. baselines[at.base] \in BaselineType
  BY <1>0 DEF SeedInv, TablesTyped
<1>2. /\ rec \in BaselineType /\ rec.state = baselines[at.base].state
      /\ rec.bound = TRUE /\ rec.assigned = baselines[at.base].assigned
  BY <1>1 DEF BaselineType
<1> HIDE DEF rec
<1>3. at.entry # NamedLen + 4
  BY <1>0
<1> QED BY <1>0, <1>2, <1>3, ColumnKeepsInv

LEMMA AssignmentKeepsInv ==
    ASSUME SeedInv, SeedAssignment
    PROVE  SeedInv'
<1> DEFINE rec == [baselines[at.base] EXCEPT !.assigned = TRUE]
<1>0. /\ at # NoRun /\ at.entry = NamedLen + 4 /\ NamedLen \in Nat /\ at.base \in BaselineRows
      /\ NextEntry /\ UNCHANGED <<seeded, half, members, software, described>>
      /\ baselines' = [baselines EXCEPT ![at.base] = rec]
  BY StagePlace, PlanShape DEF SeedAssignment, AtStage
<1>1. baselines[at.base] \in BaselineType
  BY <1>0 DEF SeedInv, TablesTyped
<1>2. /\ rec \in BaselineType /\ rec.state = baselines[at.base].state
      /\ rec.assigned = TRUE /\ rec.bound = baselines[at.base].bound
  BY <1>1 DEF BaselineType
<1> HIDE DEF rec
<1>3. at.entry # NamedLen + 3
  BY <1>0
<1> QED BY <1>0, <1>2, <1>3, ColumnKeepsInv

(* A title's single row.                                                   *)
LEMMA SoftwareKeepsInv ==
    ASSUME SeedInv, SeedSoftware
    PROVE  SeedInv'
<1>0. /\ at # NoRun /\ NamedLen \in Nat /\ SoftwareLen \in Nat
      /\ NextEntry /\ UNCHANGED <<seeded, half, members, baselines, described>>
      /\ software \in [Range(SoftwareSeeds) -> 0 .. 1]
  BY PlanShape DEF SeedSoftware, AtStage, SeedInv, TablesTyped
<1>1. PICK n \in 1 .. SoftwareLen : at.entry = NamedLen + 4 + n /\ Entry = SoftwareSeeds[n]
  BY StagePlace DEF SeedSoftware, AtStage
<1>2. Entry \in Range(SoftwareSeeds)
  <2>1. DOMAIN SoftwareSeeds = 1 .. SoftwareLen
    BY SeedListsAreSequences DEF SoftwareLen
  <2> QED BY <1>1, <2>1 DEF Range
<1>3. software' = [software EXCEPT ![Entry] = IF software[Entry] = 0 THEN software[Entry] + 1
                                              ELSE software[Entry]]
  BY DEF SeedSoftware, Installable
<1>4. software[Entry] \in 0 .. 1
  BY <1>0, <1>2
<1>5. /\ software' \in [Range(SoftwareSeeds) -> 0 .. 1] /\ software'[Entry] = 1
      /\ \A x \in Range(SoftwareSeeds) : x # Entry => software'[x] = software[x]
  BY <1>0, <1>2, <1>3, <1>4
<1>6. Typed(MayBeTwo)
  BY <1>0, <1>5 DEF SeedInv, Typed, TablesTyped
<1>7. ASSUME ~seedLog.deleted PROVE Grow
  <2>1. \A x \in Range(SoftwareSeeds) : software[x] = 1 => software'[x] = 1
    BY <1>5
  <2> QED BY <1>0, <1>7, <2>1, StayingGrows DEF Grow, TablesGrow
<1>8. ASSUME ~seedLog.deleted PROVE DoneAfter(at.entry + 1)
  <2>1. DoneAfter(at.entry)
    BY <1>0, <1>7, <1>8, DoneNow
  <2>2. \A k \in 1 .. SoftwareLen : at.entry = NamedLen + 4 + k => k = n
    BY <1>0, <1>1
  <2>3. \A k \in 1 .. SoftwareLen : at.entry = NamedLen + 4 + k => software'[SoftwareSeeds[k]] = 1
    BY <1>1, <1>5, <2>2
  <2>4. at.entry \in Int /\ at.entry \notin 1 .. NamedLen /\ at.entry # NamedLen + 1
          /\ at.entry # NamedLen + 2 /\ at.entry # NamedLen + 3 /\ at.entry # NamedLen + 4
          /\ at.entry # NamedLen + SoftwareLen + 5
    BY <1>0, <1>1
  <2> QED BY <2>1, <2>3, <2>4, DoneOneMore DEF DoneAfter
<1>9. at.entry # NamedLen + 2 /\ at.entry # NamedLen + 3
  BY <1>0, <1>1
<1> QED BY <1>0, <1>6, <1>7, <1>8, <1>9, NextKeepsInv

-----------------------------------------------------------------------------
(* Between the statements.                                                 *)

LEMMA RunsKeepInv ==
    ASSUME SeedInv, SeedRunStarts \/ SeedRunBreaksOff
    PROVE  SeedInv'
<1>0. UNCHANGED <<seeded, half, members, baselines, software, described, seedLog>>
  BY DEF SeedRunStarts, SeedRunBreaksOff
<1>1. CASE SeedRunBreaksOff
  <2>1. Typed(MayBeTwo)
    BY <1>0 DEF SeedInv, Typed
  <2>2. ~seedLog.deleted => Grow
    BY <1>0, StayingGrows DEF Grow, TablesGrow
  <2> QED BY <1>0, <1>1, <2>1, <2>2, BreakKeepsInv DEF SeedRunBreaksOff
<1>2. CASE SeedRunStarts
  <2> DEFINE first == [NoRun EXCEPT !.entry = 1]
  <2>0. NamedLen \in Nat /\ SoftwareLen \in Nat /\ Len(Plan) = NamedLen + SoftwareLen + 5
    BY PlanShape
  <2>1. at' = first
    BY <1>2 DEF SeedRunStarts
  <2>2. /\ first \in [entry : 0 .. Len(Plan), second : BOOLEAN, base : BaselineRows]
        /\ first.entry = 1 /\ first.second = FALSE /\ first.base = 1
    <3>1. 0 \in 0 .. Len(Plan) /\ 1 \in 0 .. Len(Plan) /\ 1 \in BaselineRows
      BY <2>0 DEF BaselineRows
    <3>2. /\ NoRun \in [entry : 0 .. Len(Plan), second : BOOLEAN, base : BaselineRows]
          /\ NoRun.second = FALSE /\ NoRun.base = 1
      BY <3>1 DEF NoRun
    <3> QED BY <3>1, <3>2
  <2> HIDE DEF first
  <2>3. RunTyped(at')
    BY <2>1, <2>2 DEF RunTyped
  <2>4. ~seedLog.deleted => Undisturbed'
    <3> SUFFICES ASSUME ~seedLog.deleted PROVE Undisturbed'
      OBVIOUS
    <3>1. DoneAfter(1)
      BY <2>0 DEF DoneAfter, DoneUpTo
    <3>2. ~(1 > NamedLen + 2) /\ ~(1 > NamedLen + 3)
      BY <2>0
    <3>3. at'.entry = 1 /\ at'.second = FALSE
      BY <2>1, <2>2
    <3>4. seedLog'.complete => DoneAfter(Len(Plan) + 1)
      BY <1>0 DEF SeedInv, Undisturbed, SeedDone, DoneAfter
    <3> QED BY <1>0, <3>1, <3>2, <3>3, <3>4 DEF SeedInv, Undisturbed, SeedDone, DoneAfter
  <2>5. Typed(MayBeTwo) /\ MayBeTwo' = MayBeTwo
    BY <1>0 DEF SeedInv, Typed, MayBeTwo
  <2> QED BY <1>0, <2>3, <2>4, <2>5 DEF SeedInv, Typed
<1> QED BY <1>1, <1>2

(* What a user deletes or restores: from then on nothing is promised but   *)
(* the tables' shape.                                                      *)
LEMMA UsersKeepInv ==
    ASSUME SeedInv, Typed(MayBeTwo'), seedLog' \in LogType, at' = at, seedLog'.deleted
    PROVE  SeedInv'
BY DEF SeedInv, Typed

(* What is in the bin has been deleted.                                    *)
LEMMA SomethingDeleted ==
    ASSUME SeedInv, (\E x \in Rows : seeded[x] = "binned")
                      \/ \E b \in BaselineRows : baselines[b].state = "binned"
    PROVE  seedLog.deleted
<1> SUFFICES ASSUME ~seedLog.deleted PROVE FALSE
  OBVIOUS
<1>1. Undisturbed
  BY DEF SeedInv
<1>2. NoBaseline.state # "binned"
  BY DEF NoBaseline
<1> QED BY <1>1, <1>2 DEF Undisturbed

LEMMA RowUsersKeepInv ==
    ASSUME SeedInv, NEW x \in SeedDeletable, DeleteSeeded(x) \/ RestoreSeeded(x)
    PROVE  SeedInv'
<1>0. x \in Rows
  <2>1. SeedDeletable \subseteq Range(ComputerSeeds \o IdentitySeeds \o GroupSeeds)
    BY SeedsAreDistinct
  <2>2. ComputerSeeds \in Seq(Rows) /\ IdentitySeeds \in Seq(Rows) /\ GroupSeeds \in Seq(Rows)
    <3>1. GroupSeeds \in Seq(Range(GroupSeeds)) /\ Range(GroupSeeds) \subseteq Rows
      BY SeedListsAreSequences, NamedStagesShape DEF NamedRows
    <3> QED BY <3>1, SeedListsInRows, SeqMonotonic
  <2> DEFINE all == ComputerSeeds \o IdentitySeeds \o GroupSeeds
  <2>3. all \in Seq(Rows)
    BY <2>2, ConcatPlaces
  <2> HIDE DEF all
  <2>4. Range(all) \subseteq Rows
    BY <2>3 DEF Range
  <2> QED BY <2>1, <2>4 DEF all
<1>1. seeded \in [Rows -> SeedStates] /\ seedLog \in LogType
  BY DEF SeedInv, TablesTyped
<1>2. seeded' \in [Rows -> SeedStates] /\ UNCHANGED <<half, members, baselines, software, described, at>>
  BY <1>0, <1>1 DEF DeleteSeeded, RestoreSeeded, SeedStates
<1>3. seedLog' \in LogType /\ seedLog'.deleted /\ MayBeTwo' = MayBeTwo
  <2>1. CASE DeleteSeeded(x)
    BY <1>1, <2>1 DEF DeleteSeeded, LogType, MayBeTwo
  <2>2. CASE RestoreSeeded(x)
    BY <1>0, <1>1, <2>2, SomethingDeleted DEF RestoreSeeded, MayBeTwo
  <2> QED BY <2>1, <2>2
<1>4. Typed(MayBeTwo')
  BY <1>2, <1>3 DEF SeedInv, Typed, TablesTyped
<1> QED BY <1>2, <1>3, <1>4, UsersKeepInv

LEMMA BaselineUsersKeepInv ==
    ASSUME SeedInv, NEW b \in BaselineRows, DeleteBaseline(b) \/ RestoreBaseline(b)
    PROVE  SeedInv'
<1>1. /\ baselines \in [BaselineRows -> BaselineType] /\ seedLog \in LogType
      /\ (~MayBeTwo => \A c, d \in Live(baselines) : c = d)
  BY DEF SeedInv, TablesTyped
<1>2. CASE DeleteBaseline(b)
  <2> DEFINE rec == [baselines[b] EXCEPT !.state = "binned"]
  <2>1. baselines' = [baselines EXCEPT ![b] = rec]
          /\ UNCHANGED <<seeded, half, members, software, described, at>>
    BY <1>2 DEF DeleteBaseline
  <2>2. rec \in BaselineType /\ rec.state = "binned"
    BY <1>1 DEF BaselineType, SeedStates
  <2> HIDE DEF rec
  <2>3. baselines' \in [BaselineRows -> BaselineType] /\ Live(baselines') \subseteq Live(baselines)
    BY <1>1, <2>1, <2>2 DEF Live
  <2>4. seedLog' \in LogType /\ seedLog'.deleted /\ MayBeTwo' = MayBeTwo
    BY <1>1, <1>2 DEF DeleteBaseline, LogType, MayBeTwo
  <2>5. Typed(MayBeTwo')
    BY <1>1, <2>1, <2>3, <2>4 DEF SeedInv, Typed, TablesTyped
  <2> QED BY <2>1, <2>4, <2>5, UsersKeepInv
<1>3. CASE RestoreBaseline(b)
  <2> DEFINE rec == [baselines[b] EXCEPT !.state = "active"]
  <2>1. baselines' = [baselines EXCEPT ![b] = rec]
          /\ UNCHANGED <<seeded, half, members, software, described, at>>
    BY <1>3 DEF RestoreBaseline
  <2>2. rec \in BaselineType
    BY <1>1 DEF BaselineType, SeedStates
  <2> HIDE DEF rec
  <2>3. baselines' \in [BaselineRows -> BaselineType]
    BY <1>1, <2>1, <2>2
  <2>4. seedLog.deleted
    BY <1>3, SomethingDeleted DEF RestoreBaseline
  <2>5. seedLog' \in LogType /\ seedLog'.deleted /\ MayBeTwo'
    BY <1>1, <1>3, <2>4 DEF RestoreBaseline, LogType, MayBeTwo
  <2>6. Typed(MayBeTwo')
    BY <2>1, <2>3, <2>5 DEF SeedInv, Typed, TablesTyped
  <2> QED BY <2>1, <2>5, <2>6, UsersKeepInv
<1> QED BY <1>2, <1>3

-----------------------------------------------------------------------------

LEMMA SeedInitInv == SeedInit => SeedInv
<1> SUFFICES ASSUME SeedInit PROVE SeedInv
  OBVIOUS
<1>0. NamedLen \in Nat /\ SoftwareLen \in Nat /\ Len(Plan) = NamedLen + SoftwareLen + 5
  BY PlanShape
<1>1. NoBaseline \in BaselineType /\ NoBaseline.state = "none"
  BY DEF NoBaseline, BaselineType, SeedStates
<1>2. baselines \in [BaselineRows -> BaselineType] /\ Live(baselines) = {}
        /\ \A b \in BaselineRows : baselines[b] = NoBaseline
  BY <1>1 DEF SeedInit, Live
<1>3. TablesTyped(seeded, half, members, baselines, software, described, MayBeTwo)
  BY <1>2 DEF SeedInit, TablesTyped, SeedStates
<1>4. NoRun.entry = 0 /\ NoRun.second = FALSE
        /\ NoRun \in [entry : 0 .. Len(Plan), second : BOOLEAN, base : BaselineRows]
  BY <1>0 DEF NoRun, BaselineRows
<1>5. RunTyped(at)
  BY <1>4 DEF SeedInit, RunTyped
<1>6. seedLog \in LogType /\ seedLog.complete = FALSE
  BY DEF SeedInit, LogType
<1>7. Undisturbed
  <2>1. at.entry = 0 /\ at.second = FALSE /\ \A x \in Rows : seeded[x] = "none"
    BY <1>4 DEF SeedInit
  <2>2. SeedDone(0) /\ ~(0 > NamedLen + 2) /\ ~(0 > NamedLen + 3)
    BY <1>0 DEF SeedDone, DoneUpTo
  <2>3. members = {}
    BY DEF SeedInit
  <2> QED BY <1>2, <1>6, <2>1, <2>2, <2>3 DEF Undisturbed
<1> QED BY <1>3, <1>5, <1>6, <1>7 DEF SeedInv

LEMMA SeedStepKeepsInv == SeedInv /\ [SeedNext]_seedVars => SeedInv'
<1> SUFFICES ASSUME SeedInv, [SeedNext]_seedVars PROVE SeedInv'
  OBVIOUS
<1>1. CASE UNCHANGED seedVars
  BY <1>1 DEF seedVars, SeedInv, Undisturbed, SeedDone, MayBeTwo
<1>2. ASSUME NEW b \in BaselineRows, SeedBaseline(b) \/ DeleteBaseline(b) \/ RestoreBaseline(b)
      PROVE  SeedInv'
  BY <1>2, BaselineKeepsInv, BaselineUsersKeepInv
<1>3. ASSUME NEW x \in SeedDeletable, DeleteSeeded(x) \/ RestoreSeeded(x)
      PROVE  SeedInv'
  BY <1>3, RowUsersKeepInv
<1> QED BY <1>1, <1>2, <1>3, RunsKeepInv, NamedKeepInv, SecondKeepsInv, MembersKeepInv,
           BindingKeepsInv, AssignmentKeepsInv, SoftwareKeepsInv, ExtrasKeepInv DEF SeedNext

LEMMA SeedInvHolds == SeedSpec => []SeedInv
<1> QED BY SeedInitInv, SeedStepKeepsInv, PTL DEF SeedSpec

(* The seeder's tables hold what they should, and its run is at an entry   *)
(* of the plan: the lists of src/cmd/seed/main.go one after the other.     *)
LEMMA SeedTypeCorrect == SeedSpec => []SeedTypeOK
<1>1. SeedInv => SeedTypeOK
  <2> SUFFICES ASSUME SeedInv PROVE SeedTypeOK
    OBVIOUS
  <2>1. software \in [Range(SoftwareSeeds) -> 0 .. 2]
    BY DEF SeedInv, TablesTyped
  <2>2. described \subseteq Rows
    BY SeedListsInRows DEF SeedInv, TablesTyped
  <2> QED BY <2>1, <2>2 DEF SeedInv, TablesTyped, RunTyped, LogType, SeedTypeOK, SeedStates, BaselineType
<1> QED BY <1>1, SeedInvHolds, PTL

(* "Safe to call twice": once a run of the seeder (src/cmd/seed/main.go)   *)
(* has come to its end, however many have broken off before, everything is *)
(* there, and stays so until a user deletes something; all of it once, but *)
(* the baseline after a restore or a failed lookup.                        *)
THEOREM SeedsOnce == SeedSpec => []SeedsExactlyOnce
<1>1. SeedInv => SeedsExactlyOnce
  <2> SUFFICES ASSUME SeedInv PROVE SeedsExactlyOnce
    OBVIOUS
  <2>0. NamedLen \in Nat /\ SoftwareLen \in Nat /\ Len(Plan) = NamedLen + SoftwareLen + 5
    BY PlanShape
  <2>1. ASSUME seedLog.complete, ~seedLog.deleted
        PROVE  /\ \A x \in Rows : seeded[x] = "active"
               /\ \A x \in DOMAIN software : software[x] = 1
               /\ members = Range(FirstComputerIDs(3) \o FirstIdentities)
               /\ described = Range(FirstComputerIDs(2))
               /\ \E b \in LiveBaselines : baselines[b].bound /\ baselines[b].assigned
    <3> DEFINE p == Len(Plan) + 1
    <3>1. DoneUpTo(p, seeded, members, baselines, software, described)
      BY <2>1 DEF SeedInv, Undisturbed, SeedDone
    <3>2. /\ \A n \in 1 .. NamedLen : n < p
          /\ \A n \in 1 .. SoftwareLen : NamedLen + 4 + n < p
          /\ p > NamedLen + 1 /\ p > NamedLen + 2 /\ p > NamedLen + 3 /\ p > NamedLen + 4
          /\ p > NamedLen + SoftwareLen + 5
      BY <2>0
    <3> HIDE DEF p
    <3>3. /\ \A n \in 1 .. NamedLen : seeded[Plan[n].row] = "active"
          /\ \A n \in 1 .. SoftwareLen : software[SoftwareSeeds[n]] = 1
          /\ members = FullMembers /\ described = FullDescribed
          /\ \E b \in Live(baselines) : baselines[b].bound = TRUE /\ baselines[b].assigned = TRUE
      BY <3>1, <3>2 DEF DoneUpTo
    <3>4. \A x \in Rows : seeded[x] = "active"
      <4>1. \A x \in Rows : \E n \in 1 .. NamedLen : Plan[n].row = x
        BY PlanShape
      <4> QED BY <3>3, <4>1
    <3>5. \A x \in DOMAIN software : software[x] = 1
      <4>1. DOMAIN software = Range(SoftwareSeeds) /\ DOMAIN SoftwareSeeds = 1 .. SoftwareLen
        BY SeedListsAreSequences DEF SeedInv, TablesTyped, SoftwareLen
      <4> QED BY <3>3, <4>1 DEF Range
    <3>6. members = Range(FirstComputerIDs(3) \o FirstIdentities)
      BY <3>3, <3>4, AllMembers
    <3>7. \E b \in LiveBaselines : baselines[b].bound /\ baselines[b].assigned
      BY <3>3 DEF LiveBaselines, Live
    <3> QED BY <3>3, <3>4, <3>5, <3>6, <3>7 DEF FullDescribed
  <2>2. \A x \in DOMAIN software : software[x] <= 1
    BY DEF SeedInv, TablesTyped
  <2>3. ASSUME ~seedLog.restored, ~seedLog.mistaken PROVE Cardinality(LiveBaselines) <= 1
    <3>1. \A b, c \in LiveBaselines : b = c
      BY <2>3 DEF SeedInv, TablesTyped, MayBeTwo, LiveBaselines, Live
    <3>2. CASE LiveBaselines = {}
      BY <3>2, FS_EmptySet
    <3>3. CASE LiveBaselines # {}
      <4>1. PICK b : LiveBaselines = {b}
        BY <3>1, <3>3
      <4>2. Cardinality(LiveBaselines) = 1
        BY <4>1, FS_Singleton, Zenon
      <4> QED BY <4>2
    <3> QED BY <3>2, <3>3
  <2> QED BY <2>1, <2>2, <2>3 DEF SeedsExactlyOnce
<1> QED BY <1>1, SeedInvHolds, PTL

-----------------------------------------------------------------------------
(* Accounts.                                                               *)

PersonType ==
    [state : {"none", "active", "binned", "gone"}, org : Orgs \cup {Absent},
     email : Emails \cup {Absent}, password : BOOLEAN, super : BOOLEAN, assigned : BOOLEAN,
     barred : BOOLEAN]

WizardType ==
    [next : {"none", "identity", "builtins", "password"}, form : Forms \cup {Absent},
     who : People \cup {Absent}]

VisitType ==
    [of : People \cup {Absent}, org : Orgs \cup {Absent},
     change : {"none"} \cup Changes, whom : People \cup {Absent}]

AccountsTyped ==
    /\ orgs \subseteq Orgs
    /\ person \in [People -> PersonType]
    /\ \A p \in People : person[p].state # "none" => person[p].email \in Emails
    /\ wizard \in [Wizards -> WizardType]
    /\ visit \in [Visits -> VisitType]

(* The wizard knows its identity from its INSERT to its last statement.    *)
WizardKnows(q) ==
    /\ q.next = "identity" => q.form \in Forms
    /\ q.who = Absent <=> q.next \in {"none", "identity"}

(* A session is of an identity with a password, as long as the row is      *)
(* there; nobody is about to delete himself.                               *)
VisitKnows(q, pe) ==
    /\ q.of # Absent => pe[q.of].state # "none" /\ (pe[q.of].password \/ pe[q.of].state = "gone")
    /\ q.change # "none" => q.whom \in People /\ pe[q.whom].state # "none"
    /\ q.change \in {"delete", "purge"} => q.whom # q.of

EmailsUnique(pe) ==
    \A p, q \in People :
      pe[p].state = "active" /\ pe[q].state = "active" /\ pe[p].email = pe[q].email => p = q

(* Where anybody is active, somebody active has a password or is about to  *)
(* be given one by a wizard.                                               *)
SomebodyIsLeft(pe, wz) ==
    (\E p \in People : pe[p].state = "active") =>
      \/ \E p \in People : pe[p].state = "active" /\ pe[p].password
      \/ \E w \in Wizards : wz[w].who # Absent /\ pe[wz[w].who].state = "active"

AccountsInv ==
    /\ AccountsTyped
    /\ \A w \in Wizards : WizardKnows(wizard[w])
    /\ \A v \in Visits : VisitKnows(visit[v], person)
    /\ "shared" \notin mishaps => EmailsUnique(person)
    /\ mishaps = {} => SomebodyIsLeft(person, wizard)

-----------------------------------------------------------------------------

LEMMA AbsentIsNoPerson == Absent \notin People /\ Absent \notin Orgs
BY AbsentIsNobody DEF People

LEMMA UnbornTyped == Unborn \in PersonType
BY DEF Unborn, PersonType

(* A row is inserted, for a wizard or by somebody who is signed in.        *)
LEMMA CreateIdentityMeans ==
    ASSUME AccountsInv, NEW p \in People, NEW row \in PersonType, row.state = "active",
           row.email \in Emails, CreateIdentity(p, row)
    PROVE  /\ person[p].state = "none"
           /\ person' = [person EXCEPT ![p] = row]
           /\ person' \in [People -> PersonType]
           /\ \A q \in People : person'[q].state # "none" => person'[q].email \in Emails
           /\ \A v \in Visits : VisitKnows(visit[v], person')
           /\ "shared" \notin mishaps' => EmailsUnique(person')
           /\ mishaps' = {} => mishaps = {}
<1>1. /\ person \in [People -> PersonType] /\ person' = [person EXCEPT ![p] = row]
      /\ {q \in People : person[q] = Unborn} = p .. LastPerson
      /\ Recorded(Shares(p, row.email))
      /\ \A v \in Visits : visit[v] \in VisitType /\ VisitKnows(visit[v], person)
      /\ \A q \in People : person[q].state # "none" => person[q].email \in Emails
  BY DEF CreateIdentity, AccountsInv, AccountsTyped
<1>2. person[p].state = "none"
  <2>1. p \in p .. LastPerson
    BY AbsentIsNobody DEF People
  <2> QED BY <1>1, <2>1 DEF Unborn
<1>3. \A q \in People : q # p => person'[q] = person[q]
  BY <1>1
<1>4. person'[p] = row
  BY <1>1
<1>5. \A v \in Visits : VisitKnows(visit[v], person')
  <2> SUFFICES ASSUME NEW v \in Visits PROVE VisitKnows(visit[v], person')
    OBVIOUS
  <2>1. /\ visit[v].of # Absent => visit[v].of \in People /\ visit[v].of # p
        /\ visit[v].change # "none" => visit[v].whom \in People /\ visit[v].whom # p
    BY <1>1, <1>2 DEF VisitType, VisitKnows
  <2> QED BY <1>1, <1>3, <2>1 DEF VisitKnows
<1>6. "shared" \notin mishaps' =>
        "shared" \notin mishaps /\ ~Shares(p, row.email)
  BY <1>1 DEF Recorded
<1>7. "shared" \notin mishaps' => EmailsUnique(person')
  BY <1>3, <1>4, <1>6 DEF AccountsInv, EmailsUnique, Shares, Active
<1>8. mishaps' = {} => mishaps = {}
  BY <1>1 DEF Recorded
<1> QED BY <1>1, <1>2, <1>3, <1>4, <1>5, <1>7, <1>8

LEMMA WizardStepsKeepInv ==
    ASSUME AccountsInv, NEW w \in Wizards,
           \/ \E f \in Forms : SetupSubmit(w, f)
           \/ \E p \in People : SetupIdentity(w, p)
           \/ SetupBuiltins(w) \/ SetIdentityPasswordHash(w) \/ SetupCutShort(w)
    PROVE  AccountsInv'
<1>1. /\ person \in [People -> PersonType] /\ wizard \in [Wizards -> WizardType]
      /\ visit \in [Visits -> VisitType] /\ orgs \subseteq Orgs
      /\ \A q \in People : person[q].state # "none" => person[q].email \in Emails
      /\ wizard[w] \in WizardType /\ WizardKnows(wizard[w])
      /\ WizardIdle \in WizardType /\ WizardKnows(WizardIdle)
  BY DEF AccountsInv, AccountsTyped, WizardIdle, WizardType, WizardKnows
<1>2. ASSUME NEW f \in Forms, SetupSubmit(w, f) PROVE AccountsInv'
  <2> DEFINE q == [next |-> "identity", form |-> f, who |-> Absent]
  <2>1. /\ orgs' = orgs \cup {f.org} /\ wizard' = [wizard EXCEPT ![w] = q]
        /\ UNCHANGED <<person, visit, mishaps>> /\ wizard[w].next = "none"
    BY <1>2 DEF SetupSubmit, WizardAt
  <2>2. q \in WizardType /\ WizardKnows(q) /\ q.who = Absent
    BY DEF WizardType, WizardKnows
  <2> HIDE DEF q
  <2>3. orgs' \subseteq Orgs
    BY <1>1, <2>1, FormsAssumption
  <2>4. wizard[w].who = Absent
    BY <1>1, <2>1 DEF WizardKnows
  <2>5. mishaps' = {} => SomebodyIsLeft(person', wizard')
    BY <1>1, <2>1, <2>2, <2>4 DEF AccountsInv, SomebodyIsLeft
  <2>6. AccountsTyped' /\ \A x \in Wizards : WizardKnows(wizard'[x])
    BY <1>1, <2>1, <2>2, <2>3 DEF AccountsInv, AccountsTyped
  <2> QED BY <2>1, <2>5, <2>6 DEF AccountsInv
<1>3. ASSUME NEW p \in People, SetupIdentity(w, p) PROVE AccountsInv'
  <2> DEFINE row == [Unborn EXCEPT !.state = "active", !.org = wizard[w].form.org,
                            !.email = wizard[w].form.email, !.super = TRUE]
             q == [wizard[w] EXCEPT !.next = "builtins", !.who = p]
  <2>1. /\ wizard[w].next = "identity" /\ CreateIdentity(p, row)
        /\ wizard' = [wizard EXCEPT ![w] = q] /\ UNCHANGED <<orgs, visit>>
    BY <1>1, <1>3 DEF SetupIdentity, WizardAt
  <2>2. row \in PersonType /\ row.state = "active" /\ row.email \in Emails
    BY <1>1, <2>1, UnbornTyped, FormsAssumption DEF PersonType, WizardKnows
  <2>3. q \in WizardType /\ q.who = p /\ q.next = "builtins"
    BY <1>1 DEF WizardType
  <2> HIDE DEF q, row
  <2>4. WizardKnows(q)
    BY <2>3, AbsentIsNoPerson DEF WizardKnows
  <2>5. /\ person' = [person EXCEPT ![p] = row] /\ person' \in [People -> PersonType]
        /\ \A x \in People : person'[x].state # "none" => person'[x].email \in Emails
        /\ \A v \in Visits : VisitKnows(visit[v], person')
        /\ "shared" \notin mishaps' => EmailsUnique(person')
    BY <2>1, <2>2, CreateIdentityMeans
  <2>6. SomebodyIsLeft(person', wizard')
    BY <1>1, <2>1, <2>2, <2>3, <2>5, AbsentIsNoPerson DEF SomebodyIsLeft
  <2>7. AccountsTyped' /\ \A x \in Wizards : WizardKnows(wizard'[x])
    BY <1>1, <2>1, <2>3, <2>4, <2>5 DEF AccountsInv, AccountsTyped
  <2> QED BY <2>1, <2>5, <2>6, <2>7 DEF AccountsInv
<1>4. CASE SetupBuiltins(w)
  <2> DEFINE p == wizard[w].who
             q == [wizard[w] EXCEPT !.next = "password"]
  <2>1. /\ wizard[w].next = "builtins" /\ wizard' = [wizard EXCEPT ![w] = q]
        /\ UNCHANGED <<orgs, visit, mishaps>>
    BY <1>1, <1>4 DEF SetupBuiltins, WizardAt
  <2>2. PICK b \in BOOLEAN : person' = [person EXCEPT ![p].assigned = b]
    BY <1>4 DEF SetupBuiltins
  <2>3. p \in People /\ q \in WizardType /\ q.who = p /\ q.next = "password" /\ p # Absent
    BY <1>1, <2>1 DEF WizardType, WizardKnows
  <2> HIDE DEF q, p
  <2>4. WizardKnows(q)
    BY <2>3 DEF WizardKnows
  <2>5. /\ person' \in [People -> PersonType]
        /\ \A x \in People : /\ person'[x].state = person[x].state /\ person'[x].email = person[x].email
                             /\ person'[x].password = person[x].password
    BY <1>1, <2>2, <2>3 DEF PersonType
  <2>6. \A v \in Visits : VisitKnows(visit'[v], person')
    BY <1>1, <2>1, <2>5 DEF AccountsInv, VisitKnows, VisitType
  <2>7. /\ "shared" \notin mishaps' => EmailsUnique(person')
        /\ \A x \in People : person'[x].state # "none" => person'[x].email \in Emails
    BY <1>1, <2>1, <2>5 DEF AccountsInv, EmailsUnique
  <2>8. \A x \in Wizards : wizard'[x].who = wizard[x].who
    BY <1>1, <2>1, <2>3 DEF p
  <2>9. mishaps' = {} => SomebodyIsLeft(person', wizard')
    <3>1. \A x \in Wizards : wizard[x].who \in People \cup {Absent}
      BY <1>1 DEF WizardType
    <3> QED BY <2>1, <2>5, <2>8, <3>1 DEF AccountsInv, SomebodyIsLeft
  <2>10. AccountsTyped' /\ \A x \in Wizards : WizardKnows(wizard'[x])
    BY <1>1, <2>1, <2>3, <2>4, <2>5, <2>7 DEF AccountsInv, AccountsTyped
  <2> QED BY <2>6, <2>7, <2>9, <2>10 DEF AccountsInv
<1>5. CASE SetIdentityPasswordHash(w)
  <2> DEFINE p == wizard[w].who
             b == person[p].state # "gone"
  <2>1. /\ wizard[w].next = "password" /\ wizard' = [wizard EXCEPT ![w] = WizardIdle]
        /\ UNCHANGED <<orgs, visit, mishaps>> /\ person' = [person EXCEPT ![p].password = b]
    BY <1>5 DEF SetIdentityPasswordHash, WizardAt
  <2>2. p \in People /\ b \in BOOLEAN /\ (person[p].state # "gone" => b)
    BY <1>1, <2>1 DEF WizardType, WizardKnows
  <2> HIDE DEF b
  <2>3. /\ person' \in [People -> PersonType]
        /\ \A x \in People : /\ person'[x].state = person[x].state /\ person'[x].email = person[x].email
                             /\ x # p => person'[x].password = person[x].password
        /\ person'[p].password = b
    BY <1>1, <2>1, <2>2 DEF PersonType
  <2>4. \A v \in Visits : VisitKnows(visit'[v], person')
    <3> SUFFICES ASSUME NEW v \in Visits PROVE VisitKnows(visit[v], person')
      BY <2>1
    <3>1. VisitKnows(visit[v], person) /\ visit[v].of \in People \cup {Absent}
      BY <1>1 DEF AccountsInv, VisitType
    <3> HIDE DEF p
    <3> QED BY <2>2, <2>3, <3>1 DEF VisitKnows
  <2>5. /\ "shared" \notin mishaps' => EmailsUnique(person')
        /\ \A x \in People : person'[x].state # "none" => person'[x].email \in Emails
    BY <1>1, <2>1, <2>3 DEF AccountsInv, EmailsUnique
  <2>6. mishaps' = {} => SomebodyIsLeft(person', wizard')
    <3> SUFFICES ASSUME mishaps = {}, NEW x \in People, person[x].state = "active"
                 PROVE  \/ \E y \in People : person'[y].state = "active" /\ person'[y].password
                        \/ \E u \in Wizards : wizard'[u].who # Absent /\ person'[wizard'[u].who].state = "active"
      BY <2>1, <2>3 DEF SomebodyIsLeft
    <3>1. CASE person[p].state = "active"
      <4> HIDE DEF p
      <4>1. person'[p].state = "active" /\ person'[p].password
        BY <2>2, <2>3, <3>1
      <4> QED BY <2>2, <4>1
    <3>2. ASSUME person[p].state # "active", NEW y \in People, person[y].state = "active", person[y].password
          PROVE  person'[y].state = "active" /\ person'[y].password
      BY <2>3, <3>2
    <3>3. ASSUME person[p].state # "active", NEW u \in Wizards, wizard[u].who # Absent,
                 person[wizard[u].who].state = "active"
          PROVE  wizard'[u].who # Absent /\ person'[wizard'[u].who].state = "active"
      <4>1. u # w
        BY <3>3
      <4>2. wizard'[u] = wizard[u] /\ wizard[u].who \in People
        BY <1>1, <2>1, <3>3, <4>1 DEF WizardType
      <4> QED BY <2>3, <3>3, <4>2
    <3> QED BY <3>1, <3>2, <3>3 DEF AccountsInv, SomebodyIsLeft
  <2>7. AccountsTyped' /\ \A x \in Wizards : WizardKnows(wizard'[x])
    BY <1>1, <2>1, <2>3, <2>5 DEF AccountsInv, AccountsTyped
  <2> QED BY <2>4, <2>5, <2>6, <2>7 DEF AccountsInv
<1>6. CASE SetupCutShort(w)
  <2>1. /\ wizard' = [wizard EXCEPT ![w] = WizardIdle] /\ UNCHANGED <<orgs, person, visit>>
        /\ mishaps' = IF wizard[w].who = Absent THEN mishaps ELSE mishaps \cup {"cut"}
    BY <1>6 DEF SetupCutShort
  <2>2. mishaps' = {} => SomebodyIsLeft(person', wizard')
    <3> SUFFICES ASSUME mishaps' = {} PROVE SomebodyIsLeft(person, wizard')
      BY <2>1
    <3>1. mishaps = {} /\ wizard[w].who = Absent
      BY <2>1
    <3>2. \A u \in Wizards : wizard'[u].who = wizard[u].who
      BY <1>1, <2>1, <3>1 DEF WizardIdle
    <3> QED BY <3>1, <3>2 DEF AccountsInv, SomebodyIsLeft
  <2>3. AccountsTyped' /\ \A x \in Wizards : WizardKnows(wizard'[x])
    BY <1>1, <2>1 DEF AccountsInv, AccountsTyped
  <2>4. "shared" \notin mishaps' => EmailsUnique(person')
    BY <2>1 DEF AccountsInv
  <2> QED BY <2>1, <2>2, <2>3, <2>4 DEF AccountsInv
<1> QED BY <1>2, <1>3, <1>4, <1>5, <1>6

(* A step that only moves a session.                                       *)
LEMMA VisitStepKeepsInv ==
    ASSUME AccountsInv, NEW v \in Visits, NEW q \in VisitType, VisitKnows(q, person),
           visit' = [visit EXCEPT ![v] = q], UNCHANGED <<orgs, person, wizard, mishaps>>
    PROVE  AccountsInv'
<1>1. visit' \in [Visits -> VisitType] /\ \A u \in Visits : VisitKnows(visit'[u], person)
  BY DEF AccountsInv, AccountsTyped
<1> QED BY <1>1 DEF AccountsInv, AccountsTyped

LEMMA SessionStepsKeepInv ==
    ASSUME AccountsInv, NEW v \in Visits,
           \/ \E e \in Emails : LoginSubmit(v, e)
           \/ LogoutSubmit(v)
           \/ \E org \in Orgs : TenantSwitchSubmit(v, org)
           \/ \E p \in People, change \in Changes : IdentityBulk(v, p, change)
    PROVE  AccountsInv'
<1>1. /\ visit \in [Visits -> VisitType] /\ visit[v] \in VisitType /\ VisitKnows(visit[v], person)
      /\ SignedOut \in VisitType /\ VisitKnows(SignedOut, person)
  BY DEF AccountsInv, AccountsTyped, SignedOut, VisitType, VisitKnows
<1>2. ASSUME NEW e \in Emails, LoginSubmit(v, e) PROVE AccountsInv'
  <2>1. PICK p \in GetByEmailGlobal(e) : person[p].password /\ visit' = [visit EXCEPT ![v] = [SignedOut EXCEPT !.of = p]]
    BY <1>2 DEF LoginSubmit, AcceptedAs
  <2>2. p \in People /\ person[p].state = "active"
    BY DEF GetByEmailGlobal, Active
  <2> DEFINE q == [SignedOut EXCEPT !.of = p]
  <2>3. q \in VisitType /\ q.of = p /\ q.change = "none"
    BY <2>2 DEF SignedOut, VisitType
  <2> HIDE DEF q
  <2>4. VisitKnows(q, person)
    BY <2>1, <2>2, <2>3 DEF VisitKnows
  <2>5. visit' = [visit EXCEPT ![v] = q] /\ UNCHANGED <<orgs, person, wizard, mishaps>>
    BY <1>2, <2>1 DEF LoginSubmit, q
  <2> QED BY <2>3, <2>4, <2>5, VisitStepKeepsInv
<1>3. CASE LogoutSubmit(v)
  BY <1>1, <1>3, VisitStepKeepsInv DEF LogoutSubmit
<1>4. ASSUME NEW org \in Orgs, TenantSwitchSubmit(v, org) PROVE AccountsInv'
  <2> DEFINE q == [visit[v] EXCEPT !.org = org]
  <2>1. visit' = [visit EXCEPT ![v] = q] /\ UNCHANGED <<orgs, person, wizard, mishaps>>
    BY <1>1, <1>4 DEF TenantSwitchSubmit
  <2>2. q \in VisitType /\ q.of = visit[v].of /\ q.change = visit[v].change /\ q.whom = visit[v].whom
    BY <1>1 DEF VisitType
  <2> HIDE DEF q
  <2>3. VisitKnows(q, person)
    BY <1>1, <2>2 DEF VisitKnows
  <2> QED BY <2>1, <2>2, <2>3, VisitStepKeepsInv
<1>5. ASSUME NEW p \in People, NEW change \in Changes, IdentityBulk(v, p, change) PROVE AccountsInv'
  <2> DEFINE q == [visit[v] EXCEPT !.change = change, !.whom = p]
  <2>1. /\ visit' = [visit EXCEPT ![v] = q] /\ UNCHANGED <<orgs, person, wizard, mishaps>>
        /\ change # "restore" => visit[v].of # p
        /\ person[p].state # "none"
    BY <1>1, <1>5 DEF IdentityBulk, NotOneself
  <2>2. q \in VisitType /\ q.of = visit[v].of /\ q.change = change /\ q.whom = p
    BY <1>1 DEF VisitType
  <2> HIDE DEF q
  <2>3. VisitKnows(q, person)
    BY <1>1, <2>1, <2>2 DEF VisitKnows
  <2> QED BY <2>1, <2>2, <2>3, VisitStepKeepsInv
<1> QED BY <1>2, <1>3, <1>4, <1>5

(* Whoever is signed in can sign in again.                                 *)
LEMMA SignedInIsLeft ==
    ASSUME AccountsInv, NEW v \in Visits, SignedIn(v)
    PROVE  /\ visit[v].of \in People /\ person[visit[v].of].state = "active"
           /\ person[visit[v].of].password
<1>1. visit[v] \in VisitType /\ VisitKnows(visit[v], person)
  BY DEF AccountsInv, AccountsTyped
<1> QED BY <1>1 DEF SignedIn, Active, VisitType, VisitKnows

LEMMA UserStepsKeepInv ==
    ASSUME AccountsInv, NEW v \in Visits, NEW p \in People, NEW email \in Emails,
           UserCreateSubmit(v, p, email) \/ UserUpdateSubmit(v, p, email)
    PROVE  AccountsInv'
<1>0. SignedIn(v) /\ UNCHANGED <<orgs, wizard, visit>>
  BY DEF UserCreateSubmit, UserUpdateSubmit
<1>1. /\ person \in [People -> PersonType] /\ wizard \in [Wizards -> WizardType]
      /\ visit[v] \in VisitType /\ \A w \in Wizards : WizardKnows(wizard[w])
      /\ \A q \in People : person[q].state # "none" => person[q].email \in Emails
  BY DEF AccountsInv, AccountsTyped
<1> DEFINE o == visit[v].of
<1>2. o \in People /\ person[o].state = "active" /\ person[o].password
  BY <1>0, SignedInIsLeft
<1>3. CASE UserCreateSubmit(v, p, email)
  <2> DEFINE row == [Unborn EXCEPT !.state = "active", !.email = email, !.org = EffectiveTenant(v)]
  <2>1. CreateIdentity(p, row)
    BY <1>3 DEF UserCreateSubmit
  <2>2. EffectiveTenant(v) \in Orgs \cup {Absent}
    BY <1>1, <1>2 DEF EffectiveTenant, PersonType, VisitType
  <2>3. row \in PersonType /\ row.state = "active" /\ row.email \in Emails
    BY <2>2, UnbornTyped DEF PersonType
  <2> HIDE DEF row
  <2>4. /\ person[p].state = "none" /\ person' = [person EXCEPT ![p] = row]
        /\ person' \in [People -> PersonType]
        /\ \A x \in People : person'[x].state # "none" => person'[x].email \in Emails
        /\ \A u \in Visits : VisitKnows(visit[u], person')
        /\ "shared" \notin mishaps' => EmailsUnique(person')
    BY <2>1, <2>3, CreateIdentityMeans
  <2>5. o # p
    BY <1>2, <2>4
  <2>6. person'[o] = person[o]
    BY <1>1, <1>2, <2>4, <2>5
  <2>7. SomebodyIsLeft(person', wizard')
    BY <1>2, <2>6 DEF SomebodyIsLeft
  <2> QED BY <1>0, <1>1, <2>4, <2>7 DEF AccountsInv, AccountsTyped
<1>4. CASE UserUpdateSubmit(v, p, email)
  <2>1. /\ person' = [person EXCEPT ![p].email = email] /\ Recorded(Shares(p, email))
    BY <1>4 DEF UserUpdateSubmit
  <2>2. /\ person' \in [People -> PersonType]
        /\ \A x \in People : /\ person'[x].state = person[x].state
                             /\ person'[x].password = person[x].password
                             /\ x # p => person'[x].email = person[x].email
        /\ person'[p].email = email
    BY <1>1, <2>1 DEF PersonType
  <2>3. "shared" \notin mishaps' => "shared" \notin mishaps /\ ~Shares(p, email)
    BY <2>1 DEF Recorded
  <2>4. "shared" \notin mishaps' => EmailsUnique(person')
    BY <2>2, <2>3 DEF AccountsInv, EmailsUnique, Shares, Active
  <2>5. SomebodyIsLeft(person', wizard')
    BY <1>2, <2>2 DEF SomebodyIsLeft
  <2>6. \A u \in Visits : VisitKnows(visit[u], person')
    <3> SUFFICES ASSUME NEW u \in Visits PROVE VisitKnows(visit[u], person')
      OBVIOUS
    <3>1. VisitKnows(visit[u], person) /\ visit[u].of \in People \cup {Absent}
      BY DEF AccountsInv, AccountsTyped, VisitType
    <3> QED BY <2>2, <3>1 DEF VisitKnows
  <2>7. \A x \in People : person'[x].state # "none" => person'[x].email \in Emails
    BY <1>1, <2>2
  <2> QED BY <1>0, <1>1, <2>2, <2>4, <2>5, <2>6, <2>7 DEF AccountsInv, AccountsTyped
<1> QED BY <1>3, <1>4

(* Whoever deletes stays behind himself.                                   *)
LEMMA CarryOutKeepsInv ==
    ASSUME AccountsInv, NEW v \in Visits, CarryOut(v)
    PROVE  AccountsInv'
<1> DEFINE p == visit[v].whom
           state == ChangedTo(p, visit[v].change)
           gone == state = "gone"
           b == person[p].password /\ ~gone
<1>1. /\ person \in [People -> PersonType] /\ visit \in [Visits -> VisitType]
      /\ visit[v] \in VisitType /\ VisitKnows(visit[v], person)
      /\ \A q \in People : person[q].state # "none" => person[q].email \in Emails
      /\ UNCHANGED <<orgs, wizard>> /\ visit[v].change # "none"
  BY DEF AccountsInv, AccountsTyped, CarryOut
<1>2. /\ person' = [person EXCEPT ![p].state = state, ![p].password = b]
      /\ visit' = [u \in Visits |->
           IF gone /\ visit[u].of = p /\ u # v THEN [visit[u] EXCEPT !.of = Absent]
           ELSE IF u = v THEN [visit[u] EXCEPT !.change = "none", !.whom = Absent]
           ELSE visit[u]]
      /\ mishaps' = mishaps
           \cup (IF SignedIn(v) THEN {} ELSE {"crossed"})
           \cup (IF state = "active" /\ Shares(p, person[p].email) THEN {"shared"} ELSE {})
  BY DEF CarryOut
<1>3. p \in People /\ visit[v].change \in Changes /\ person[p].state # "none"
  BY <1>1 DEF VisitKnows, VisitType
<1>4. /\ state \in {"none", "active", "binned", "gone"}
      /\ visit[v].change = "restore" =>
           state = IF person[p].state = "binned" THEN "active" ELSE person[p].state
      /\ state = "active" => person[p].state \in {"active", "binned"}
      /\ person[p].state = "gone" => state = "gone"
      /\ state # "none"
  BY <1>1, <1>3 DEF ChangedTo, Changes, Active, PersonType
<1>5. /\ b \in BOOLEAN
      /\ (b <=> person[p].password /\ ~gone)
  BY <1>1, <1>3 DEF PersonType
<1> HIDE DEF b, state
<1>6. /\ person' \in [People -> PersonType]
      /\ \A x \in People : /\ person'[x].email = person[x].email
                           /\ x # p => person'[x] = person[x]
      /\ person'[p].state = state /\ person'[p].password = b
  <2> DEFINE row == [person[p] EXCEPT !.state = state, !.password = b]
  <2>1. person' = [person EXCEPT ![p] = row]
    BY <1>1, <1>2, <1>3
  <2> HIDE DEF p
  <2>2. /\ row \in PersonType /\ row.state = state /\ row.password = b
        /\ row.email = person[p].email
    BY <1>1, <1>3, <1>4, <1>5 DEF PersonType
  <2> HIDE DEF row
  <2> QED BY <1>1, <1>3, <2>1, <2>2
<1>7. ASSUME mishaps' = {} PROVE SomebodyIsLeft(person', wizard')
  <2>1. SignedIn(v)
    BY <1>2, <1>7
  <2> DEFINE o == visit[v].of
  <2>2. o \in People /\ person[o].state = "active" /\ person[o].password
    BY <2>1, SignedInIsLeft
  <2>3. person'[o].state = "active" /\ person'[o].password
    <3>1. CASE o # p
      BY <1>6, <2>2, <3>1
    <3>2. CASE o = p
      <4>1. visit[v].change = "restore"
        BY <1>1, <1>3, <3>2 DEF VisitKnows, Changes
      <4>2. state = "active" /\ b
        BY <1>4, <1>5, <2>2, <3>2, <4>1
      <4> QED BY <1>6, <3>2, <4>2
    <3> QED BY <3>1, <3>2
  <2> QED BY <2>2, <2>3 DEF SomebodyIsLeft
<1>8. "shared" \notin mishaps' => EmailsUnique(person')
  <2>1. "shared" \notin mishaps' =>
          "shared" \notin mishaps /\ (state = "active" => ~Shares(p, person[p].email))
    BY <1>2
  <2> HIDE DEF p
  <2> QED BY <1>3, <1>6, <2>1 DEF AccountsInv, EmailsUnique, Shares, Active
<1>9. ASSUME NEW u \in Visits PROVE visit'[u] \in VisitType /\ VisitKnows(visit'[u], person')
  <2>1. visit[u] \in VisitType /\ VisitKnows(visit[u], person)
    BY <1>1 DEF AccountsInv
  <2>2. CASE gone /\ visit[u].of = p /\ u # v
    <3> DEFINE q == [visit[u] EXCEPT !.of = Absent]
    <3>1. visit'[u] = q
      BY <1>2, <2>2
    <3>2. q \in VisitType /\ q.of = Absent /\ q.change = visit[u].change /\ q.whom = visit[u].whom
      BY <2>1 DEF VisitType
    <3> HIDE DEF q
    <3>3. visit[u].change # "none" => visit[u].whom \in People /\ person'[visit[u].whom].state # "none"
      BY <1>4, <1>6, <2>1 DEF VisitKnows
    <3>4. VisitKnows(q, person')
      BY <2>1, <3>2, <3>3, AbsentIsNoPerson DEF VisitKnows
    <3> QED BY <3>1, <3>2, <3>4
  <2>3. CASE ~(gone /\ visit[u].of = p /\ u # v)
    <3>1. visit[u].of # Absent =>
            /\ person'[visit[u].of].state # "none"
            /\ person'[visit[u].of].password \/ person'[visit[u].of].state = "gone"
      <4> SUFFICES ASSUME visit[u].of # Absent
                   PROVE  /\ person'[visit[u].of].state # "none"
                          /\ person'[visit[u].of].password \/ person'[visit[u].of].state = "gone"
        OBVIOUS
      <4>1. visit[u].of \in People /\ person[visit[u].of].state # "none"
            /\ (person[visit[u].of].password \/ person[visit[u].of].state = "gone")
        BY <2>1 DEF VisitKnows, VisitType
      <4>2. CASE visit[u].of # p
        BY <1>6, <4>1, <4>2
      <4>3. CASE visit[u].of = p
        BY <1>4, <1>5, <1>6, <4>1, <4>3
      <4> QED BY <4>2, <4>3
    <3>2. visit[u].change # "none" => visit[u].whom \in People /\ person'[visit[u].whom].state # "none"
      BY <1>4, <1>6, <2>1 DEF VisitKnows
    <3>3. CASE u = v
      <4> DEFINE q == [visit[u] EXCEPT !.change = "none", !.whom = Absent]
      <4>1. visit'[u] = q
        BY <1>2, <2>3, <3>3
      <4>2. q \in VisitType /\ q.of = visit[u].of /\ q.change = "none"
        BY <2>1 DEF VisitType
      <4> HIDE DEF q
      <4>3. VisitKnows(q, person')
        BY <3>1, <4>2 DEF VisitKnows
      <4> QED BY <4>1, <4>2, <4>3
    <3>4. CASE u # v
      <4>1. visit'[u] = visit[u]
        BY <1>2, <2>3, <3>4
      <4>2. VisitKnows(visit[u], person')
        BY <2>1, <3>1, <3>2 DEF VisitKnows
      <4> QED BY <2>1, <4>1, <4>2
    <3> QED BY <3>3, <3>4
  <2> QED BY <2>2, <2>3
<1>10. visit' \in [Visits -> VisitType]
  <2>1. visit' = [u \in Visits |-> visit'[u]]
    BY <1>2
  <2> QED BY <1>9, <2>1
<1>11. \A x \in People : person'[x].state # "none" => person'[x].email \in Emails
  BY <1>1, <1>3, <1>6
<1>12. AccountsTyped' /\ \A w \in Wizards : WizardKnows(wizard'[w])
  BY <1>1, <1>6, <1>10, <1>11 DEF AccountsInv, AccountsTyped
<1> QED BY <1>7, <1>8, <1>9, <1>12 DEF AccountsInv

(* A step that only moves flags of a row.                                  *)
LEMMA FlagStepKeepsInv ==
    ASSUME AccountsInv, NEW p \in People, NEW row \in PersonType,
           row.state = person[p].state, row.email = person[p].email,
           row.password = person[p].password,
           person' = [person EXCEPT ![p] = row], UNCHANGED <<orgs, wizard, visit, mishaps>>
    PROVE  AccountsInv'
<1>1. /\ person \in [People -> PersonType] /\ wizard \in [Wizards -> WizardType]
      /\ \A v \in Visits : visit[v] \in VisitType /\ VisitKnows(visit[v], person)
      /\ \A q \in People : person[q].state # "none" => person[q].email \in Emails
  BY DEF AccountsInv, AccountsTyped
<1>2. /\ person' \in [People -> PersonType]
      /\ \A x \in People : /\ person'[x].state = person[x].state /\ person'[x].email = person[x].email
                           /\ person'[x].password = person[x].password
  BY <1>1
<1>3. \A v \in Visits : VisitKnows(visit[v], person')
  BY <1>1, <1>2 DEF VisitKnows, VisitType
<1>4. "shared" \notin mishaps' => EmailsUnique(person')
  BY <1>1, <1>2 DEF AccountsInv, EmailsUnique
<1>5. mishaps' = {} => SomebodyIsLeft(person', wizard')
  <2>1. \A w \in Wizards : wizard[w].who \in People \cup {Absent}
    BY <1>1 DEF WizardType
  <2> QED BY <1>1, <1>2, <2>1 DEF AccountsInv, SomebodyIsLeft
<1>6. AccountsTyped' /\ \A w \in Wizards : WizardKnows(wizard'[w])
  BY <1>1, <1>2 DEF AccountsInv, AccountsTyped
<1> QED BY <1>1, <1>3, <1>4, <1>5, <1>6 DEF AccountsInv

LEMMA FlagsKeepInv ==
    ASSUME AccountsInv, NEW p \in People,
           \/ RoleRecomputed(p)
           \/ LockIdentityIfThresholdExceeded(p)
           \/ \E v \in Visits, b \in BOOLEAN : UserFieldUpdate(v, p, b)
    PROVE  AccountsInv'
<1>1. person \in [People -> PersonType] /\ person[p] \in PersonType
  BY DEF AccountsInv, AccountsTyped
<1>2. CASE RoleRecomputed(p)
  <2> DEFINE row == [person[p] EXCEPT !.super = person[p].assigned]
  <2>1. person' = [person EXCEPT ![p] = row] /\ UNCHANGED <<orgs, wizard, visit, mishaps>>
    BY <1>1, <1>2 DEF RoleRecomputed
  <2>2. row \in PersonType /\ row.state = person[p].state /\ row.email = person[p].email
        /\ row.password = person[p].password
    BY <1>1 DEF PersonType
  <2> HIDE DEF row
  <2> QED BY <2>1, <2>2, FlagStepKeepsInv
<1>3. CASE LockIdentityIfThresholdExceeded(p)
  <2> DEFINE row == [person[p] EXCEPT !.barred = TRUE]
  <2>1. person' = [person EXCEPT ![p] = row] /\ UNCHANGED <<orgs, wizard, visit, mishaps>>
    BY <1>1, <1>3 DEF LockIdentityIfThresholdExceeded
  <2>2. row \in PersonType /\ row.state = person[p].state /\ row.email = person[p].email
        /\ row.password = person[p].password
    BY <1>1 DEF PersonType
  <2> HIDE DEF row
  <2> QED BY <2>1, <2>2, FlagStepKeepsInv
<1>4. ASSUME NEW v \in Visits, NEW b \in BOOLEAN, UserFieldUpdate(v, p, b)
      PROVE  AccountsInv'
  <2> DEFINE row == [person[p] EXCEPT !.barred = b]
  <2>1. person' = [person EXCEPT ![p] = row] /\ UNCHANGED <<orgs, wizard, visit, mishaps>>
    BY <1>1, <1>4 DEF UserFieldUpdate
  <2>2. row \in PersonType /\ row.state = person[p].state /\ row.email = person[p].email
        /\ row.password = person[p].password
    BY <1>1 DEF PersonType
  <2> HIDE DEF row
  <2> QED BY <2>1, <2>2, FlagStepKeepsInv
<1> QED BY <1>2, <1>3, <1>4

LEMMA AccountsNextKeepsInv == AccountsInv /\ [AccountsNext]_accountVars => AccountsInv'
<1> SUFFICES ASSUME AccountsInv, [AccountsNext]_accountVars PROVE AccountsInv'
  OBVIOUS
<1>1. CASE UNCHANGED accountVars
  BY <1>1 DEF accountVars, AccountsInv, AccountsTyped
<1> QED BY <1>1, WizardStepsKeepInv, SessionStepsKeepInv, UserStepsKeepInv, CarryOutKeepsInv,
           FlagsKeepInv DEF AccountsNext

LEMMA AccountsInvHolds == AccountsSpec => []AccountsInv
<1>1. AccountsInit => AccountsInv
  <2> SUFFICES ASSUME AccountsInit PROVE AccountsInv
    OBVIOUS
  <2>1. \A p \in People : person[p] = Unborn /\ person[p].state = "none"
    BY DEF AccountsInit, Unborn
  <2>2. \A w \in Wizards : WizardKnows(wizard[w])
    BY DEF AccountsInit, WizardIdle, WizardKnows
  <2>3. \A v \in Visits : VisitKnows(visit[v], person)
    BY DEF AccountsInit, SignedOut, VisitKnows
  <2>4. AccountsTyped
    BY <2>1, UnbornTyped DEF AccountsInit, AccountsTyped, WizardIdle, WizardType, SignedOut, VisitType
  <2>5. EmailsUnique(person) /\ SomebodyIsLeft(person, wizard)
    BY <2>1 DEF EmailsUnique, SomebodyIsLeft
  <2> QED BY <2>2, <2>3, <2>4, <2>5 DEF AccountsInv
<1> QED BY <1>1, AccountsNextKeepsInv, PTL DEF AccountsSpec

(* For any number of people, organizations, wizards and browsers: behind a *)
(* closed wizard a login accepts somebody, unless one with a password is   *)
(* locked or disabled, however the wizards, the changes, the locks and the *)
(* deletions interleave.                                                   *)
THEOREM NobodyIsLockedOut == AccountsSpec => []SomebodyCanSignIn
<1>1. AccountsInv => SomebodyCanSignIn
  <2> SUFFICES ASSUME AccountsInv, GateClosed, mishaps = {}, \A w \in Wizards : wizard[w].who = Absent,
                      \A p \in People : Active(p) /\ person[p].password => Admits(p)
               PROVE  \E e \in Emails : AcceptedAs(e) # {}
    BY DEF SomebodyCanSignIn
  <2>1. PICK p \in People : person[p].state = "active" /\ person[p].password
    BY DEF AccountsInv, SomebodyIsLeft, GateClosed, Active
  <2> DEFINE e == person[p].email
             found == {q \in People : Active(q) /\ person[q].email = e}
  <2>2. e \in Emails
    BY <2>1 DEF AccountsInv, AccountsTyped
  <2>3. found = {p}
    BY <2>1 DEF AccountsInv, EmailsUnique, Active
  <2>4. Cardinality(found) = 1
    BY <2>3, FS_Singleton
  <2>5. p \in GetByEmailGlobal(e)
    BY <2>3, <2>4 DEF GetByEmailGlobal
  <2>6. p \in AcceptedAs(e)
    BY <2>1, <2>5 DEF AcceptedAs, Active
  <2> QED BY <2>2, <2>6
<1> QED BY <1>1, AccountsInvHolds, PTL

(* Rows, sessions and forms under way name tenants there are: tenants are  *)
(* never deleted.                                                          *)
OrgsKnown ==
    /\ \A p \in People : person[p].org \in orgs \cup {Absent}
    /\ \A w \in Wizards : wizard[w].next = "identity" => wizard[w].form.org \in orgs
    /\ \A v \in Visits : visit[v].org \in orgs \cup {Absent}
    /\ mishaps \subseteq {"cut", "shared", "crossed"}

LEMMA OrgsKnownInitially == AccountsInit => OrgsKnown
BY DEF AccountsInit, OrgsKnown, Unborn, WizardIdle, SignedOut

LEMMA OrgsStayKnown == AccountsInv /\ OrgsKnown /\ [AccountsNext]_accountVars => OrgsKnown'
<1> SUFFICES ASSUME AccountsInv, OrgsKnown, [AccountsNext]_accountVars PROVE OrgsKnown'
  OBVIOUS
<1>0. /\ person \in [People -> PersonType] /\ wizard \in [Wizards -> WizardType]
      /\ visit \in [Visits -> VisitType]
      /\ \A w \in Wizards : WizardKnows(wizard[w])
      /\ \A v \in Visits : VisitKnows(visit[v], person)
  BY DEF AccountsInv, AccountsTyped
<1>1. ASSUME NEW w \in Wizards, NEW f \in Forms, SetupSubmit(w, f) PROVE OrgsKnown'
  BY <1>0, <1>1 DEF SetupSubmit, OrgsKnown
<1>2. ASSUME NEW p \in People, NEW row, row.org \in orgs \cup {Absent}, CreateIdentity(p, row),
             UNCHANGED <<orgs, visit>>,
             \A w \in Wizards : wizard'[w].next = "identity" => wizard[w].next = "identity"
                                                              /\ wizard'[w].form = wizard[w].form
      PROVE  OrgsKnown'
  BY <1>0, <1>2 DEF CreateIdentity, Recorded, OrgsKnown
<1>3. ASSUME NEW w \in Wizards, NEW p \in People, SetupIdentity(w, p) PROVE OrgsKnown'
  <2> DEFINE row == [Unborn EXCEPT !.state = "active", !.org = wizard[w].form.org,
                                   !.email = wizard[w].form.email, !.super = TRUE]
  <2>1. row.org = wizard[w].form.org
    BY DEF Unborn
  <2>2. CreateIdentity(p, row) /\ UNCHANGED <<orgs, visit>> /\ wizard[w].next = "identity"
        /\ wizard' = [wizard EXCEPT ![w].next = "builtins", ![w].who = p]
    BY <1>3 DEF SetupIdentity, WizardAt
  <2> HIDE DEF row
  <2>3. row.org \in orgs
    BY <2>1, <2>2 DEF OrgsKnown
  <2>4. \A u \in Wizards : wizard'[u].next = "identity" => wizard[u].next = "identity"
                                                         /\ wizard'[u].form = wizard[u].form
    BY <1>0, <2>2 DEF WizardType
  <2> QED BY <1>2, <2>2, <2>3, <2>4
<1>4. ASSUME NEW w \in Wizards, SetupBuiltins(w) \/ SetIdentityPasswordHash(w) PROVE OrgsKnown'
  <2>1. UNCHANGED <<orgs, visit, mishaps>>
    BY <1>4 DEF SetupBuiltins, SetIdentityPasswordHash
  <2>2. \A p \in People : person'[p].org = person[p].org
    <3>1. CASE SetupBuiltins(w)
      <4>1. PICK done \in BOOLEAN : person' = [person EXCEPT ![wizard[w].who].assigned =
                                      done /\ person[wizard[w].who].state # "gone"]
        BY <3>1 DEF SetupBuiltins
      <4> QED BY <1>0, <4>1 DEF PersonType
    <3>2. CASE SetIdentityPasswordHash(w)
      <4>1. person' = [person EXCEPT ![wizard[w].who].password =
                         person[wizard[w].who].state # "gone"]
        BY <3>2 DEF SetIdentityPasswordHash
      <4> QED BY <1>0, <4>1 DEF PersonType
    <3> QED BY <1>4, <3>1, <3>2
  <2>3. \A u \in Wizards : wizard'[u].next = "identity" => wizard'[u] = wizard[u]
    BY <1>0, <1>4 DEF SetupBuiltins, SetIdentityPasswordHash, WizardIdle, WizardType
  <2> QED BY <2>1, <2>2, <2>3 DEF OrgsKnown
<1>5. ASSUME NEW w \in Wizards, SetupCutShort(w) PROVE OrgsKnown'
  BY <1>0, <1>5 DEF SetupCutShort, OrgsKnown, WizardIdle
<1>6. ASSUME NEW v \in Visits, \/ \E e \in Emails : LoginSubmit(v, e)
                               \/ LogoutSubmit(v)
                               \/ \E org \in Orgs : TenantSwitchSubmit(v, org)
      PROVE  OrgsKnown'
  <2>1. UNCHANGED <<orgs, person, wizard, mishaps>>
    BY <1>6 DEF LoginSubmit, LogoutSubmit, TenantSwitchSubmit
  <2>2. \A u \in Visits : visit'[u].org \in {visit[u].org, Absent} \cup orgs
    BY <1>0, <1>6 DEF LoginSubmit, LogoutSubmit, TenantSwitchSubmit, SignedOut, VisitType
  <2> QED BY <2>1, <2>2 DEF OrgsKnown
<1>7. ASSUME NEW v \in Visits, NEW p \in People, NEW e \in Emails, UserCreateSubmit(v, p, e)
      PROVE  OrgsKnown'
  <2> DEFINE row == [Unborn EXCEPT !.state = "active", !.email = e, !.org = EffectiveTenant(v)]
  <2>1. row.org = EffectiveTenant(v)
    BY DEF Unborn
  <2>2. CreateIdentity(p, row) /\ UNCHANGED <<orgs, wizard, visit>> /\ SignedIn(v)
    BY <1>7 DEF UserCreateSubmit
  <2> HIDE DEF row
  <2>3. visit[v].of \in People
    BY <1>0, <2>2 DEF SignedIn, VisitType
  <2>4. row.org \in orgs \cup {Absent}
    BY <2>1, <2>3 DEF EffectiveTenant, OrgsKnown
  <2> QED BY <1>2, <2>2, <2>4
<1>8. ASSUME NEW v \in Visits, NEW p \in People, NEW e \in Emails, UserUpdateSubmit(v, p, e)
      PROVE  OrgsKnown'
  <2>1. \A q \in People : person'[q].org = person[q].org
    BY <1>0, <1>8 DEF UserUpdateSubmit, PersonType
  <2> QED BY <1>8, <2>1 DEF UserUpdateSubmit, Recorded, OrgsKnown
<1>9. ASSUME NEW v \in Visits, NEW p \in People, NEW change \in Changes, IdentityBulk(v, p, change)
      PROVE  OrgsKnown'
  <2>1. \A u \in Visits : visit'[u].org = visit[u].org
    BY <1>0, <1>9 DEF IdentityBulk, VisitType
  <2> QED BY <1>9, <2>1 DEF IdentityBulk, OrgsKnown
<1>10. ASSUME NEW v \in Visits, CarryOut(v) PROVE OrgsKnown'
  <2>1. \A p \in People : person'[p].org = person[p].org
    BY <1>0, <1>10 DEF CarryOut, PersonType
  <2>2. \A u \in Visits : visit'[u].org = visit[u].org
    BY <1>0, <1>10 DEF CarryOut, VisitType
  <2>3. UNCHANGED <<orgs, wizard>> /\ mishaps' \subseteq mishaps \cup {"crossed", "shared"}
    BY <1>10 DEF CarryOut
  <2> QED BY <2>1, <2>2, <2>3 DEF OrgsKnown
<1>11. ASSUME NEW p \in People,
              \/ RoleRecomputed(p) \/ LockIdentityIfThresholdExceeded(p)
              \/ \E v \in Visits, b \in BOOLEAN : UserFieldUpdate(v, p, b)
       PROVE  OrgsKnown'
  <2>1. \A q \in People : person'[q].org = person[q].org
    <3>1. CASE RoleRecomputed(p)
      BY <1>0, <3>1 DEF RoleRecomputed, PersonType
    <3>2. CASE LockIdentityIfThresholdExceeded(p)
      BY <1>0, <3>2 DEF LockIdentityIfThresholdExceeded, PersonType
    <3>3. ASSUME NEW v \in Visits, NEW b \in BOOLEAN, UserFieldUpdate(v, p, b)
          PROVE  \A q \in People : person'[q].org = person[q].org
      BY <1>0, <3>3 DEF UserFieldUpdate, PersonType
    <3> QED BY <1>11, <3>1, <3>2, <3>3
  <2>2. UNCHANGED <<orgs, wizard, visit, mishaps>>
    BY <1>11 DEF RoleRecomputed, LockIdentityIfThresholdExceeded, UserFieldUpdate
  <2> QED BY <2>1, <2>2 DEF OrgsKnown
<1>12. CASE UNCHANGED accountVars
  BY <1>12 DEF accountVars, OrgsKnown
<1> QED
  BY <1>1, <1>3, <1>4, <1>5, <1>6, <1>7, <1>8, <1>9, <1>10, <1>11, <1>12 DEF AccountsNext

(* Accounts are of their types in every state: every row, session and half *)
(* finished setup names a tenant there is, which only SetupSubmit makes.   *)
THEOREM AccountsTypeCorrect == AccountsSpec => []AccountsTypeOK
<1>1. AccountsInv /\ OrgsKnown => AccountsTypeOK
  BY DEF AccountsInv, AccountsTyped, OrgsKnown, AccountsTypeOK, PersonType, WizardType, VisitType
<1> QED BY <1>1, OrgsKnownInitially, OrgsStayKnown, AccountsInvHolds, PTL DEF AccountsSpec

-----------------------------------------------------------------------------
(* DependencyGroups.                                                       *)

(* A request that links has a module and a group; one that erases has seen *)
(* no link to its group, and there is none until another request links.    *)
ClerkKnows(q, lk) ==
    /\ q.next = "write" /\ q.task \in LinkRoles => q.module \in Dependents
    /\ q.next # "none" => q.group \in GroupRows
    /\ q.next = "erase" /\ ~q.late => \A l \in lk : l.group # q.group

ConditionsCounted ==
    IsFiniteSet(conditions) /\ Cardinality(conditions) <= lastCondition

DepInv ==
    /\ DepTypeOK
    /\ ConditionsCounted
    /\ \A r \in Clerks : ClerkKnows(clerk[r], linked)

-----------------------------------------------------------------------------

LEMMA LinksAreFinite == ASSUME NEW lk, lk \subseteq LinkRows PROVE IsFiniteSet(lk)
<1>1. IsFiniteSet(LinkRoles)
  <2>1. IsFiniteSet({"platform"}) /\ IsFiniteSet({"requirement"})
    BY FS_Singleton
  <2>2. LinkRoles = {"platform"} \cup {"requirement"}
    BY DEF LinkRoles
  <2> QED BY <2>1, <2>2, FS_Union
<1> DEFINE Triples == (Dependents \X GroupRows) \X LinkRoles
           Row(x) == [module |-> x[1][1], group |-> x[1][2], role |-> x[2]]
<1>2. IsFiniteSet(Dependents \X GroupRows)
  BY DependentsAssumption, FS_Product
<1>3. IsFiniteSet(Triples)
  BY <1>1, <1>2, FS_Product
<1>4. IsFiniteSet({Row(x) : x \in Triples})
  <2> DEFINE f == [x \in Triples |-> Row(x)]
             S == {Row(x) : x \in Triples}
  <2>1. f \in [Triples -> S]
    OBVIOUS
  <2>2. \A y \in S : \E x \in Triples : f[x] = y
    OBVIOUS
  <2>3. f \in Surjection(Triples, S)
    BY <2>1, <2>2 DEF Surjection
  <2> QED BY <1>3, <2>3, FS_Surjection
<1>5. LinkRows \subseteq {Row(x) : x \in Triples}
  <2> SUFFICES ASSUME NEW l \in LinkRows PROVE l \in {Row(x) : x \in Triples}
    OBVIOUS
  <2>1. /\ l.module \in Dependents /\ l.group \in GroupRows /\ l.role \in LinkRoles
        /\ l = [module |-> l.module, group |-> l.group, role |-> l.role]
    BY DEF LinkRows
  <2> DEFINE x == <<<<l.module, l.group>>, l.role>>
  <2>2. x \in Triples /\ Row(x) = l
    BY <2>1
  <2> QED BY <2>2
<1> QED BY <1>4, <1>5, FS_Subset

LEMMA ClerkIdleKnows == ClerkIdle \in ClerkType /\ \A lk : ClerkKnows(ClerkIdle, lk)
<1>1. 0 \in 0 .. MaxConditionRows
  BY GroupRowsAssumption
<1> QED BY <1>1 DEF ClerkIdle, ClerkType, ClerkKnows, PageTasks

(* A step of one request that adds no link.                                *)
LEMMA ClerkStepKeepsInv ==
    ASSUME DepInv, NEW r \in Clerks, NEW w \in ClerkType, ClerkKnows(w, linked),
           clerk' = [clerk EXCEPT ![r] = w], linked' \subseteq linked,
           grow' \in [GroupRows -> {"none", "active", "binned", "gone"}],
           matching' \in [GroupRows -> {"all", "any"}],
           conditions' \subseteq ConditionRows, lastCondition' \in 0 .. MaxConditionRows,
           ConditionsCounted'
    PROVE  DepInv'
<1>1. clerk' \in [Clerks -> ClerkType] /\ \A s \in Clerks : ClerkKnows(clerk'[s], linked)
  BY DEF DepInv, DepTypeOK
<1>2. \A s \in Clerks : ClerkKnows(clerk'[s], linked')
  BY <1>1 DEF ClerkKnows
<1> QED BY <1>1, <1>2 DEF DepInv, DepTypeOK

(* One that writes nothing at all.                                         *)
LEMMA ClerkReadKeepsInv ==
    ASSUME DepInv, NEW r \in Clerks, NEW w \in ClerkType, ClerkKnows(w, linked),
           clerk' = [clerk EXCEPT ![r] = w], UNCHANGED DepTables
    PROVE  DepInv'
<1>1. ConditionsCounted'
  BY DEF DepInv, ConditionsCounted, DepTables
<1> QED BY <1>1, ClerkStepKeepsInv DEF DepTables, DepInv, DepTypeOK

LEMMA FewerConditions ==
    ASSUME DepInv, conditions' \subseteq conditions, UNCHANGED lastCondition
    PROVE  ConditionsCounted'
<1>1. IsFiniteSet(conditions') /\ Cardinality(conditions') <= Cardinality(conditions)
  BY FS_Subset DEF DepInv, ConditionsCounted
<1>2. Cardinality(conditions') \in Nat /\ Cardinality(conditions) \in Nat /\ lastCondition \in Nat
  BY <1>1, FS_CardinalityType DEF DepInv, DepTypeOK, ConditionsCounted
<1> QED BY <1>1, <1>2 DEF DepInv, ConditionsCounted

LEMMA ReadsKeepDepInv ==
    ASSUME DepInv, NEW r \in Clerks,
           \/ \E g \in GroupRows, task \in PageTasks, m \in Dependents : ResolveTenantDepGroup(r, g, task, m)
           \/ \E g \in GroupRows, task \in BulkTasks : DependencyGroupBulk(r, g, task)
           \/ GetForDeletion(r) \/ GetForRestore(r) \/ GetForMatchMode(r) \/ ListConditionsForGroup(r)
           \/ HardDelete(r) \/ ClerkGivesUp(r)
    PROVE  DepInv'
<1>1. /\ clerk \in [Clerks -> ClerkType] /\ clerk[r] \in ClerkType /\ ClerkKnows(clerk[r], linked)
      /\ ClerkIdle \in ClerkType
  BY ClerkIdleKnows DEF DepInv, DepTypeOK
<1>2. ASSUME NEW g \in GroupRows, NEW task \in PageTasks, NEW m \in Dependents,
             ResolveTenantDepGroup(r, g, task, m)
      PROVE  DepInv'
  <2> DEFINE module == IF task \in LinkRoles THEN m ELSE NoGroupRow
             next == IF task \in LinkRoles THEN "write" ELSE "get"
             w == [ClerkIdle EXCEPT !.task = task, !.group = g, !.module = module, !.next = next]
  <2>1. clerk' = [clerk EXCEPT ![r] = w] /\ UNCHANGED DepTables
    BY <1>2 DEF ResolveTenantDepGroup
  <2>2. /\ module \in Dependents \cup {NoGroupRow} /\ next \in {"write", "get"}
        /\ task \in LinkRoles => module \in Dependents
    OBVIOUS
  <2> HIDE DEF module, next
  <2>3. w \in ClerkType /\ w.next = next /\ w.task = task /\ w.module = module /\ w.group = g
    BY <1>1, <2>2 DEF ClerkType
  <2> HIDE DEF w
  <2>4. ClerkKnows(w, linked)
    BY <2>2, <2>3 DEF ClerkKnows
  <2> QED BY <2>1, <2>3, <2>4, ClerkReadKeepsInv
<1>3. ASSUME NEW g \in GroupRows, NEW task \in BulkTasks, DependencyGroupBulk(r, g, task)
      PROVE  DepInv'
  <2> DEFINE w == [ClerkIdle EXCEPT !.task = task, !.group = g, !.next = "get"]
  <2>1. clerk' = [clerk EXCEPT ![r] = w] /\ UNCHANGED DepTables
    BY <1>3 DEF DependencyGroupBulk
  <2>2. w \in ClerkType /\ w.next = "get" /\ w.group = g
    BY <1>1 DEF ClerkType
  <2> HIDE DEF w
  <2>3. ClerkKnows(w, linked)
    BY <2>2 DEF ClerkKnows
  <2> QED BY <2>1, <2>2, <2>3, ClerkReadKeepsInv
<1>4. ASSUME NEW next \in {"write", "count"}, ClerkAt(r, "get"), clerk[r].task \notin LinkRoles,
             ClerkGoto(r, next), UNCHANGED DepTables
      PROVE  DepInv'
  <2> DEFINE w == [clerk[r] EXCEPT !.next = next]
  <2>1. clerk' = [clerk EXCEPT ![r] = w]
    BY <1>1, <1>4 DEF ClerkGoto
  <2>2. w \in ClerkType /\ w.next = next /\ w.group = clerk[r].group /\ w.task = clerk[r].task
    BY <1>1 DEF ClerkType
  <2> HIDE DEF w
  <2>3. ClerkKnows(w, linked)
    BY <1>1, <1>4, <2>2 DEF ClerkKnows, ClerkAt
  <2> QED BY <1>4, <2>1, <2>2, <2>3, ClerkReadKeepsInv
<1>5. CASE GetForDeletion(r) \/ GetForRestore(r) \/ GetForMatchMode(r)
  BY <1>4, <1>5 DEF GetForDeletion, GetForRestore, GetForMatchMode, Doing, LinkRoles
<1>6. CASE ListConditionsForGroup(r)
  <2> DEFINE n == Cardinality(ConditionsOf(Subject(r)))
             w == [clerk[r] EXCEPT !.next = "write", !.seq = n]
  <2>1. clerk' = [clerk EXCEPT ![r] = w] /\ UNCHANGED DepTables
        /\ clerk[r].next = "get" /\ clerk[r].task = "condition"
    BY <1>1, <1>6 DEF ListConditionsForGroup, ClerkAt, Doing
  <2>2. n \in 0 .. MaxConditionRows
    <3>1. ConditionsOf(Subject(r)) \subseteq conditions
      BY DEF ConditionsOf
    <3>2. n <= Cardinality(conditions) /\ IsFiniteSet(ConditionsOf(Subject(r)))
      BY <3>1, FS_Subset DEF DepInv, ConditionsCounted
    <3>3. n \in Nat /\ Cardinality(conditions) \in Nat
      BY <3>2, FS_CardinalityType DEF DepInv, ConditionsCounted
    <3>4. Cardinality(conditions) <= lastCondition /\ lastCondition \in 0 .. MaxConditionRows
      BY DEF DepInv, DepTypeOK, ConditionsCounted
    <3> HIDE DEF n
    <3> QED BY <3>2, <3>3, <3>4, GroupRowsAssumption
  <2> HIDE DEF n
  <2>3. w \in ClerkType /\ w.next = "write" /\ w.group = clerk[r].group /\ w.task = "condition"
    BY <1>1, <2>1, <2>2 DEF ClerkType
  <2> HIDE DEF w
  <2>4. ClerkKnows(w, linked)
    BY <1>1, <2>1, <2>3 DEF ClerkKnows, LinkRoles
  <2> QED BY <2>1, <2>3, <2>4, ClerkReadKeepsInv
<1>7. CASE HardDelete(r)
  <2>1. CASE CountLinksForGroup(Subject(r)) = 0
    <3> DEFINE w == [clerk[r] EXCEPT !.next = "erase"]
    <3>1. clerk' = [clerk EXCEPT ![r] = w] /\ UNCHANGED DepTables /\ clerk[r].next = "count"
      BY <1>1, <1>7, <2>1 DEF HardDelete, ClerkGoto, ClerkAt
    <3>2. \A l \in linked : l.group # clerk[r].group
      <4> DEFINE links == {l \in linked : l.group = Subject(r)}
      <4>1. IsFiniteSet(links)
        BY LinksAreFinite DEF DepInv, DepTypeOK
      <4>2. links = {}
        BY <2>1, <4>1, FS_EmptySet DEF CountLinksForGroup
      <4> QED BY <4>2 DEF Subject
    <3>3. w \in ClerkType /\ w.next = "erase" /\ w.group = clerk[r].group
      BY <1>1 DEF ClerkType
    <3> HIDE DEF w
    <3>4. ClerkKnows(w, linked)
      BY <1>1, <3>1, <3>2, <3>3 DEF ClerkKnows
    <3> QED BY <3>1, <3>3, <3>4, ClerkReadKeepsInv
  <2>2. CASE CountLinksForGroup(Subject(r)) # 0
    BY <1>7, <2>2, ClerkIdleKnows, ClerkReadKeepsInv DEF HardDelete, ClerkDone
  <2> QED BY <2>1, <2>2
<1>8. CASE ClerkGivesUp(r)
  BY <1>8, ClerkIdleKnows, ClerkReadKeepsInv DEF ClerkGivesUp, ClerkDone
<1> QED BY <1>2, <1>3, <1>5, <1>6, <1>7, <1>8

LEMMA GroupWritesKeepDepInv ==
    ASSUME DepInv, NEW r \in Clerks,
           \/ SoftDeleteDependencyGroup(r) \/ RestoreDependencyGroup(r)
           \/ DeleteDependencyGroup(r)
           \/ \E how \in {"all", "any"} : UpdateGroupMatchMode(r, how)
           \/ CreateDependencyGroupCondition(r)
    PROVE  DepInv'
<1>1. /\ grow \in [GroupRows -> {"none", "active", "binned", "gone"}]
      /\ matching \in [GroupRows -> {"all", "any"}]
      /\ conditions \subseteq ConditionRows /\ lastCondition \in 0 .. MaxConditionRows
      /\ clerk[r] \in ClerkType /\ ClerkKnows(clerk[r], linked) /\ IsFiniteSet(conditions)
  BY DEF DepInv, DepTypeOK, ConditionsCounted
<1>2. ConditionsCounted
  BY DEF DepInv
<1>3. CASE SoftDeleteDependencyGroup(r) \/ RestoreDependencyGroup(r)
  <2>1. clerk' = [clerk EXCEPT ![r] = ClerkIdle] /\ UNCHANGED <<matching, conditions, lastCondition, linked>>
    BY <1>3 DEF SoftDeleteDependencyGroup, RestoreDependencyGroup, ClerkDone
  <2>2. grow' \in [GroupRows -> {"none", "active", "binned", "gone"}]
    BY <1>1, <1>3 DEF SoftDeleteDependencyGroup, RestoreDependencyGroup
  <2>3. ConditionsCounted'
    BY <2>1, FewerConditions
  <2> QED BY <1>1, <2>1, <2>2, <2>3, ClerkIdleKnows, ClerkStepKeepsInv
<1>4. CASE DeleteDependencyGroup(r)
  <2>1. /\ clerk' = [clerk EXCEPT ![r] = ClerkIdle] /\ UNCHANGED <<matching, lastCondition>>
        /\ conditions' \subseteq conditions /\ linked' \subseteq linked
        /\ grow' = [grow EXCEPT ![Subject(r)] = "gone"]
    BY <1>4 DEF DeleteDependencyGroup, ClerkDone
  <2>2. ConditionsCounted'
    BY <2>1, FewerConditions
  <2>3. grow' \in [GroupRows -> {"none", "active", "binned", "gone"}]
    BY <1>1, <2>1
  <2>4. conditions' \subseteq ConditionRows
    BY <1>1, <2>1
  <2> QED BY <1>1, <2>1, <2>2, <2>3, <2>4, ClerkIdleKnows, ClerkStepKeepsInv
<1>5. ASSUME NEW how \in {"all", "any"}, UpdateGroupMatchMode(r, how) PROVE DepInv'
  <2>1. clerk' = [clerk EXCEPT ![r] = ClerkIdle] /\ UNCHANGED <<grow, conditions, lastCondition, linked>>
    BY <1>5 DEF UpdateGroupMatchMode, ClerkDone
  <2>2. matching' \in [GroupRows -> {"all", "any"}]
    BY <1>1, <1>5 DEF UpdateGroupMatchMode
  <2>3. ConditionsCounted'
    BY <2>1, FewerConditions
  <2> QED BY <1>1, <2>1, <2>2, <2>3, ClerkIdleKnows, ClerkStepKeepsInv
<1>6. CASE CreateDependencyGroupCondition(r)
  <2> DEFINE c == [id |-> lastCondition', group |-> Subject(r), seq |-> clerk[r].seq]
  <2>1. /\ clerk' = [clerk EXCEPT ![r] = ClerkIdle] /\ UNCHANGED <<grow, matching, linked>>
        /\ lastCondition < MaxConditionRows /\ lastCondition' = lastCondition + 1
        /\ conditions' = conditions \cup {c} /\ clerk[r].next = "write"
    BY <1>6 DEF CreateDependencyGroupCondition, ClerkDone, ClerkAt
  <2>2. lastCondition' \in 1 .. MaxConditionRows
    BY <1>1, <2>1, GroupRowsAssumption
  <2>3. Subject(r) \in GroupRows /\ clerk[r].seq \in 0 .. MaxConditionRows
    BY <1>1, <2>1 DEF ClerkKnows, Subject, ClerkType
  <2>4. c \in ConditionRows
    BY <2>2, <2>3 DEF ConditionRows
  <2> HIDE DEF c
  <2>5. IsFiniteSet(conditions') /\ Cardinality(conditions) \in Nat /\ Cardinality(conditions') \in Nat
        /\ Cardinality(conditions') <= Cardinality(conditions) + 1
    <3>1. IsFiniteSet(conditions') /\ Cardinality(conditions') =
            IF c \in conditions THEN Cardinality(conditions) ELSE Cardinality(conditions) + 1
      BY <1>1, <2>1, FS_AddElement
    <3>2. Cardinality(conditions) \in Nat
      BY <1>1, FS_CardinalityType
    <3> QED BY <3>1, <3>2
  <2>6. Cardinality(conditions') <= lastCondition'
    BY <1>1, <1>2, <2>1, <2>5, GroupRowsAssumption DEF ConditionsCounted
  <2>7. ConditionsCounted'
    BY <2>5, <2>6 DEF ConditionsCounted
  <2>8. conditions' \subseteq ConditionRows
    BY <1>1, <2>1, <2>4
  <2>9. lastCondition' \in 0 .. MaxConditionRows
    BY <2>2, GroupRowsAssumption
  <2> QED BY <1>1, <2>1, <2>7, <2>8, <2>9, ClerkIdleKnows, ClerkStepKeepsInv
<1> QED BY <1>3, <1>4, <1>5, <1>6

LEMMA LinkModuleKeepsDepInv ==
    ASSUME DepInv, NEW r \in Clerks, LinkModule(r)
    PROVE  DepInv'
<1> DEFINE g == Subject(r)
           l == [module |-> clerk[r].module, group |-> g, role |-> clerk[r].task]
<1>1. /\ clerk \in [Clerks -> ClerkType] /\ ClerkKnows(clerk[r], linked) /\ linked \subseteq LinkRows
      /\ clerk[r].next = "write" /\ clerk[r].task \in LinkRoles
      /\ linked' = LinkOrIgnore(l) /\ UNCHANGED <<grow, matching, conditions, lastCondition>>
      /\ clerk' = [q \in Clerks |-> IF q = r THEN ClerkIdle
           ELSE [clerk[q] EXCEPT !.late = @ \/ (ClerkAt(q, "erase") /\ Subject(q) = g)]]
  BY DEF LinkModule, DepInv, DepTypeOK, ClerkAt, Doing
<1>2. g \in GroupRows /\ clerk[r].module \in Dependents
  BY <1>1 DEF ClerkKnows, Subject
<1>3. l \in LinkRows
  BY <1>1, <1>2 DEF LinkRows
<1>4. l.group = g
  OBVIOUS
<1> HIDE DEF l
<1>5. linked' \subseteq linked \cup {l} /\ linked' \subseteq LinkRows
  BY <1>1, <1>3 DEF LinkOrIgnore
<1>6. ASSUME NEW s \in Clerks PROVE clerk'[s] \in ClerkType /\ ClerkKnows(clerk'[s], linked')
  <2>1. CASE s = r
    BY <1>1, <2>1, ClerkIdleKnows
  <2>2. CASE s # r
    <3> DEFINE late == clerk[s].late \/ (ClerkAt(s, "erase") /\ Subject(s) = g)
               q == [clerk[s] EXCEPT !.late = late]
    <3>1. clerk'[s] = q
      BY <1>1, <2>2
    <3>2. clerk[s] \in ClerkType /\ ClerkKnows(clerk[s], linked)
      BY DEF DepInv, DepTypeOK
    <3>3. /\ late \in BOOLEAN /\ (~late => ~clerk[s].late)
          /\ clerk[s].next = "erase" /\ ~late => clerk[s].group # g
      BY <3>2 DEF ClerkType, ClerkAt, Subject
    <3> HIDE DEF late, g
    <3>4. /\ q \in ClerkType /\ q.next = clerk[s].next /\ q.group = clerk[s].group
          /\ q.task = clerk[s].task /\ q.module = clerk[s].module /\ q.late = late
      BY <3>2, <3>3 DEF ClerkType
    <3> HIDE DEF q
    <3>5. ClerkKnows(q, linked')
      BY <3>2, <3>3, <3>4, <1>4, <1>5 DEF ClerkKnows
    <3> QED BY <3>1, <3>4, <3>5
  <2> QED BY <2>1, <2>2
<1>7. clerk' \in [Clerks -> ClerkType]
  <2>1. clerk' = [q \in Clerks |-> clerk'[q]]
    BY <1>1
  <2> QED BY <1>6, <2>1
<1>8. ConditionsCounted'
  BY <1>1, FewerConditions
<1> QED BY <1>1, <1>5, <1>6, <1>7, <1>8 DEF DepInv, DepTypeOK

LEMMA DepNextKeepsInv == DepInv /\ [DepNext]_depVars => DepInv'
<1> SUFFICES ASSUME DepInv, [DepNext]_depVars PROVE DepInv'
  OBVIOUS
<1>1. ASSUME NEW g \in GroupRows, CreateDependencyGroup(g) PROVE DepInv'
  <2>1. grow' = [grow EXCEPT ![g] = "active"] /\ UNCHANGED <<matching, conditions, lastCondition, linked, clerk>>
    BY <1>1 DEF CreateDependencyGroup
  <2>2. ConditionsCounted'
    BY <2>1, FewerConditions
  <2> QED BY <2>1, <2>2 DEF DepInv, DepTypeOK
<1>2. ASSUME NEW c \in conditions, DeleteDependencyGroupCondition(c) PROVE DepInv'
  <2>1. conditions' \subseteq conditions /\ UNCHANGED <<grow, matching, lastCondition, linked, clerk>>
    BY <1>2 DEF DeleteDependencyGroupCondition
  <2>2. ConditionsCounted'
    BY <2>1, FewerConditions
  <2> QED BY <2>1, <2>2 DEF DepInv, DepTypeOK
<1>3. ASSUME NEW m \in Dependents, NEW g \in GroupRows, UnlinkModule(m, g) PROVE DepInv'
  <2>1. linked' \subseteq linked /\ UNCHANGED <<grow, matching, conditions, lastCondition, clerk>>
    BY <1>3 DEF UnlinkModule
  <2>2. ConditionsCounted'
    BY <2>1, FewerConditions
  <2>3. \A r \in Clerks : ClerkKnows(clerk'[r], linked')
    BY <2>1 DEF DepInv, ClerkKnows
  <2> QED BY <2>1, <2>2, <2>3 DEF DepInv, DepTypeOK
<1>4. CASE UNCHANGED depVars
  <2>1. ConditionsCounted'
    BY <1>4, FewerConditions DEF depVars
  <2> QED BY <1>4, <2>1 DEF depVars, DepInv, DepTypeOK
<1> QED BY <1>1, <1>2, <1>3, <1>4, ReadsKeepDepInv, GroupWritesKeepDepInv, LinkModuleKeepsDepInv DEF DepNext

LEMMA DepInvHolds == DepSpec => []DepInv
<1>1. DepInit => DepInv
  <2> SUFFICES ASSUME DepInit PROVE DepInv
    OBVIOUS
  <2>1. IsFiniteSet({}) /\ Cardinality({}) = 0
    BY FS_EmptySet
  <2>2. 0 \in 0 .. MaxConditionRows
    BY GroupRowsAssumption
  <2>3. ConditionsCounted
    BY <2>1 DEF DepInit, ConditionsCounted
  <2>4. grow \in [GroupRows -> {"none", "active", "binned", "gone"}] /\ matching \in [GroupRows -> {"all", "any"}]
    BY DEF DepInit
  <2>5. clerk \in [Clerks -> ClerkType] /\ \A r \in Clerks : ClerkKnows(clerk[r], linked)
    BY ClerkIdleKnows DEF DepInit
  <2> QED BY <2>2, <2>3, <2>4, <2>5 DEF DepInit, DepInv, DepTypeOK
<1> QED BY <1>1, DepNextKeepsInv, PTL DEF DepSpec

(* For any groups, modules and requests: a link goes by unlinking, or with *)
(* a group that was linked again after its purge had counted.              *)
THEOREM LinksGoByHand == DepSpec => LinksGoByUnlinking
<1> DEFINE Goes(l) ==
      \/ l \in linked'
      \/ UnlinkModule(l.module, l.group)
      \/ \E r \in Clerks : ClerkAt(r, "erase") /\ Subject(r) = l.group /\ clerk[r].late
<1>1. ASSUME DepInv, DepNext, NEW l \in linked PROVE Goes(l)
  <2>1. CASE linked' = linked
    BY <2>1
  <2>2. ASSUME NEW r \in Clerks, DeleteDependencyGroup(r) PROVE Goes(l)
    <3>1. ClerkAt(r, "erase") /\ linked' = {k \in linked : k.group # Subject(r)}
      BY <2>2 DEF DeleteDependencyGroup
    <3>2. ClerkKnows(clerk[r], linked)
      BY <1>1 DEF DepInv
    <3>3. l.group = Subject(r) => clerk[r].late
      BY <3>1, <3>2 DEF ClerkKnows, ClerkAt, Subject
    <3> QED BY <3>1, <3>3
  <2>3. ASSUME NEW r \in Clerks, LinkModule(r) PROVE Goes(l)
    BY <2>3 DEF LinkModule, LinkOrIgnore
  <2>4. ASSUME NEW m \in Dependents, NEW g \in GroupRows, UnlinkModule(m, g) PROVE Goes(l)
    <3>1. linked' = {k \in linked : ~(k.module = m /\ k.group = g)}
      BY <2>4 DEF UnlinkModule
    <3>2. l \in linked' \/ UnlinkModule(l.module, l.group)
      BY <2>4, <3>1
    <3> QED BY <3>2
  <2>5. ASSUME NEW r \in Clerks,
               \/ \E g \in GroupRows, task \in PageTasks, m \in Dependents : ResolveTenantDepGroup(r, g, task, m)
               \/ \E g \in GroupRows, task \in BulkTasks : DependencyGroupBulk(r, g, task)
               \/ GetForDeletion(r) \/ GetForRestore(r) \/ GetForMatchMode(r) \/ ListConditionsForGroup(r)
               \/ SoftDeleteDependencyGroup(r) \/ RestoreDependencyGroup(r) \/ HardDelete(r)
               \/ \E how \in {"all", "any"} : UpdateGroupMatchMode(r, how)
               \/ CreateDependencyGroupCondition(r) \/ ClerkGivesUp(r)
        PROVE  linked' = linked
    BY <2>5 DEF ResolveTenantDepGroup, DependencyGroupBulk, GetForDeletion, GetForRestore, GetForMatchMode,
       ListConditionsForGroup, SoftDeleteDependencyGroup, RestoreDependencyGroup, HardDelete,
       UpdateGroupMatchMode, CreateDependencyGroupCondition, ClerkGivesUp, DepTables
  <2>6. ASSUME NEW g \in GroupRows, CreateDependencyGroup(g) PROVE linked' = linked
    BY <2>6 DEF CreateDependencyGroup
  <2>7. ASSUME NEW c \in conditions, DeleteDependencyGroupCondition(c) PROVE linked' = linked
    BY <2>7 DEF DeleteDependencyGroupCondition
  <2> HIDE DEF Goes
  <2> QED BY <1>1, <2>1, <2>2, <2>3, <2>4, <2>5, <2>6, <2>7 DEF DepNext
<1>2. DepInv /\ [DepNext]_depVars => [\A l \in linked : Goes(l)]_depVars
  BY <1>1
<1> QED BY <1>2, DepInvHolds, PTL DEF LinksGoByUnlinking, DepSpec

-----------------------------------------------------------------------------
(* The components side by side.                                            *)

(* As in the run console, each component moves in its scene as it does     *)
(* alone: a theorem about a component is one about what records checks.    *)
THEOREM RecordsIsItsComponents ==
    RecordsSpec =>
      /\ AssetsSpec /\ ScriptsSpec /\ TestsSpec /\ TransferSpec
      /\ SeedSpec /\ DepSpec /\ BindingSpec
<1>1. RecordsInit => AssetsInit /\ ScriptsInit /\ TestsInit /\ TransferInit
                     /\ SeedInit /\ DepInit /\ BindingInit
  BY DEF RecordsInit
<1>2. [RecordsNext]_recordsVars => [AssetsNext]_assetVars
  BY DEF RecordsNext, recordsVars
<1>3. [RecordsNext]_recordsVars => [ScriptsNext]_scriptVars
  BY DEF RecordsNext, recordsVars
<1>4. [RecordsNext]_recordsVars => [TestsNext]_testVars
  BY DEF RecordsNext, recordsVars
<1>5. [RecordsNext]_recordsVars => [TransferNext]_transferVars
  BY DEF RecordsNext, recordsVars
<1>6. [RecordsNext]_recordsVars => [SeedNext]_seedVars
  BY DEF RecordsNext, recordsVars
<1>7. [RecordsNext]_recordsVars => [DepNext]_depVars
  BY DEF RecordsNext, recordsVars
<1>8. [RecordsNext]_recordsVars => [BindingNext]_bindingVars
  BY DEF RecordsNext, recordsVars
<1> QED BY <1>1, <1>2, <1>3, <1>4, <1>5, <1>6, <1>7, <1>8,
           PTL DEF RecordsSpec, AssetsSpec, ScriptsSpec, TestsSpec, TransferSpec, SeedSpec,
                   DepSpec, BindingSpec

(* Every variable of the records' components stays in its type.            *)
THEOREM RecordsTypeCorrect == RecordsSpec => []RecordsTypeOK
<1>1. RecordsInit => scene \in Scenes
  BY DEF RecordsInit
<1>2. scene \in Scenes /\ [RecordsNext]_recordsVars => (scene \in Scenes)'
  BY DEF RecordsNext, recordsVars
<1>3. TransferInv => TransferTypeOK
  BY DEF TransferInv, TransferTypeOK, VersionRows, MoverRecords
<1>4. AssetsInv => AssetsTypeOK
  BY DEF AssetsInv
<1>5. ScriptsInv => ScriptsTypeOK
  BY DEF ScriptsInv
<1>6. DepInv => DepTypeOK
  BY DEF DepInv
<1> QED BY <1>1, <1>2, <1>3, <1>4, <1>5, <1>6, AssetsInvHolds, ScriptsInvHolds, DepInvHolds,
           TransferInvHolds, TestsTypeCorrect, SeedTypeCorrect,
           BindingTypeCorrect, RecordsIsItsComponents, PTL DEF RecordsSpec, RecordsTypeOK

=============================================================================
