----------------------------- MODULE ModuleTransfer -----------------------------
(***************************************************************************)
(* Copies of a policy module: export to a .pmdl archive, import of it (as  *)
(* policymodules_export.go and _import.go under src/), and the clone of    *)
(* the module editor.  A copy is written one statement at a time, visible  *)
(* to everybody from the first, and no transaction holds it together.  An  *)
(* import stops at the first write that fails; a clone goes on.            *)
(***************************************************************************)
EXTENDS Naturals, Sequences, FiniteSets, Selections

CONSTANTS
    Phases,         \* script names that are lifecycle phases
    OtherNames,     \* other names a script can have
    Tangled,        \* those of them that are no clean path: "a//b", "x/../y"
    Dirs,           \* directories a version's files can be in, one level deep
    Elsewhere,      \* any other directory a version's name gives: "1.0/rc", "."
    Escaping,       \* names, of a version or a script, that lead out: "/x", "../x"
    Languages,      \* what a script is written in
    PhaseLanguage,  \* PhaseLanguage[n]: what SetScript gives phase n
    Sources,        \* modules to copy: sequences of versions, newest first
    Copies,         \* ids of the module rows copies get
    MaxEntries,     \* pmdlMaxEntries
    Movers,         \* requests in flight
    NoRow

ScriptNames == Phases \cup OtherNames

(* Scripts by name with their languages, the number of tests, the match    *)
(* mode.                                                                   *)
ModuleContents == [scripts : UNION {[D -> Languages] : D \in SUBSET ScriptNames},
             tests : Nat, any : BOOLEAN]

(* What an export has of a version.  A version is named freely: dir is the *)
(* directory path.Clean makes of its name.                                 *)
Exported == [dir : Dirs \cup {Elsewhere} \cup Escaping, content : ModuleContents]

VersionStates == {"draft", "published", "superseded", "revoked"}

ASSUME TransferConstants ==
    /\ Copies \subseteq Nat /\ MaxEntries \in Nat /\ NoRow \notin Copies
    /\ PhaseLanguage \in [Phases -> Languages]
    /\ Tangled \subseteq OtherNames /\ Elsewhere \notin Dirs
    /\ Sources \subseteq Seq([state : VersionStates, of : Exported]) \ {<< >>}

VARIABLES
    original,       \* the module that is copied; it stays as it is
    copy,           \* copy[c]: the module row: how far it is and its URN, n for
                    \* "-imported-n"
    version,        \* version[c][k]: the copy's versions
    mover           \* mover[r]: the request's next statement and locals

transferVars == <<original, copy, version, mover>>

NoContent == [scripts |-> << >>, tests |-> 0, any |-> FALSE]

(* taken: another request has changed or published it (history).           *)
NoVersion == [state |-> "none", content |-> NoContent, taken |-> FALSE]

NoCopy == [status |-> "none", urn |-> NoRow]

(* archive: the versions to write; sent: those that were exported          *)
(* (history); lost: a statement of this clone has failed (history).        *)
MoverIdle == [next |-> "none", kind |-> "import", sent |-> << >>, archive |-> << >>, urn |-> 0,
              row |-> NoRow, at |-> 0, left |-> {}, lost |-> FALSE]

Slots == UNION {DOMAIN m : m \in Sources}

TransferInit ==
    /\ original \in Sources
    /\ copy = [c \in Copies |-> NoCopy]
    /\ version = [c \in Copies |-> [k \in Slots |-> NoVersion]]
    /\ mover = [r \in Movers |-> MoverIdle]

MoverAt(r, next) == mover[r].next = next

MoverGoto(r, rec) == mover' = [mover EXCEPT ![r] = rec]

(* An error, or the end of the request.                                    *)
MoverDone(r) == MoverGoto(r, MoverIdle)

-----------------------------------------------------------------------------
(* Export.                                                                 *)

(* The versions a bare request selects: the published one, else the newest.*)
LatestOf(m) ==
    LET published == {k \in DOMAIN m : m[k].state = "published"} IN
    IF published # {} THEN CHOOSE k \in published : TRUE ELSE 1

(* ?version=, ?all=1 and neither; a selection of nothing is refused.       *)
ExportVersionIDs(m) ==
    ({{k} : k \in DOMAIN m} \cup {{LatestOf(m)}, {k \in DOMAIN m : m[k].state # "revoked"}})
      \ {{}}

(* Scripts by name and order, tests, match mode; no action goes along, nor *)
(* does the language, which an import therefore never looks at.            *)
ExportModule(m, ks) ==
    LET chosen == KeepAt(m, ks) IN [j \in DOMAIN chosen |-> chosen[j].of]

-----------------------------------------------------------------------------
(* What an archive is read as.                                             *)

(* A manifest is looked for one level deep only, and of two in one         *)
(* directory the later entry of the archive counts.                        *)
Arrives(sent) ==
    {k \in DOMAIN sent : /\ sent[k].dir \in Dirs
                         /\ \A j \in DOMAIN sent : sent[j].dir = sent[k].dir => j <= k}

(* module.yaml, and for each version its manifest and its scripts: not too *)
(* many, none that leads out of the archive, and one version at least.     *)
Readable(sent) ==
    LET scripts(k) == DOMAIN sent[k].content.scripts IN
    /\ 1 + Len(sent) + Cardinality(UNION {{k} \X scripts(k) : k \in DOMAIN sent}) <= MaxEntries
    /\ \A k \in DOMAIN sent : ({sent[k].dir} \cup scripts(k)) \cap Escaping = {}
    /\ Arrives(sent) # {}

(* The rest of the archive is passed over without a word.  The versions    *)
(* come sorted by directory; here they keep their order, on which nothing  *)
(* depends.                                                                *)
ParsePmdl(sent) ==
    LET kept == KeepAt(sent, Arrives(sent)) IN [j \in DOMAIN kept |-> kept[j].content]

(* A manifest's script whose cleaned path is another than the one it is    *)
(* looked up by is skipped.                                                *)
FoundScripts(content) ==
    [content EXCEPT !.scripts = [n \in DOMAIN @ \ Tangled |-> @[n]]]

-----------------------------------------------------------------------------
(* Import: the URN, the module row, its owner, its origin.                 *)

URNTaken(urn) == \E c \in Copies : copy[c].urn = urn

(* The archive's own URN is the original's, soft deleted or not.           *)
ImportModule(r, sent) ==
    /\ MoverAt(r, "none")
    /\ Readable(sent)
    /\ LET parsed == ParsePmdl(sent) IN
         MoverGoto(r, [MoverIdle EXCEPT !.next = "number", !.kind = "import", !.sent = sent,
                         !.archive = [j \in DOMAIN parsed |-> FoundScripts(parsed[j])], !.urn = 1])
    /\ UNCHANGED <<original, copy, version>>

(* "-imported-n" for the first n that no module has.                       *)
ImportCandidate(r) ==
    /\ MoverAt(r, "number")
    /\ MoverGoto(r, IF URNTaken(mover[r].urn) THEN [mover[r] EXCEPT !.urn = @ + 1]
                                              ELSE [mover[r] EXCEPT !.next = "create"])
    /\ UNCHANGED <<original, copy, version>>

(* UNIQUE(module_urn); the URN of a clone holds the time and is no one's.  *)
CreateModule(r, c) ==
    /\ MoverAt(r, "create")
    /\ copy[c] = NoCopy /\ ~URNTaken(mover[r].urn)
    /\ copy' = [copy EXCEPT ![c] = [status |-> "created", urn |-> mover[r].urn]]
    /\ MoverGoto(r, [mover[r] EXCEPT !.next = "owner", !.row = c])
    /\ UNCHANGED <<original, version>>

CreateRefused(r) ==
    /\ MoverAt(r, "create")
    /\ URNTaken(mover[r].urn)
    /\ MoverDone(r)
    /\ UNCHANGED <<original, copy, version>>

(* An UPDATE: without effect once the row is gone.                         *)
SetCopyStatus(r, at, status, next) ==
    /\ MoverAt(r, at)
    /\ copy' = [copy EXCEPT ![mover[r].row].status = IF @ = "gone" THEN @ ELSE status]
    /\ MoverGoto(r, [mover[r] EXCEPT !.next = next, !.at = IF next = "draft" THEN 1 ELSE 0])
    /\ UNCHANGED <<original, version>>

SetModuleOwner(r) ==
    SetCopyStatus(r, "owner", "owned", IF mover[r].kind = "import" THEN "origin" ELSE "draft")

SetModuleOrigin(r) == SetCopyStatus(r, "origin", "imported", "draft")

(* The clone copies the version a bare export would, languages included.   *)
ClonePolicyModule(r) ==
    /\ MoverAt(r, "none")
    /\ LET latest == original[LatestOf(original)].of IN
         MoverGoto(r, [MoverIdle EXCEPT !.next = "create", !.kind = "clone", !.urn = NoRow,
                         !.sent = <<latest>>, !.archive = <<latest.content>>])
    /\ UNCHANGED <<original, copy, version>>

-----------------------------------------------------------------------------
(* The versions: a draft, its scripts, its tests, its match mode.          *)

At(r) == version[mover[r].row][mover[r].at]
Wanted(r) == mover[r].archive[mover[r].at]

Writable(r) == At(r).state = "draft"

(* Mutant: the tests are forgotten.                                        *)
NoTestsOf(content) == {}

TestsOf(content) == 1 .. content.tests

CopyDraft(r) ==
    /\ MoverAt(r, "draft")
    /\ mover[r].at <= Len(mover[r].archive)
    /\ copy[mover[r].row].status # "gone"
    /\ version' = [version EXCEPT ![mover[r].row][mover[r].at] =
                     [NoVersion EXCEPT !.state = "draft"]]
    /\ MoverGoto(r, [mover[r] EXCEPT !.next = "scripts", !.left = DOMAIN Wanted(r).scripts])
    /\ UNCHANGED <<original, copy>>

Language(r, n) ==
    IF mover[r].kind = "import" THEN PhaseLanguage[n] ELSE Wanted(r).scripts[n]

(* What SetScript takes in an import; a clone writes the row itself.       *)
Acceptable(r, n) == mover[r].kind = "import" => n \in Phases

(* One item of what is left: the guarded write of content, or its refusal, *)
(* which ends an import and which a clone does not look at.                *)
CopyItem(r, item, content) ==
    /\ item \in mover[r].left
    /\ IF Writable(r)
         THEN version' = [version EXCEPT ![mover[r].row][mover[r].at].content = content]
         ELSE UNCHANGED version
    /\ IF Writable(r) \/ mover[r].kind = "clone"
         THEN MoverGoto(r, [mover[r] EXCEPT !.left = @ \ {item}])
         ELSE MoverDone(r)
    /\ UNCHANGED <<original, copy>>

CopyScript(r, n) ==
    /\ MoverAt(r, "scripts")
    /\ Acceptable(r, n)
    /\ CopyItem(r, n, [At(r).content EXCEPT !.scripts =
         [x \in DOMAIN @ \cup {n} |-> IF x = n THEN Language(r, n) ELSE @[x]]])

(* ErrInvalidLifecyclePhase.                                               *)
ScriptRefused(r, n) ==
    /\ MoverAt(r, "scripts")
    /\ n \in mover[r].left /\ ~Acceptable(r, n)
    /\ MoverDone(r)
    /\ UNCHANGED <<original, copy, version>>

CopyTest(r, t) ==
    /\ MoverAt(r, "tests")
    /\ CopyItem(r, t, [At(r).content EXCEPT !.tests = @ + 1])

CopyMode(r) ==
    /\ MoverAt(r, "mode")
    /\ CopyItem(r, "any", [At(r).content EXCEPT !.any = TRUE])

(* Nothing is left: tests come after scripts, then the match mode, then    *)
(* the archive's next version.                                             *)
CopyGoesOn(r) ==
    /\ mover[r].next \in {"scripts", "tests", "mode"} /\ mover[r].left = {}
    /\ MoverGoto(r,
         CASE MoverAt(r, "scripts") -> [mover[r] EXCEPT !.next = "tests", !.left = TestsOf(Wanted(r))]
           [] MoverAt(r, "tests")   -> [mover[r] EXCEPT !.next = "mode",
                                          !.left = IF Wanted(r).any THEN {"any"} ELSE {}]
           [] MoverAt(r, "mode")    -> [mover[r] EXCEPT !.next = "draft", !.at = @ + 1])
    /\ UNCHANGED <<original, copy, version>>

CopyEnds(r) ==
    /\ MoverAt(r, "draft")
    /\ mover[r].at > Len(mover[r].archive)
    /\ MoverDone(r)
    /\ UNCHANGED <<original, copy, version>>

(* A statement that fails for another reason, the module row that is gone  *)
(* when its draft is inserted, or the death of the process.                *)
MoverFails(r) ==
    /\ ~MoverAt(r, "none")
    /\ MoverDone(r)
    /\ UNCHANGED <<original, copy, version>>

(* A clone does not look at the errors of its last statements either: what *)
(* one of them would have written is missing, and the clone goes on.       *)
CloneLoses(r) ==
    /\ mover[r].kind = "clone"
    /\ \/ /\ MoverAt(r, "draft") /\ mover[r].at = 1
          /\ MoverGoto(r, [mover[r] EXCEPT !.at = 2, !.lost = TRUE])
       \/ \E item \in mover[r].left :
            MoverGoto(r, [mover[r] EXCEPT !.left = @ \ {item}, !.lost = TRUE])
    /\ UNCHANGED <<original, copy, version>>

-----------------------------------------------------------------------------
(* What other requests do to a copy, finished or not.                      *)

PublishCopy(c, k) ==
    /\ version[c][k].state = "draft" /\ version[c][k].content.scripts # << >>
    /\ version' = [version EXCEPT ![c][k].state = "published"]
    /\ UNCHANGED <<original, copy, mover>>

DeleteCopiedDraft(c, k) ==
    /\ version[c][k].state = "draft"
    /\ version' = [version EXCEPT ![c][k] = [NoVersion EXCEPT !.state = "gone"]]
    /\ UNCHANGED <<original, copy, mover>>

EditCopy(c, k) ==
    /\ version[c][k].state = "draft"
    /\ version' = [version EXCEPT ![c][k].content = NoContent, ![c][k].taken = TRUE]
    /\ UNCHANGED <<original, copy, mover>>

PurgeCopy(c) ==
    /\ copy[c].status \notin {"none", "gone"}
    /\ copy' = [copy EXCEPT ![c] = [NoCopy EXCEPT !.status = "gone"]]
    /\ version' = [version EXCEPT ![c] = [k \in Slots |-> [NoVersion EXCEPT !.state = "gone"]]]
    /\ UNCHANGED <<original, mover>>

TransferNext ==
    \/ \E r \in Movers :
         \/ \E ks \in ExportVersionIDs(original) : ImportModule(r, ExportModule(original, ks))
         \/ ImportCandidate(r) \/ CreateRefused(r) \/ SetModuleOwner(r) \/ SetModuleOrigin(r)
         \/ \E c \in Copies : CreateModule(r, c)
         \/ ClonePolicyModule(r) \/ CopyDraft(r) \/ CopyMode(r) \/ CopyGoesOn(r)
         \/ \E n \in ScriptNames : CopyScript(r, n) \/ ScriptRefused(r, n)
         \/ \E t \in mover[r].left : CopyTest(r, t)
         \/ CopyEnds(r) \/ CloneLoses(r) \/ MoverFails(r)
    \/ \E c \in Copies, k \in Slots : PublishCopy(c, k) \/ DeleteCopiedDraft(c, k) \/ EditCopy(c, k)
    \/ \E c \in Copies : PurgeCopy(c)

TransferSpec == TransferInit /\ [][TransferNext]_transferVars

-----------------------------------------------------------------------------

TransferTypeOK ==
    /\ original \in Sources
    /\ \A c \in Copies :
         /\ copy[c].status \in {"none", "created", "owned", "imported", "gone"}
         /\ copy[c].urn \in Nat \cup {NoRow}
         /\ \A k \in Slots : version[c][k].state \in {"none", "draft", "published", "gone"}
    /\ \A r \in Movers : mover[r].row \in Copies \cup {NoRow}

(* The versions a copy is to have, and where it has them.                  *)
ToCopy(q) == IF q.kind = "import" THEN Arrives(q.sent) ELSE DOMAIN q.sent

PlaceIn(ks, k) == Cardinality(ks \cap (1 .. k))

(* Row v is a copy of version e: all its scripts, in their phase's         *)
(* language when imported, but for those an import cannot find; its tests; *)
(* its match mode.                                                         *)
IsCopy(kind, e, v) ==
    LET all == e.content.scripts IN
    v.content = [e.content EXCEPT !.scripts =
      IF kind = "import" THEN [n \in DOMAIN all \ Tangled |-> PhaseLanguage[n]] ELSE all]

(* When an import reports success, or a clone none of whose statements has *)
(* failed, the copy has a version for each that was exported - of those    *)
(* that share a directory, for the last, and for none whose name is no     *)
(* directory one level deep - and each that is a draft nobody else has     *)
(* changed is a copy of it.                                                *)
CopiesAreComplete ==
    [][\A r \in Movers : CopyEnds(r) /\ ~mover[r].lost =>
         \A k \in ToCopy(mover[r]) :
           LET copied == version[mover[r].row][PlaceIn(ToCopy(mover[r]), k)] IN
           /\ copied.state # "none"
           /\ copied.state = "draft" /\ ~copied.taken =>
                IsCopy(mover[r].kind, mover[r].sent[k], copied)
      ]_transferVars

=============================================================================
