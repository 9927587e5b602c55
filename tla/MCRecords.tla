------------------------------- MODULE MCRecords -------------------------------
(***************************************************************************)
(* The components that keep the tenants' records, side by side: assets,    *)
(* dependency groups, bindings, the parts and the copies of module         *)
(* versions, and the seeder.  As in MCConsole, a scene lets one of them    *)
(* move and the others stay in their initial states.                       *)
(***************************************************************************)
EXTENDS AssetEnrolment, ModuleScripts, VersionTests, MCModuleTransfer, DemoSeed,
        DependencyGroups, BindingValues

CONSTANTS r1, r2, s1, a1, a2, nm, nd, dg1, dg2, own, x1, b1, v1, v2,
          p1, p2, sg, o1, o2

VARIABLE scene

MCReserved == nm :> nd

MCSites == <<"site">>
MCComputers == <<"pc">>
MCServers == <<"server">>
MCPrinters == << >>
MCDesks == << >>
MCPersons == <<p1, p2>>
MCSeededGroups == <<sg>>
MCSoftware == <<"software">>

MCSlugs == dg1 :> "builtin" @@ dg2 :> "own"

MCLibrary == <<own, x1, b1>>
MCCatalogs ==
    {own :> <<"published">> @@ x1 :> <<"published">> @@ b1 :> <<"superseded", "published">>,
     own :> <<"published">> @@ x1 :> <<"revoked">> @@ b1 :> <<"revoked", "draft">>}
MCAccepted == own :> <<{v1, v2}>> @@ x1 :> <<{v1}>> @@ b1 :> <<{v2}, {v1}>>

(* Requests can change places, and so can the modules one depends on.      *)
Symmetry == Permutations({r1, r2}) \cup Permutations({o1, o2})

Scenes == {"assets", "scripts", "tests", "deps", "transfer", "seed",
           "depgroups", "binding"}

RecordsInit ==
    /\ scene \in Scenes
    /\ AssetsInit /\ ScriptsInit /\ SeedInit /\ DepInit
    /\ TestsInit /\ (scene # "deps" => deps = << >>)
    /\ TransferInit /\ (scene # "transfer" => original = CHOOSE m \in Sources : TRUE)
    /\ BindingInit /\ (scene # "binding" => release = CHOOSE c \in Catalogs : TRUE)

(* "binding": only the first version is ever pinned, and by bindings.      *)
OnePin == /\ tenantDefault'.pin = Default
          /\ \A s \in Savers : saver'[s].row.pin \in {Default, 1}

(* "seed": one row at a time is in the bin.                                *)
OneInTheBin ==
    Cardinality({x \in Rows : seeded'[x] = "binned"})
      + Cardinality({b \in BaselineRows : baselines'[b].state = "binned"}) <= 1

RecordsNext ==
    /\ UNCHANGED scene
    /\ \/ scene = "assets" /\ AssetsNext
       \/ scene # "assets" /\ UNCHANGED assetVars
    /\ \/ scene = "scripts" /\ ScriptsNext
       \/ scene # "scripts" /\ UNCHANGED scriptVars
    /\ \/ scene = "tests" /\ TestsNext /\ deps' = << >>
       \/ scene = "deps" /\ TestsNext /\ tests' = {} /\ ~\E r \in Editors : EditorAt(r, "insert")'
       \/ scene \notin {"tests", "deps"} /\ UNCHANGED testVars
    /\ \/ scene = "transfer" /\ TransferNext
       \/ scene # "transfer" /\ UNCHANGED transferVars
    /\ \/ scene = "seed" /\ SeedNext /\ OneInTheBin
       \/ scene # "seed" /\ UNCHANGED seedVars
    /\ \/ scene = "depgroups" /\ DepNext
       \/ scene # "depgroups" /\ UNCHANGED depVars
    /\ \/ scene = "binding" /\ BindingNext /\ OnePin
       \/ scene # "binding" /\ UNCHANGED bindingVars

recordsVars == <<scene, assetVars, scriptVars, testVars, transferVars, seedVars,
                 depVars, bindingVars>>

RecordsSpec == RecordsInit /\ [][RecordsNext]_recordsVars

(* Every component's variables stay in their types.                        *)
RecordsTypeOK ==
    /\ scene \in Scenes
    /\ AssetsTypeOK /\ ScriptsTypeOK /\ TestsTypeOK /\ TransferTypeOK /\ SeedTypeOK
    /\ DepTypeOK /\ BindingTypeOK

=============================================================================
