------------------------------- MODULE MCConsole -------------------------------
(***************************************************************************)
(* The smaller components of the console side by side.  They share no      *)
(* variable, so a scene, chosen at the start, lets one of them move and    *)
(* the others stay in their initial states: the state spaces add up.       *)
(***************************************************************************)
EXTENDS GroupMembership, RoleCache, Logins, Startup,
        ConfigAssignments, DependencyEval, ModuleAccess, ModuleResolver,
        FieldEdits, TLC

CONSTANTS r1, r2, a1, i1, x1, top, low, host, tenant,
          name, c1, c2, m1, m2, m3

VARIABLE scene

MCMatches == x1 :> {a1, i1}
MCRank == top :> 4 @@ low :> 2
MCStatements == <<2, 2, 3, 2>>
MCParts == [x \in Items |-> 2]
MCHostName == host :> name
MCScopesOf == host :> {host, tenant}
MCFactKey == c1 :> "ram" @@ c2 :> "script"
MCFactValues == {"", "1", "2", "exit-fail"}
MCComparable == c1 :> {"1", "2"} @@ c2 :> MCFactValues
MCHolds == c1 :> {"2"} @@ c2 :> {"1", "2"}
MCFoesChoices == {[m \in CatalogModules |-> IF m = pair[1] THEN {pair[2]} ELSE {}] :
                     pair \in {<<Nobody, m1>>, <<m3, m1>>, <<m2, m3>>}}
MCVersionedChoices == {s \in SUBSET CatalogModules : Cardinality(CatalogModules \ s) <= 1}
MCSelections == {{m1}, {m2, m3}}

Symmetry == Permutations({r1, r2}) \cup Permutations(CGroups)

Scenes == {"groups", "hiding", "removing", "cache", "logins", "startup",
           "assigning", "resolving", "eval", "access", "resolver", "fields"}

ConsoleInit ==
    /\ scene \in Scenes
    /\ MembershipInit /\ RoleCacheInit /\ LoginsInit
    /\ StartupInit /\ ConfigInit /\ EvalInit /\ AccessInit /\ ResolverInit
    /\ FieldsInit /\ (scene # "fields" => edited = "asset")

(* "groups": a mixed group, two requests, nobody deleted.  "hiding": the    *)
(* group changes its kind and somebody is deleted, one request.            *)
(* "removing": two requests about a dynamic group of identities, one of    *)
(* whom may be deleted.  "assigning": two direct assignments; "resolving": *)
(* one request that may also resolve.                                      *)
OneGroupRequest == Cardinality({r \in GroupRequests : ~GroupAt(r, "idle")'}) <= 1
OneConfigRequest == Cardinality({r \in ConfigRequests : ~ConfigAt(r, "idle")'}) <= 1

IdentitiesOnly ==
    IF memberKind = "mixed"
      THEN /\ OneGroupRequest
           /\ UNCHANGED <<source, matchMode, rules, hidden>>
           /\ memberKind' = "identity" => membership' = "dynamic"
      ELSE \A r \in GroupRequests : ~GroupAt(r, "count")' /\ ~GroupAt(r, "meta")'

ConsoleNext ==
    /\ UNCHANGED scene
    /\ \/ /\ scene = "groups"
          /\ MembershipNext
          /\ hidden' = {} /\ memberKind' = "mixed"
       \/ /\ scene = "hiding"
          /\ MembershipNext
          /\ OneGroupRequest
       \/ /\ scene = "removing"
          /\ MembershipNext
          /\ IdentitiesOnly
       \/ scene \notin {"groups", "hiding", "removing"} /\ UNCHANGED groupVars
    /\ \/ scene = "cache" /\ RoleCacheNext
       \/ scene # "cache" /\ UNCHANGED cacheVars
    /\ \/ scene = "logins" /\ LoginsNext
       \/ scene # "logins" /\ UNCHANGED loginVars
    /\ \/ scene = "startup" /\ StartupNext
       \/ scene # "startup" /\ UNCHANGED startVars
    /\ \/ /\ scene = "assigning"
          /\ ConfigNext
          /\ ~\E r \in ConfigRequests : Resolving(r)'
       \/ /\ scene = "resolving"
          /\ ConfigNext
          /\ OneConfigRequest
       \/ scene \notin {"assigning", "resolving"} /\ UNCHANGED configVars
    /\ \/ scene = "eval" /\ EvalNext
       \/ scene # "eval" /\ UNCHANGED evalVars
    /\ \/ scene = "access" /\ AccessNext
       \/ scene # "access" /\ UNCHANGED question
    /\ \/ scene = "resolver" /\ ResolverNext
       \/ scene # "resolver" /\ UNCHANGED resolverVars
    /\ \/ scene = "fields" /\ FieldsNext
       \/ scene # "fields" /\ UNCHANGED fieldVars

consoleVars == <<scene, groupVars, cacheVars, loginVars, startVars,
                 configVars, evalVars, question, resolverVars, fieldVars>>

ConsoleSpec == ConsoleInit /\ [][ConsoleNext]_consoleVars

(* Every component's variables stay in their types.                        *)
ConsoleTypeOK ==
    /\ scene \in Scenes
    /\ MembershipTypeOK /\ RoleCacheTypeOK /\ LoginsTypeOK
    /\ StartupTypeOK /\ ConfigTypeOK /\ EvalTypeOK /\ AccessTypeOK
    /\ ResolverTypeOK /\ FieldsTypeOK

=============================================================================
