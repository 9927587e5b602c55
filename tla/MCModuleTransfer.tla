--------------------------- MODULE MCModuleTransfer ---------------------------
(***************************************************************************)
(* Modules to copy: one with a newer draft that has a script named after   *)
(* no phase; one with a version whose name is no plain directory and one   *)
(* that has a script under a name no path keeps; one with two versions in  *)
(* one directory, nothing published and a version revoked; one that no     *)
(* import takes.                                                           *)
(***************************************************************************)
EXTENDS ModuleTransfer, TLC

Plain == [scripts |-> "apply" :> "sh" @@ "report" :> "sh", tests |-> 2, any |-> TRUE]
Named == [scripts |-> "apply" :> "sh" @@ "mine" :> "sh", tests |-> 0, any |-> FALSE]
Mangled == [scripts |-> "apply" :> "sh" @@ "a//b" :> "sh", tests |-> 0, any |-> FALSE]
Small == [scripts |-> "apply" :> "python", tests |-> 0, any |-> TRUE]

InState(state, dir, content) == [state |-> state, of |-> [dir |-> dir, content |-> content]]

MCSources == {<<InState("draft", "2", Named), InState("published", "1", Plain)>>,
              <<InState("draft", "2/rc", Plain), InState("superseded", "1", Mangled)>>,
              <<InState("superseded", "1", Plain), InState("superseded", "1", Small),
                InState("revoked", "2", Plain)>>,
              <<InState("published", "..", Small)>>}

MCPhaseLanguage == "apply" :> "sh" @@ "report" :> "python"

=============================================================================
