------------------------------- MODULE MCStartup -------------------------------
(* The twelve schema files of the repository, without seeding.             *)
EXTENDS Startup

MCLastFile == 12
MCStatements == [f \in 1..MCLastFile |-> 2]
MCParts == [x \in {} |-> 0]

(* 004 to 009, 011 and 012 only say that they hold no PRAGMA.              *)
MCMentionsPragma == 1..MCLastFile \ {2, 10}

=============================================================================
