---------------------------- MODULE MCMigrations ----------------------------
(* Instance of Migrations: a replica in dev and one in staging that          *)
(* continues over failures of non-critical versions; three versions, of      *)
(* which the second is critical, the third destructive and the first has no  *)
(* rollback.  The database is empty, or as earlier releases left it: with a  *)
(* checksum in the old format, or a migration edited since.                  *)
EXTENDS Migrations

MCPolicyOf == [m \in Migrators |-> IF m = "r1" THEN "halt" ELSE "continue"]
MCEnvOf == [m \in Migrators |-> IF m = "r1" THEN 2 ELSE 3]
MCStartStages == {NoStage, OffLadder}
MCStartRows == {<<"none", "none", "none">>, <<"legacy", "none", "none">>,
                <<"current", "mismatch", "none">>, <<"current", "current", "legacy">>}
=============================================================================
