----------------------- MODULE MCCheckpointMigration -----------------------
(* Two migrations of one workspace, two saves, two interruptions.           *)
EXTENDS CheckpointMigration
=============================================================================
