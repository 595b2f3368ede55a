------------------------ MODULE MCCheckpointRestore ------------------------
(* A goal whose directory is missing, pending.json, an ordinary file, and a  *)
(* new file in a new directory.                                             *)
EXTENDS CheckpointRestore
=============================================================================
