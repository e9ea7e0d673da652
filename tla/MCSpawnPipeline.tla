--------------------------- MODULE MCSpawnPipeline ---------------------------
(* SpawnPipeline with the constants of its configurations. *)
EXTENDS SpawnPipeline
==============================================================================
