---------------------------- MODULE MCCheckpoint ----------------------------
(* Four checkpoints, up to three crashes at any point, failing writes.  The  *)
(* second configuration checks the assertion of load_checkpoint.             *)
EXTENDS Checkpoint
=============================================================================
