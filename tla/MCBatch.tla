-------------------------------- MODULE MCBatch --------------------------------
(***************************************************************************)
(* Small instances of Batch.                                               *)
(***************************************************************************)
EXTENDS Batch
=================================================================================
