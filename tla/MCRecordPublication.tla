----------------------- MODULE MCRecordPublication -----------------------
(* Small instances of module RecordPublication for TLC. *)
EXTENDS RecordPublication
=============================================================================
