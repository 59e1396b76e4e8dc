---------------------------- MODULE MCOutboxLog ----------------------------
(***************************************************************************)
(* Small instances of module OutboxLog for TLC.  Commands differ in        *)
(* nothing but their name, and every property checked with the symmetry    *)
(* is a safety property.                                                   *)
(***************************************************************************)
EXTENDS OutboxLog, TLC

Symmetry == Permutations(Procs)
=============================================================================
