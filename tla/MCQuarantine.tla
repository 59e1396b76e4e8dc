---------------------------- MODULE MCQuarantine ----------------------------
(* Small instances of module Quarantine for TLC. *)
EXTENDS Quarantine
=============================================================================
