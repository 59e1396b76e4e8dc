------------------------ MODULE MCRevocationEvidence ------------------------
(* Small instances of module RevocationEvidence for TLC. *)
EXTENDS RevocationEvidence
=============================================================================
