------------------------- MODULE MCCredentialBroker -------------------------
(* Small instances of module CredentialBroker for TLC. *)
EXTENDS CredentialBroker, TLC

\* Commands of one release are alike.
Symmetry == Permutations(Clients)
=============================================================================
