----------------------------- MODULE MCSecrets -----------------------------
(* Secrets with two terminals, or one, for TLC. *)
EXTENDS Secrets

CONSTANTS p1, p2
=============================================================================
