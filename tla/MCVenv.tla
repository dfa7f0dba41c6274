------------------------------- MODULE MCVenv -------------------------------
(* Venv with a few packages, for TLC. *)
EXTENDS Venv

CONSTANTS ansible, ldap, extra, c1, c2, v1, v2
=============================================================================
