------------------------ MODULE MCCredentialRotation ------------------------
(* Finite instances of CredentialRotation for TLC. *)
EXTENDS CredentialRotation

CONSTANTS e1, e2, k1, q1, q2
=============================================================================
