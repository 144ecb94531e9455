--------------------------- MODULE MCProviderAuth ---------------------------
(* A finite instance of ProviderAuth for TLC. *)
EXTENDS ProviderAuth

CONSTANTS s1, s2, d1, d2, q1
=============================================================================
