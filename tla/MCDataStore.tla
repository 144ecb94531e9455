----------------------------- MODULE MCDataStore -----------------------------
(* A finite instance of DataStore for TLC. *)
EXTENDS DataStore

CONSTANTS e1, e2, s1, s2, first

AllFaults == FaultKinds
=============================================================================
