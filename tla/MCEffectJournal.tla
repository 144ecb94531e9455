-------------------------- MODULE MCEffectJournal --------------------------
(* Finite instances of EffectJournal for TLC. *)
EXTENDS EffectJournal, TLC

CONSTANTS r1, r2, r3, e1, e2, e3, c1

OneChatOf == [r \in Runs |-> c1]

\* Two calls in a foreground run, one in a child run, and a second foreground
\* run that finds what they left.
LanesRunOf == e1 :> r1 @@ e2 :> r1 @@ e3 :> r2

\* The two calls of the first run are interchangeable.
Calls == Permutations({e1, e2})
=============================================================================
