-------------------------- MODULE MCTreeScheduler --------------------------
(* Finite instances of TreeScheduler for TLC. *)
EXTENDS TreeScheduler

CONSTANTS p1, p2, k1, k2, k3

\* Two parents, one with two children and one with one.
TwoParents == [r \in Runs |-> CASE r = p1 -> {k1, k2}
                                [] r = p2 -> {k3}
                                [] OTHER -> {}]

\* A tree on one local slot, launched under a smaller limit of its parent
\* authority, and a tree on two hosted slots that may launch every run.
LocalAndHosted ==
    {[deployment |-> "local", maxLaunches |-> 4, maxActive |-> 1,
      maxQueued |-> 3],
     [deployment |-> "hosted", maxLaunches |-> 5, maxActive |-> 2,
      maxQueued |-> 4]}
Capacity == [d \in Deployments |-> IF d = "local" THEN 1 ELSE 2]
=============================================================================
