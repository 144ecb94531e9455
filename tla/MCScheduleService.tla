------------------------- MODULE MCScheduleService -------------------------
(* Finite instances of ScheduleService for TLC. *)
EXTENDS ScheduleService

CONSTANTS t1, t2, w, c1, c2

\* t1 belongs to the workspace, paused or not; t2 is created by a call.
OneTask == {[t \in Task |-> IF t = t1
                THEN [st |-> "present", enabled |-> e, ws |-> w]
                ELSE [st |-> "absent", enabled |-> FALSE, ws |-> None]] :
            e \in BOOLEAN}
=============================================================================
