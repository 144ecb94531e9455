--------------------------- MODULE MCSubagentRuns ---------------------------
(* Finite instances of SubagentRuns for TLC. *)
EXTENDS SubagentRuns

CONSTANTS r1, r2, r3, c1, c2

OneBatch == << <<r1, r2>> >>
\* The first run reports up to its fourth revision, the others start.
TelemetryBound == [r \in Run |-> IF r = r1 THEN 4 ELSE 2]

OneRun == << <<r1>> >>
TwoBatches == << <<r1>>, <<r2>> >>
=============================================================================
