------------------------------ MODULE MCKbIngest -------------------------------
(* Instances of KbIngest for TLC. *)
EXTENDS KbIngest

CONSTANTS z1, u1, d1, c1, c2, k1, k2, k3, k4, k5

\* A ZIM archive needs two or three batches, any other file one.
MCTwoBatches == [f \in Files |-> IF f \in Zims THEN 2 ELSE 1]
MCThreeBatches == [f \in Files |-> IF f \in Zims THEN 3 ELSE 1]
============================================================================
