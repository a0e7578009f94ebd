------------------------------- MODULE BatchChain -------------------------------
(* What the embedding queue takes an archive to be: a number of batches     *)
(* that are run one after the other, the last of which ends the archive.    *)
EXTENDS Naturals

VARIABLES
    total,      \* batches of the archive
    batches,    \* batches that have ended
    over        \* the archive has been reported as finished

chainVars == <<total, batches, over>>

Init == total \in Nat \ {0} /\ batches = 0 /\ over = FALSE

EndBatch ==
    /\ ~over
    /\ batches' = batches + 1
    /\ over' = (batches' = total)
    /\ UNCHANGED total

Spec == Init /\ [][EndBatch]_chainVars
============================================================================
