----------------------------- MODULE MCZimBatches ------------------------------
(* Instances of ZimBatches for TLC. *)
EXTENDS ZimBatches, SequencesExt

CONSTANT MaxEntries     \* BOUND: entries of an archive

MCArchives == BoundedSeq(Kinds, MaxEntries)
============================================================================
