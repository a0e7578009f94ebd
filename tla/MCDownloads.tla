----------------------------- MODULE MCDownloads -----------------------------
(* Downloads for TLC: two versions of a resource, two executions, two requests at a time. *)
EXTENDS Downloads, TLC

Alike == Permutations(Files) \cup Permutations(Runs) \cup Permutations(Clients)
============================================================================
