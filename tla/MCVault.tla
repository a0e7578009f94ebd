------------------------------- MODULE MCVault -------------------------------
(* Vault for TLC: two requests, two embedding models, and a note that is saved  *)
(* twice, in one second or in two.                                              *)
EXTENDS Vault, TLC

\* Requests are alike, and so are models.
Sym == Permutations(Callers) \cup Permutations(Embedders)
=============================================================================
