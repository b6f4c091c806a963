------------------------------- MODULE MCTmdb -------------------------------
(***************************************************************************)
(* Tmdb for TLC.  Addresses, currencies and values are only compared with  *)
(* each other, and every property quantifies over all of them, so they are *)
(* symmetric.                                                              *)
(***************************************************************************)
EXTENDS Tmdb, TLC

Symmetry == Permutations(Address) \cup Permutations(Currency) \cup Permutations(Value)

=============================================================================
