---------------------------- MODULE MCDBAPIKeys ----------------------------
(* Small instances of DBAPIKeys for TLC. *)
EXTENDS DBAPIKeys, TLC

\* Ids and keys are drawn at random and only compared; requests are alike.
Symmetry ==
    Permutations(KeyID) \cup Permutations(Key) \cup Permutations(Request)
=============================================================================
