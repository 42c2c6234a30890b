------------------------------- MODULE MCMFA -------------------------------
(* Small instances of MFA for TLC. *)
EXTENDS MFA, TLC

\* Factors are drawn at random and only compared; so are batches, requests and
\* the codes of a batch.
Symmetry ==
    Permutations(Factor) \cup Permutations(Batch) \cup Permutations(Slot)
        \cup Permutations(Request)
=============================================================================
