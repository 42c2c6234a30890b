----------------------------- MODULE MCAccounts -----------------------------
(* Small instances of Accounts for TLC. *)
EXTENDS Accounts, TLC

\* Sessions, reset tokens, requests and e-mails are only compared with each other.
Symmetry ==
    Permutations(Session) \cup Permutations(ResetToken) \cup Permutations(Request)
    \cup Permutations(Email)
=============================================================================
