--------------------------- MODULE MCMemAccounts ---------------------------
(* A small instance of MemAccounts for TLC. *)
EXTENDS MemAccounts, TLC

\* Accounts, e-mails, sessions, tokens and requests are only compared.
Symmetry ==
    Permutations(User) \cup Permutations(Email) \cup Permutations(Session)
    \cup Permutations(ResetToken) \cup Permutations(Request)
=============================================================================
