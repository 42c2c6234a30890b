--------------------------- MODULE MCMemSessions ---------------------------
(* Small instances of MemSessions for TLC. *)
EXTENDS MemSessions, TLC

\* Ids and tokens are drawn at random and only compared; requests are alike.
Symmetry ==
    Permutations(User) \cup Permutations(Session) \cup Permutations(Token)
        \cup Permutations(Request)
=============================================================================
