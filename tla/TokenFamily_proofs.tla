------------------------- MODULE TokenFamily_proofs -------------------------
(* What the contract of a rotating token family guarantees to its clients. *)
EXTENDS TokenFamily, TLAPS

\* NeverAcceptedAgain needs only the types beside it: a token that enters is
\* unseen, and a token that retires was the current one of its own family.
LEMMA StepKeepsTokensApart ==
    (TypeOK /\ NeverAcceptedAgain) /\ [Next]_vars => (TypeOK /\ NeverAcceptedAgain)'
  <1> SUFFICES ASSUME TypeOK, NeverAcceptedAgain, [Next]_vars
               PROVE  TypeOK' /\ NeverAcceptedAgain'
    OBVIOUS
  <1> USE DEF TypeOK, NeverAcceptedAgain
  <1>1. ASSUME NEW s \in Session, NEW t \in Token, Open(s, t)
        PROVE  TypeOK' /\ NeverAcceptedAgain'
    BY <1>1 DEF Open, Unseen
  <1>2. ASSUME NEW s \in Session, NEW t \in Token, Rotate(s, t)
        PROVE  TypeOK' /\ NeverAcceptedAgain'
    BY <1>2 DEF Rotate, Unseen
  <1>3. ASSUME NEW S \in SUBSET Session, Close(S)
        PROVE  TypeOK' /\ NeverAcceptedAgain'
    BY <1>3 DEF Close
  <1>4. CASE UNCHANGED vars
    BY <1>4 DEF vars
  <1> QED
    BY <1>1, <1>2, <1>3, <1>4 DEF Next

\* Whatever store keeps the contract of Refresh, a refresh token that was
\* exchanged once is never the current token of any session again, and no token
\* belongs to two sessions: the reuse detection of Refresh cannot name the
\* wrong session.
THEOREM ExchangedOnce == Spec => [](TypeOK /\ NeverAcceptedAgain)
  <1>1. Init => TypeOK /\ NeverAcceptedAgain
    BY DEF Init, TypeOK, NeverAcceptedAgain
  <1> QED
    BY <1>1, StepKeepsTokensApart, PTL DEF Spec
=============================================================================
