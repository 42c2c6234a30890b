---------------------------- MODULE TokenFamily ----------------------------
(***************************************************************************)
(* What a session store promises about rotating refresh tokens, whatever   *)
(* tables or maps it keeps them in.  A session is a family of tokens: one  *)
(* current token, the retired tokens it was exchanged for, and a closed    *)
(* flag that is never taken back.  internal/dbstore.go (DBSessions) and    *)
(* internal/sessions.go (MemSessions) are both checked against it.         *)
(***************************************************************************)
CONSTANTS
    Session,    \* session ids
    Token,      \* what a store keeps of a refresh token (its digest)
    NoToken     \* the family has not been opened

VARIABLES
    current,    \* the only token the family accepts
    retired,    \* the tokens the family has exchanged already
    closed      \* the families that accept nothing any more

vars == <<current, retired, closed>>

TypeOK ==
    /\ current \in [Session -> Token \cup {NoToken}]
    /\ retired \in [Session -> SUBSET Token]
    /\ closed \in SUBSET Session

Init ==
    /\ current = [s \in Session |-> NoToken]
    /\ retired = [s \in Session |-> {}]
    /\ closed = {}

\* A token no family has ever handed out.
Unseen(t) == \A s \in Session : current[s] # t /\ t \notin retired[s]

Open(s, t) ==
    /\ current[s] = NoToken
    /\ Unseen(t)
    /\ current' = [current EXCEPT ![s] = t]
    /\ UNCHANGED <<retired, closed>>

\* The current token of an open family is exchanged for an unseen one.
Rotate(s, t) ==
    /\ current[s] # NoToken
    /\ s \notin closed
    /\ Unseen(t)
    /\ current' = [current EXCEPT ![s] = t]
    /\ retired' = [retired EXCEPT ![s] = @ \cup {current[s]}]
    /\ UNCHANGED closed

\* Any set of open families closes in one step.
Close(S) ==
    /\ S # {}
    /\ S \cap closed = {}
    /\ \A s \in S : current[s] # NoToken
    /\ closed' = closed \cup S
    /\ UNCHANGED <<current, retired>>

Next ==
    \/ \E s \in Session, t \in Token : Open(s, t) \/ Rotate(s, t)
    \/ \E S \in SUBSET Session : Close(S)

Spec == Init /\ [][Next]_vars

-----------------------------------------------------------------------------
\* A token that was exchanged once is never accepted again by any family, and
\* no token belongs to two families: what the reuse detection of Refresh rests on.
NeverAcceptedAgain ==
    \A s, q \in Session :
        /\ current[s] # NoToken => current[s] \notin retired[q]
        /\ s # q => /\ current[s] = NoToken \/ current[s] # current[q]
                    /\ retired[s] \cap retired[q] = {}
=============================================================================
