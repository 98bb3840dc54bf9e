---------------------------- MODULE MCAuthServer ----------------------------
(* Small instances of AuthServer for TLC. *)
EXTENDS AuthServer

CONSTANTS n1, n2, ann, AnnInCapitals, bob, good, wrong, short

\* The collation utf8mb4_0900_ai_ci does not tell upper from lower case.
CaseInsensitive == [e \in Emails |-> IF e = AnnInCapitals THEN ann ELSE e]

NoRows == <<>>

\* Bob has the account created last.
BobLast == <<[email |-> bob, password |-> good, userId |-> InitialMaxId]>>
=============================================================================
