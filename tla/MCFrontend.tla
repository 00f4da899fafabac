----------------------------- MODULE MCFrontend -----------------------------
(* Two documents, a guest and two tokens of an author.                      *)
EXTENDS Frontend, TLC

CONSTANTS u1, u2

AuthorizationsDef ==
    [token \in Token |-> IF token = Guest THEN {"read"} ELSE {"read", "write", "delete"}]

Authors == Permutations({u1, u2})

============================================================================
