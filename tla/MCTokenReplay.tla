--------------------------- MODULE MCTokenReplay ---------------------------
(* A small instance of TokenReplay for TLC.                                 *)
EXTENDS TokenReplay, TLC

Token(iss, jti, sub, iat, exp, key) ==
    [iss |-> iss, jti |-> jti, sub |-> sub, iat |-> iat, exp |-> exp, key |-> key]

\* Of the longest lifetime, issued ahead of the clock; of another issuer with
\* the same jti; too long a life; without jti; without sub; of a wrong key.
SomeTokens ==
    {Token("scanner", "j1", "scanner", 1, 3, "k1"), Token("probe", "j1", "probe", 2, 4, "k1"),
     Token("scanner", "j2", "scanner", 0, 6, "k1"), Token("scanner", "", "scanner", 0, 2, "k1"),
     Token("scanner", "j2", "", 3, 5, "k1"), Token("scanner", "j2", "scanner", 0, 2, "k2")}

SomeJWKs == {[key |-> "k1", notAfter |-> 8]}

Symmetry == Permutations(Requests) \cup Permutations(Services)
=============================================================================
