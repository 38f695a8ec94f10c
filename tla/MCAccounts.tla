----------------------------- MODULE MCAccounts -----------------------------
(* Small instances of Accounts, and so of RefreshTokens, for TLC: two of the *)
(* four spellings are one address.                                         *)
EXTENDS Accounts, TLC

CONSTANTS q1, q2, t1, t2, t3, p1, p2, lower, upper, other, wrong, w1, w2

TwoRequests == {q1, q2}
ThreeTokens == {t1, t2, t3}
TwoSignUps == {p1, p2}
TwoPasswords == {w1, w2}
FourSpellings == {lower, upper, other, wrong}
SpelledTwice == (lower :> lower) @@ (upper :> lower) @@ (other :> other) @@ (wrong :> Malformed)

\* Requests are interchangeable, and so are tokens, sign-ups and passwords.
Symmetry ==
    Permutations(TwoRequests) \cup Permutations(ThreeTokens) \cup
    Permutations(TwoSignUps) \cup Permutations(TwoPasswords)
=============================================================================
