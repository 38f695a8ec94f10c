-------------------------- MODULE MCConversations --------------------------
(* Small instances of Conversations for TLC. *)
EXTENDS Conversations, TLC

CONSTANTS q1, q2, owner, guest, t1, t2

TwoRequests == {q1, q2}
TwoUsers == {owner, guest}
TwoTitles == {t1, t2}

Symmetry == Permutations({q1, q2}) \cup Permutations({t1, t2})
=============================================================================
