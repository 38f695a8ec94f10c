-------------------------- MODULE MCReplicaFanout --------------------------
(* Small replicas for TLC: c1 and c2 in one conversation, c3 in another. *)
EXTENDS ReplicaFanout, TLC

CONSTANTS c1, c2, c3, v1, v2

ThreeSockets == {c1, c2, c3}
TwoConversations == {v1, v2}
OneApart == (c1 :> v1) @@ (c2 :> v1) @@ (c3 :> v2)

\* c1 and c2 have the same conversation, so they are interchangeable.
Symmetry == Permutations({c1, c2})
=============================================================================
